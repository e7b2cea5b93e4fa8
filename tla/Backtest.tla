------------------------------ MODULE Backtest ------------------------------
(***************************************************************************)
(* The comparison of the model with "take every signal"                    *)
(* (apps/backtester/backtest_ml.py): signals are replayed over the candles *)
(* twice, with one book for each branch.                                   *)
(*                                                                         *)
(* A price is the open of a bar, so a trade keeps the bars it was entered  *)
(* and left at. The bar after the last one has no price.                   *)
(***************************************************************************)
EXTENDS FeatureBuilder, Predictor

CONSTANTS
    Candles,    \* candles that may occur
    MaxBars,    \* length of the series
    MaxSignals  \* how many signals are replayed

\* Prices are positive: a price of zero ends the run with an error (Trade.pnl_pct).
ASSUME PricesAssumption ==
    /\ Unit \in Nat \ {0}
    /\ \A c \in Candles : c.open \in Nat \ {0}

VARIABLES
    candles,    \* the series loaded so far
    bar,        \* the bar of the last signal
    replayed,   \* signals replayed
    unfiltered, filtered,  \* the books of the two branches
    gated       \* TRUE once a signal was not scored, or did not clear the threshold

btvars == <<candles, bar, replayed, unfiltered, filtered, gated>>

EmptyBook == [position |-> "FLAT", trades |-> << >>, seen |-> 0, opened |-> 0, closed |-> 0,
              pyramid |-> 0, filter |-> 0]

BTInit ==
    /\ candles = << >>
    /\ bar = 1
    /\ replayed = 0
    /\ unfiltered = EmptyBook
    /\ filtered = EmptyBook
    /\ gated = FALSE

\* The next row of the file; rows are in order of time.
load_candles ==
    /\ replayed = 0
    /\ Len(candles) < MaxBars
    /\ \E c \in Candles : candles' = Append(candles, c)
    /\ UNCHANGED <<bar, replayed, unfiltered, filtered, gated>>

_baseline_decision(side, position) ==
    LET close == position = Opposite(side)
    IN [close |-> close, open |-> position # side /\ (position = "FLAT" \/ close)]

\* Mutant: the copy has drifted and does not reverse a position.
predictor_predict_drifted(direction, position, pass) ==
    predict(direction, TRUE, position, pass /\ position = "FLAT")

\* The backtester's copy of the predictor; the features are complete here.
predictor_predict(direction, position, pass) == predict(direction, TRUE, position, pass)

\* Mutant: a flip leaves the old trade open.
apply_flip(book, side, d, blocked, index) ==
    LET closes == d.close /\ ~ d.open
        left == IF closes THEN [book.trades EXCEPT ![Len(book.trades)].out = index] ELSE book.trades
        pyramid == ~ d.open /\ ~ d.close /\ book.position = side
    IN [position |-> IF d.open THEN side ELSE IF closes THEN "FLAT" ELSE book.position,
        trades |-> IF d.open THEN Append(left, [side |-> side, in |-> index, out |-> 0]) ELSE left,
        seen |-> book.seen + 1,
        opened |-> book.opened + (IF d.open THEN 1 ELSE 0),
        closed |-> book.closed + (IF d.close THEN 1 ELSE 0),
        pyramid |-> book.pyramid + (IF pyramid THEN 1 ELSE 0),
        filter |-> book.filter + (IF ~ d.open /\ ~ pyramid /\ blocked THEN 1 ELSE 0)]

\* BranchState.apply: out = 0 stands for a trade not left yet.
apply(book, side, d, blocked, index) ==
    LET closes == d.close /\ book.position # "FLAT"
        left == IF closes THEN [book.trades EXCEPT ![Len(book.trades)].out = index] ELSE book.trades
        pyramid == ~ d.open /\ ~ d.close /\ book.position = side
    IN [position |-> IF d.open THEN side ELSE IF closes THEN "FLAT" ELSE book.position,
        trades |-> IF d.open THEN Append(left, [side |-> side, in |-> index, out |-> 0]) ELSE left,
        seen |-> book.seen + 1,
        opened |-> book.opened + (IF d.open THEN 1 ELSE 0),
        closed |-> book.closed + (IF closes THEN 1 ELSE 0),
        pyramid |-> book.pyramid + (IF pyramid THEN 1 ELSE 0),
        filter |-> book.filter + (IF ~ d.open /\ ~ pyramid /\ blocked THEN 1 ELSE 0)]

\* One turn of the loop of run_comparison, for a signal at bar i: both branches fill at
\* the next bar, and the filtered one only if the features are complete.
ReplaySignal(i, scored, direction, pass) ==
    LET side == SideOf(direction)
        base == _baseline_decision(side, unfiltered.position)
        decision == predictor_predict(direction, filtered.position, pass)
        would_open == _baseline_decision(side, filtered.position).open
    IN /\ bar' = i
       /\ unfiltered' = apply(unfiltered, side, base, FALSE, i + 1)
       /\ filtered' = IF scored
                      THEN apply(filtered, side, decision, would_open /\ ~ decision.open, i + 1)
                      ELSE filtered
       /\ gated' = (gated \/ ~ scored \/ ~ pass)

\* The next signal whose bar is in the file.
Replay ==
    /\ replayed < MaxSignals
    /\ \E i \in bar .. Len(candles), scored \in BOOLEAN :
        /\ scored = (build_at(candles, i) # << >>)
        /\ \E direction \in {1, -1}, pass \in BOOLEAN : ReplaySignal(i, scored, direction, pass)
    /\ replayed' = replayed + 1
    /\ UNCHANGED candles

BTSpec == BTInit /\ [][load_candles \/ Replay]_btvars

-----------------------------------------------------------------------------
(* The report. *)

Priced(index) == index \in DOMAIN candles

\* Trades with an exit price, in order; a trade left after the last bar has none.
ClosedTrades(book) ==
    LET upto[n \in 0 .. Len(book.trades)] ==
            IF n = 0 THEN << >>
            ELSE IF Priced(book.trades[n].out) THEN Append(upto[n - 1], book.trades[n])
            ELSE upto[n - 1]
    IN upto[Len(book.trades)]

pnl_pct(t) ==
    LET gain == Div(candles[t.out].open - candles[t.in].open, candles[t.in].open)
    IN IF t.side = "LONG" THEN gain ELSE - gain

\* The running sum with one more profit, its peak and the largest fall.
Falls(s, pnl) ==
    LET sum == s.sum + pnl
        peak == IF sum > s.peak THEN sum ELSE s.peak
    IN [sum |-> sum, peak |-> peak, fall |-> IF peak - sum > s.fall THEN peak - sum ELSE s.fall]

\* One pass over the profits.
_max_drawdown(pnls) ==
    LET state[n \in 0 .. Len(pnls)] ==
            IF n = 0 THEN [sum |-> 0, peak |-> 0, fall |-> 0] ELSE Falls(state[n - 1], pnls[n])
    IN state[Len(pnls)].fall

_branch_stats(book) ==
    LET closed == ClosedTrades(book)
        pnls == [k \in DOMAIN closed |-> pnl_pct(closed[k])]
    IN [pnls |-> pnls,
        wins |-> Cardinality({k \in DOMAIN pnls : pnls[k] > 0}),
        still_open |-> Len(book.trades) - Len(closed),
        max_drawdown |-> _max_drawdown(pnls)]

-----------------------------------------------------------------------------
(* Properties. *)

Books == {unfiltered, filtered}

\* Every signal a branch saw is in exactly one column of its report: it opened a trade,
\* found the position it asked for, or was stopped by the model; without the model none
\* is stopped (BranchState.apply, _baseline_decision, predict).
EverySignalIsCounted ==
    /\ \A b \in Books : b.seen = b.opened + b.pyramid + b.filter
    /\ unfiltered.filter = 0
    /\ unfiltered.seen = replayed

\* The trades of a branch follow one another: only the last can be open, and the position
\* is its side (BranchState.apply).
TradesFollow ==
    \A b \in Books :
        /\ \A k \in 1 .. Len(b.trades) - 1 :
            0 < b.trades[k].in /\ b.trades[k].in <= b.trades[k].out /\ b.trades[k].out <= b.trades[k + 1].in
        /\ b.position = (IF b.trades = << >> \/ b.trades[Len(b.trades)].out # 0 THEN "FLAT"
                         ELSE b.trades[Len(b.trades)].side)

\* The report's opened, closed and still open trades balance, except that a trade left by
\* a signal on the last bar is both closed and still open (_branch_stats).
BooksBalance ==
    \A b \in Books :
        b.opened - b.closed = _branch_stats(b).still_open
            - Cardinality({k \in DOMAIN b.trades : b.trades[k].out > Len(candles)})

\* The drawdown of the report is the largest fall of the running profit from an earlier
\* value, or from zero (_max_drawdown).
DrawdownIsLargestFall ==
    \A b \in Books :
        LET pnls == _branch_stats(b).pnls
            profit[n \in 0 .. Len(pnls)] == IF n = 0 THEN 0 ELSE profit[n - 1] + pnls[n]
            falls == UNION {{profit[m] - profit[n] : m \in 0 .. n} : n \in 0 .. Len(pnls)}
        IN _branch_stats(b).max_drawdown = Max(falls)

\* The report of a branch is true of its signals and trades (BranchState, _branch_stats).
BranchReportIsTrue == EverySignalIsCounted /\ TradesFollow /\ BooksBalance /\ DrawdownIsLargestFall

\* With a model that lets every signal through, the two branches are one: the predictor
\* and _baseline_decision, written apart, agree on every position.
PassingModelChangesNothing ==
    ~ gated => filtered = unfiltered

\* A new candle changes no feature of an earlier bar, on the higher timeframe either: no
\* feature looks ahead (FeatureBuilder, _last_closed_bin).
NoLookAhead ==
    [][candles' # candles =>
        \A i \in DOMAIN candles : Features(candles', i) = Features(candles, i)]_btvars

=============================================================================
