------------------------------- MODULE Ledger -------------------------------
(***************************************************************************)
(* The books behind the dashboard's reports: the broker's deal history,    *)
(* the orders and closed_trades tables the executor and the backfill       *)
(* command write (scripts/ea_shim.py, scripts/_tradestore.py), the         *)
(* transaction log, and the reports that scripts/trade_dashboard.py        *)
(* computes from the three.                                                *)
(*                                                                         *)
(* Time is in ticks, DayLen to a day, MonthLen days to a month. The        *)
(* broker stamps deals with its own clock, Offset ticks ahead of UTC. A    *)
(* position has a volume of Lot units and may be closed in parts. Amounts  *)
(* are whole numbers (the code rounds to cents), and an opening deal costs *)
(* nothing. A store write that fails is modelled in Shim, not here.        *)
(***************************************************************************)
EXTENDS Integers, SequencesExt

CONSTANTS
    Positions, Ours,                        \* position ids; the ones this stack opens
    Traces,                                 \* signals the executor receives
    Profits, Lot, StartBalance,             \* results of a closing deal; volume; balance
    DayLen, MonthLen, Offset,
    ResultDays, BackfillDays,               \* how far _closed_result (7 days) and the
                                            \* backfill (90 days) look back
    MaxTime, MaxDeals, MaxAttempts          \* bounds of the model

VARIABLES
    now,       \* the UTC clock
    deals,     \* the broker's deal history
    known,     \* positions the executor saw open at its last poll
    txn,       \* mt5-fills.log with its rotated files
    orders,    \* the orders table, by trace id
    closed,    \* the closed_trades table, by position id
    fetched,   \* the rows a running backfill is about to write, at most one set
    settled    \* history: no closing deal since a backfill read the deals

books == <<now, deals, known, txn, orders, closed, fetched, settled>>

Day(t) == t \div DayLen
AllDays == Day(MaxTime) + 2                 \* a report window that starts before time 0
Cutoff(days) == now - days * DayLen
Sources == {"tradingview", "other"}
Executed == {"filled", "placed"}

Total(rows) == MapThenSumSet(LAMBDA p : rows[p].profit, DOMAIN rows)
Of(rows, P(_)) == [p \in {q \in DOMAIN rows : P(rows[q])} |-> rows[p]]
From(rows, source) == Of(rows, LAMBDA r : r.source = source)
Wins(rows) == Cardinality({p \in DOMAIN rows : rows[p].profit >= 0})

LedgerInit ==
    /\ now = 0
    /\ deals = <<>>
    /\ known = {}
    /\ txn = <<>>
    /\ orders = <<>>
    /\ closed = <<>>
    /\ fetched = <<>>
    /\ settled = TRUE

-----------------------------------------------------------------------------
(* The broker.                                                             *)

Outs(p) == {i \in DOMAIN deals : deals[i].pos = p /\ deals[i].entry = "out"}
EverOpened == {deals[i].pos : i \in DOMAIN deals}
Remaining(p) == Lot - MapThenSumSet(LAMBDA i : deals[i].volume, Outs(p))
StillOpen == {p \in EverOpened : Remaining(p) > 0}
BalanceAt(t) ==
    StartBalance + MapThenSumSet(LAMBDA i : deals[i].profit,
                                 {i \in DOMAIN deals : deals[i].time - Offset <= t})

Deal(p, entry, volume, profit, magic) ==
    [pos |-> p, entry |-> entry, volume |-> volume, profit |-> profit, magic |-> magic,
     time |-> now + Offset]

Opens(p, magic) ==
    /\ p \notin EverOpened
    /\ Len(deals) < MaxDeals
    /\ deals' = Append(deals, Deal(p, "in", Lot, 0, magic))

OtherOpens(p) ==
    /\ p \notin Ours
    /\ Opens(p, "other")
    /\ UNCHANGED <<now, known, txn, orders, closed, fetched, settled>>

\* A closing deal: a stop, a target or a command of the owner keeps the owner's magic
\* number, a hand at the terminal leaves none.
Closes(p, volume, profit, magic) ==
    /\ p \in StillOpen
    /\ volume <= Remaining(p)
    /\ Len(deals) < MaxDeals
    /\ magic = "ours" => p \in Ours
    /\ deals' = Append(deals, Deal(p, "out", volume, profit, magic))
    /\ settled' = FALSE
    /\ UNCHANGED <<now, known, txn, orders, closed, fetched>>

TimePasses ==
    /\ now < MaxTime
    /\ now' = now + 1
    /\ UNCHANGED <<deals, known, txn, orders, closed, fetched, settled>>

-----------------------------------------------------------------------------
(* The executor.                                                           *)

\* The upsert of record_order: a field left None keeps its value, the time never does.
record_order(table, t, row) ==
    [x \in DOMAIN table \cup {t} |->
        IF x # t THEN table[x]
        ELSE IF t \in DOMAIN table
        THEN [row EXCEPT !.id = IF @ = {} THEN table[t].id ELSE @,
                         !.error = @ \/ table[t].error]
        ELSE row]

record_closed_trade(table, rows) ==
    [p \in DOMAIN table \cup DOMAIN rows |-> IF p \in DOMAIN rows THEN rows[p] ELSE table[p]]

\* run_session logs the result of one signal and records it.
Report(t, status, id) ==
    /\ Len(txn) < MaxAttempts
    /\ txn' = Append(txn, [trace |-> t, ts |-> now, status |-> status, id |-> id,
                           error |-> status = "rejected"])
    /\ orders' = record_order(orders, t, [ts |-> now, status |-> status, id |-> id,
                                          error |-> status = "rejected"])
    /\ UNCHANGED <<now, known, closed, fetched, settled>>

Refuses(t) == Report(t, "rejected", {}) /\ UNCHANGED deals
Fills(t, p) == p \in Ours /\ Opens(p, "ours") /\ Report(t, "filled", {p})
\* newsltplong and newsltpshort answer with the tickets they changed.
Amends(t, tickets) ==
    /\ tickets \subseteq StillOpen \cap Ours
    /\ Report(t, "filled", tickets)
    /\ UNCHANGED deals

\* _closed_result: everything but opening deals, over the last ResultDays.
_closed_result(p) ==
    MapThenSumSet(LAMBDA i : deals[i].profit,
                  {i \in Outs(p) : deals[i].time >= Cutoff(ResultDays)})

\* One turn of position_monitor: what was open at the last turn and is not any more.
Poll ==
    LET gone == {p \in known : p \notin StillOpen}
    IN /\ known # StillOpen \cap Ours
       /\ closed' = record_closed_trade(closed,
              [p \in gone |-> [time |-> now, profit |-> _closed_result(p), source |-> "tradingview"]])
       /\ known' = StillOpen \cap Ours
       /\ UNCHANGED <<now, deals, txn, orders, fetched, settled>>

ShimRestarts == known # {} /\ known' = {} /\ UNCHANGED <<now, deals, txn, orders, closed, fetched, settled>>

-----------------------------------------------------------------------------
(* The backfill command.                                                   *)

_deal_source(magic) == IF magic = "ours" THEN "tradingview" ELSE "other"

\* Mutant: one row per position from its last closing deal only.
_group_closed_last(S) ==
    [p \in {q \in Positions : Outs(q) \cap S # {}} |->
        LET last == deals[Max(Outs(p) \cap S)]
        IN [time |-> last.time, profit |-> last.profit, source |-> _deal_source(last.magic)]]

\* Closing deals grouped by position: the parts summed, the last one's time and owner.
_group_closed(S) ==
    [p \in {q \in Positions : Outs(q) \cap S # {}} |->
        LET last == deals[Max(Outs(p) \cap S)]
        IN [time |-> last.time,
            profit |-> MapThenSumSet(LAMBDA i : deals[i].profit, Outs(p) \cap S),
            source |-> _deal_source(last.magic)]]

_fetch_deals(days) == {i \in DOMAIN deals : deals[i].time >= Cutoff(days)}

\* The log's files in the order sorted() gives their names: the current one, which holds
\* the last day that was written, before the rotated ones from the oldest.
InCurrent(r) == Day(r.ts) = Day(txn[Len(txn)].ts)
Files == SelectSeq(txn, InCurrent) \o SelectSeq(txn, LAMBDA r : ~ InCurrent(r))

\* Every record of the log is recorded again, as of now.
_backfill_mt5_fills ==
    FoldLeft(LAMBDA table, r : record_order(table, r.trace,
                 [ts |-> now, status |-> r.status, id |-> r.id, error |-> r.error]),
             orders, Files)

\* backfill: the log first, then the deal history is read and its rows written.
BackfillReads ==
    /\ deals # <<>> \/ txn # <<>>
    /\ fetched = <<>>
    /\ orders' = _backfill_mt5_fills
    /\ fetched' = <<_group_closed(_fetch_deals(BackfillDays))>>
    /\ settled' = TRUE
    /\ UNCHANGED <<now, deals, known, txn, closed>>

_backfill_mt5_closed ==
    /\ fetched # <<>>
    /\ closed' = record_closed_trade(closed, fetched[1])
    /\ fetched' = <<>>
    /\ UNCHANGED <<now, deals, known, txn, orders, settled>>

LedgerNext ==
    \/ TimePasses \/ Poll \/ ShimRestarts \/ BackfillReads \/ _backfill_mt5_closed
    \/ \E p \in Positions :
         \/ OtherOpens(p)
         \/ \E v \in 1 .. Lot, x \in Profits, magic \in {"ours", "other"} : Closes(p, v, x, magic)
    \/ \E t \in Traces :
         \/ Refuses(t)
         \/ \E p \in Ours : Fills(t, p)
         \/ \E tickets \in SUBSET Ours : Amends(t, tickets)

-----------------------------------------------------------------------------
(* The reports of the dashboard. source is "" for all of them.             *)

Within(days) == Of(closed, LAMBDA r : r.time >= Cutoff(days))
Sourced(rows, source) == IF source = "" THEN rows ELSE From(rows, source)

_closed_positions(days) ==
    LET rows == _group_closed(_fetch_deals(days))
    IN [p \in DOMAIN rows |-> [rows[p] EXCEPT !.time = @ - Offset]]

_daily_pnl(rows, days) ==
    [d \in Day(now) - days + 1 .. Day(now) |-> Total(Of(rows, LAMBDA r : Day(r.time) = d))]

_mt5_stats(days, source) ==
    LET all == _closed_positions(days)
        rows == Sourced(all, source)
    IN [count |-> Cardinality(DOMAIN rows), wins |-> Wins(rows), net |-> Total(rows),
        daily |-> _daily_pnl(rows, days), by_source |-> [s \in Sources |-> Total(From(all, s))]]

_digest_period(days, source) ==
    LET rows == Sourced(Within(days), source)
    IN [wins |-> Wins(rows), losses |-> Cardinality(DOMAIN rows) - Wins(rows), net |-> Total(rows),
        by_source |-> [s \in Sources |-> Total(From(rows, s))],
        executed |-> Cardinality({t \in DOMAIN orders :
            orders[t].ts >= Cutoff(days) /\ orders[t].status \in Executed /\ source # "other"})]

calendar_month(month, stack_only, source) ==
    LET rows == Of(closed, LAMBDA r : Day(r.time) \div MonthLen = month)
        shown == IF source # "" THEN From(rows, source)
                 ELSE IF stack_only THEN From(rows, "tradingview") ELSE rows
    IN MapThenSumSet(LAMBDA d : Total(Of(shown, LAMBDA r : Day(r.time) = d)),
                     month * MonthLen .. (month + 1) * MonthLen - 1)

\* Orders of the window joined with closed trades, and the closed trades of others.
JoinedTo(days, p) ==
    {t \in DOMAIN orders :
        orders[t].ts >= Cutoff(days) /\ orders[t].status \in Executed /\ orders[t].id = {p}}

\* Mutant: the second row of the scorecard counts every closed trade.
scorecard_all(days) ==
    LET rows == Within(days)
    IN [net_pl |-> MapThenSumSet(LAMBDA p : rows[p].profit * Cardinality(JoinedTo(days, p)), DOMAIN rows),
        other_pl |-> Total(rows)]

scorecard(days) ==
    LET rows == Within(days)
    IN [net_pl |-> MapThenSumSet(LAMBDA p : rows[p].profit * Cardinality(JoinedTo(days, p)), DOMAIN rows),
        other_pl |-> Total(From(rows, "other"))]

\* The estimated curve: today's balance, and backwards the balance before each later day.
_equity_curve(days) ==
    LET daily == _daily_pnl(Within(days), days)
    IN [d \in DOMAIN daily |->
            BalanceAt(now) - MapThenSumSet(LAMBDA e : daily[e], {e \in DOMAIN daily : e > d})]

_order_stats ==
    [executed |-> Len(SelectSeq(txn, LAMBDA r : r.status \in Executed)),
     rejected |-> Len(SelectSeq(txn, LAMBDA r : r.status = "rejected"))]

ignored_messages(days) ==
    {t \in DOMAIN orders :
        orders[t].ts >= Cutoff(days) /\ (orders[t].status = "rejected" \/ orders[t].error)}

actioned_messages(days) ==
    {t \in DOMAIN orders :
        orders[t].ts >= Cutoff(days) /\ orders[t].status \in Executed \cup {"accepted"}}

-----------------------------------------------------------------------------
(* Properties.                                                             *)

Settled ==
    /\ settled /\ fetched = <<>> /\ deals # <<>>
    /\ \A p \in Positions : \A i \in Outs(p) : deals[i].time >= Cutoff(ResultDays)

\* Where every stored trade carries the day of all its closing deals, the estimated equity
\* curve shows for each day of the window the balance the account had when that day ended.
EquityCurveIsTrue ==
    (\A p \in DOMAIN closed : \A i \in Outs(p) :
        Day(deals[i].time - Offset) = Day(closed[p].time))
        => LET curve == _equity_curve(AllDays)
           IN \A d \in DOMAIN curve : curve[d] = BalanceAt((d + 1) * DayLen - 1)

\* After a backfill, and whatever the executor's own recorder still writes over it, the
\* stored trades add up to what the account really gained, and so do the trades the
\* dashboard groups from the deal history: a position closed in parts is counted once and
\* with all of its parts. Results agree by source as well unless a position of this stack
\* was closed by hand, which the two recorders attribute differently, and the estimated
\* curve ends each day at the account's balance. Excluded is what _closed_result's seven
\* days cut off (record_closed_trade, backfill, _mt5_stats, _digest_period, _equity_curve).
StoreAgreesWithBroker ==
    Settled =>
        LET live == _mt5_stats(AllDays, "")
            stored == _digest_period(AllDays, "")
        IN /\ stored.net = BalanceAt(now) - StartBalance
           /\ live.net = stored.net
           /\ live.wins = stored.wins
           /\ live.count = stored.wins + stored.losses
           /\ (\A i \in DOMAIN deals : deals[i].pos \in Ours => deals[i].magic = "ours")
                => live.by_source = stored.by_source
           /\ EquityCurveIsTrue

\* The totals of the reports agree: the months of the calendar add up, for each
\* source, to the digest of the whole period, and the two rows of the scorecard add up to
\* the digest's total where each trade of this stack is joined with exactly one order, so
\* that no amendment names the same position and no recorder called the trade another's.
TotalsReconcile ==
    closed # <<>> =>
    LET digest == _digest_period(AllDays, "")
        card == scorecard(AllDays)
        months == 0 .. Day(MaxTime + Offset) \div MonthLen
    IN /\ \A s \in Sources :
            /\ MapThenSumSet(LAMBDA m : calendar_month(m, FALSE, s), months) = digest.by_source[s]
            /\ _digest_period(AllDays, s).net = digest.by_source[s]
       /\ MapThenSumSet(LAMBDA m : calendar_month(m, TRUE, ""), months) = digest.by_source["tradingview"]
       /\ (\A p \in DOMAIN closed :
              Cardinality(JoinedTo(AllDays, p)) = IF closed[p].source = "tradingview" THEN 1 ELSE 0)
            => card.net_pl + card.other_pl = digest.net

\* Every signal the executor answered is on the list of what was ignored or of what was
\* done. It is on both only when one of its attempts was refused and another was not (the
\* error of a refusal stays in the row), and no more signals are listed as done than the
\* transaction log has executions.
ListsCoverEverySignal ==
    txn # <<>> =>
    LET ignored == ignored_messages(AllDays)
        actioned == actioned_messages(AllDays)
        Attempts(t, S) == \E i \in DOMAIN txn : txn[i].trace = t /\ txn[i].status \in S
    IN /\ ignored \cup actioned = {txn[i].trace : i \in DOMAIN txn}
       /\ \A t \in ignored \cap actioned : Attempts(t, Executed) /\ Attempts(t, {"rejected"})
       /\ _digest_period(AllDays, "").executed <= _order_stats.executed

\* The reports over the store tell one story, of the trades and of the signals
\* (calendar_month, scorecard, _digest_period, ignored_messages, actioned_messages).
ReportsReconcile == TotalsReconcile /\ ListsCoverEverySignal
=============================================================================
