---------------------------- MODULE SignalStore ----------------------------
(***************************************************************************)
(* What becomes of accepted signals and of fills in the database: the      *)
(* on_signal and on_fill handlers of apps/persist/app.py, and the          *)
(* fill_timeout_check and data_retention jobs of apps/tasks/app.py.        *)
(*                                                                         *)
(* A trace names a signal and the fill that answers it.  persist handles   *)
(* the messages of one consumer one at a time and the two consumers        *)
(* concurrently; every SQL statement is a transaction of its own.  Ingress *)
(* always sets body_sha256, so every signal has a body to deduplicate by.  *)
(***************************************************************************)
EXTENDS Naturals, FiniteSets

CONSTANTS Traces,      \* trace ids
          Bodies,      \* <<license, body_sha256>> pairs
          BodyOf,      \* the body of each signal
          Garbled,     \* <<kind, trace>> pairs whose payload does not parse
          Known,       \* <<kind, trace>> pairs whose lookup finds an active
                       \* licence (and, for a fill, the instance)
          Answered,    \* traces the EA answers with a fill
          NoTrace,
          Batch,       \* LIMIT of fill_timeout_check
          MaxErrors,   \* bound: statements that fail, or find no database
          MaxRestarts, \* bound: restarts of persist or tasks
          MaxSlow      \* bound: ack waits that expire during a handler

Kinds == {"signal", "fill"}
Services == {"persist", "tasks"}

ASSUME BodyOfType == BodyOf \in [Traces -> Bodies]
ASSUME MessagesGiven == Garbled \cup Known \subseteq Kinds \X Traces
ASSUME AnsweredGiven == Answered \subseteq Traces
ASSUME NoTraceFresh == NoTrace \notin Traces
ASSUME BatchPositive == Batch \in Nat \ {0}
ASSUME BoundsNat == MaxErrors \in Nat /\ MaxRestarts \in Nat /\ MaxSlow \in Nat

VARIABLES
    js,           \* js[k][t]: the message of kind k and trace t
    at, msg,      \* the statement each handler is at, and its message
    pools,        \* the services that got a database pool when they started
    fingerprints, \* signal_fingerprints: body -> the trace that inserted it
    rows,         \* accepted_signals, as the set of traces with a row
    fills,        \* fills: rows with a reported status, per trace
    timeouts,     \* fills: rows with status 'timeout', per trace
    answered,     \* traces for which a reported fill was ever stored
    deadLetters,  \* dead_letter_messages
    age,          \* age of the signal: new, due (past the timeout), old
    overdue,      \* rows fill_timeout_check has still to process
    alerting,     \* the one whose fill is inserted and event is not
    late,         \* traces given a timeout when they were old already
    alerted,      \* traces with a fill_timeout system event
    sweep,        \* the statement data_retention is at
    errors, restarts, slow

busVars   == <<js, at, msg>>
tables    == <<fingerprints, rows, fills, timeouts, answered, deadLetters>>
checkVars == <<overdue, alerting, late, alerted>>
budget    == <<errors, restarts, slow>>
vars == <<busVars, pools, tables, age, checkVars, sweep, budget>>

BusTypeOK ==
    /\ js \in [Kinds -> [Traces -> {"unsent", "waiting", "inflight", "acked"}]]
    /\ at \in [Kinds -> {"idle", "fingerprint", "row", "ack"}]
    /\ msg \in [Kinds -> Traces \cup {NoTrace}]
    /\ \A k \in Kinds : at[k] = "idle" <=> msg[k] = NoTrace

TablesTypeOK ==
    /\ fingerprints \in [Bodies -> Traces \cup {NoTrace}]
    /\ rows \in SUBSET Traces
    /\ fills \in [Traces -> Nat]
    /\ timeouts \in [Traces -> Nat]
    /\ answered \in SUBSET Traces
    /\ deadLetters \in SUBSET (Kinds \X Traces)

TasksTypeOK ==
    /\ age \in [Traces -> {"new", "due", "old"}]
    /\ overdue \in SUBSET Traces
    /\ alerting \in overdue \cup {NoTrace}
    /\ late \in SUBSET Traces
    /\ alerted \in SUBSET Traces
    /\ sweep \in {"idle", "fingerprints", "signals"}

\* The types, and two facts about them: a handler that is not idle holds a
\* message, and the signal whose alert is due is one of those being processed.
TypeOK ==
    /\ BusTypeOK
    /\ TablesTypeOK
    /\ TasksTypeOK
    /\ pools \in SUBSET Services
    /\ errors \in Nat /\ restarts \in Nat /\ slow \in Nat

Init ==
    /\ js = [k \in Kinds |-> [t \in Traces |-> "unsent"]]
    /\ at = [k \in Kinds |-> "idle"]
    /\ msg = [k \in Kinds |-> NoTrace]
    /\ pools = Services
    /\ fingerprints = [b \in Bodies |-> NoTrace]
    /\ rows = {}
    /\ fills = [t \in Traces |-> 0]
    /\ timeouts = [t \in Traces |-> 0]
    /\ answered = {}
    /\ deadLetters = {}
    /\ age = [t \in Traces |-> "new"]
    /\ overdue = {}
    /\ alerting = NoTrace
    /\ late = {}
    /\ alerted = {}
    /\ sweep = "idle"
    /\ errors = 0 /\ restarts = 0 /\ slow = 0

-----------------------------------------------------------------------------
(* Messages and time (external).                                           *)

SignalPublished(t) ==
    /\ js["signal"][t] = "unsent"
    /\ js' = [js EXCEPT !["signal"][t] = "waiting"]
    /\ UNCHANGED <<at, msg, pools, tables, age, checkVars, sweep, budget>>

FillPublished(t) ==
    /\ t \in Answered
    /\ js["signal"][t] # "unsent"
    /\ js["fill"][t] = "unsent"
    /\ age[t] # "old"
    /\ js' = [js EXCEPT !["fill"][t] = "waiting"]
    /\ UNCHANGED <<at, msg, pools, tables, age, checkVars, sweep, budget>>

Holds(k, t) == msg[k] = t

\* AckWait: expected after a restart, a fault while the handler is at work.
AckWaitExpires(k, t) ==
    /\ js[k][t] = "inflight"
    /\ IF Holds(k, t) THEN slow < MaxSlow /\ slow' = slow + 1
                      ELSE slow' = slow
    /\ js' = [js EXCEPT ![k][t] = "waiting"]
    /\ UNCHANGED <<at, msg, pools, tables, age, checkVars, sweep, errors,
                   restarts>>

\* A signal becomes due after FILL_TIMEOUT_SECS, and old after RETENTION_DAYS,
\* by when its messages have long been handled.
Age(t) ==
    /\ js["signal"][t] # "unsent"
    /\ \/ age[t] = "new" /\ age' = [age EXCEPT ![t] = "due"]
       \/ /\ age[t] = "due"
          /\ js["signal"][t] = "acked"
          /\ js["fill"][t] \in {"acked", "unsent"}
          /\ \A k \in Kinds : ~Holds(k, t)
          /\ t \notin overdue
          /\ age' = [age EXCEPT ![t] = "old"]
    /\ UNCHANGED <<busVars, pools, tables, checkVars, sweep, budget>>

\* A statement fails: the server is down, or the command times out.
Fails == errors < MaxErrors /\ errors' = errors + 1
Succeeds == errors' = errors

-----------------------------------------------------------------------------
(* persist.                                                                *)

Connected == "persist" \in pools

Goto(k, l) == at' = [at EXCEPT ![k] = l]

\* Mutant: a message is acked before it is handled.
TakenAcked == "acked"

\* A message stays unacked while it is handled.
Taken == "inflight"

\* The start of a handler, up to its first write: a payload that does not
\* parse is parked, and everything else is skipped without a pool, without an
\* active licence or instance, or when the lookup fails.
Handle(k, t, first) ==
    /\ at[k] = "idle"
    /\ js[k][t] = "waiting"
    /\ js' = [js EXCEPT ![k][t] = Taken]
    /\ msg' = [msg EXCEPT ![k] = t]
    /\ \/ /\ <<k, t>> \in Garbled
          /\ Goto(k, "ack")
          /\ \/ /\ Connected
                /\ Succeeds \/ Fails
                /\ deadLetters' = deadLetters \cup {<<k, t>>}
             \/ /\ IF Connected THEN Fails ELSE Succeeds
                /\ UNCHANGED deadLetters
       \/ /\ <<k, t>> \notin Garbled
          /\ UNCHANGED deadLetters
          /\ \/ /\ Connected /\ <<k, t>> \in Known
                /\ Succeeds
                /\ Goto(k, first)
             \/ /\ ~Connected \/ <<k, t>> \notin Known
                /\ Succeeds
                /\ Goto(k, "ack")
             \/ /\ Connected
                /\ Fails
                /\ Goto(k, "ack")
    /\ UNCHANGED <<pools, fingerprints, rows, fills, timeouts, answered, age,
                   checkVars, sweep, restarts, slow>>

OnSignal(t) == Handle("signal", t, "fingerprint")
OnFill(t) == Handle("fill", t, "row")

\* A write, whose error may come before or after its commit; an error is
\* logged and the handler goes on to the ack.
Commit(k, next, effect, none) ==
    \/ Succeeds /\ Goto(k, next) /\ effect
    \/ Fails /\ Goto(k, "ack") /\ (effect \/ none)

\* Mutant: the fingerprint is not checked.
InsertFingerprintAnyway ==
    LET t == msg["signal"]
        b == BodyOf[t]
    IN  /\ at["signal"] = "fingerprint"
        /\ Commit("signal", "row",
                  fingerprints' = [fingerprints EXCEPT ![b] = t],
                  UNCHANGED fingerprints)
        /\ UNCHANGED <<js, msg, pools, rows, fills, timeouts, answered,
                       deadLetters, age, checkVars, sweep, restarts, slow>>

\* ON CONFLICT DO NOTHING RETURNING TRUE: a duplicate goes to the ack.
InsertFingerprint ==
    LET t == msg["signal"]
        b == BodyOf[t]
    IN  /\ at["signal"] = "fingerprint"
        /\ \/ /\ fingerprints[b] # NoTrace
              /\ Goto("signal", "ack")
              /\ Succeeds \/ Fails
              /\ UNCHANGED fingerprints
           \/ /\ fingerprints[b] = NoTrace
              /\ Commit("signal", "row",
                        fingerprints' = [fingerprints EXCEPT ![b] = t],
                        UNCHANGED fingerprints)
        /\ UNCHANGED <<js, msg, pools, rows, fills, timeouts, answered,
                       deadLetters, age, checkVars, sweep, restarts, slow>>

\* The instance lookup and the insert into accepted_signals.
InsertSignal ==
    /\ at["signal"] = "row"
    /\ Commit("signal", "ack", rows' = rows \cup {msg["signal"]},
              UNCHANGED rows)
    /\ UNCHANGED <<js, msg, pools, fingerprints, fills, timeouts, answered,
                   deadLetters, age, checkVars, sweep, restarts, slow>>

\* The key of fills is a fresh UUID: nothing ever conflicts.
InsertFill ==
    LET t == msg["fill"]
    IN  /\ at["fill"] = "row"
        /\ Commit("fill", "ack",
                  /\ fills' = [fills EXCEPT ![t] = @ + 1]
                  /\ answered' = answered \cup {t},
                  UNCHANGED <<fills, answered>>)
        /\ UNCHANGED <<js, msg, pools, fingerprints, rows, timeouts,
                       deadLetters, age, checkVars, sweep, restarts, slow>>

\* The ack.  A message whose ack wait expired may be on its way again by then
\* and is handled once more.
AckMessage(k) ==
    /\ at[k] = "ack"
    /\ \/ js' = [js EXCEPT ![k][msg[k]] = "acked"]
       \/ js[k][msg[k]] = "waiting" /\ UNCHANGED js
    /\ Goto(k, "idle")
    /\ msg' = [msg EXCEPT ![k] = NoTrace]
    /\ UNCHANGED <<pools, tables, age, checkVars, sweep, budget>>

\* run is entered again.  Without a database at that moment the service runs
\* on without a pool.
ConnectPool(s) ==
    \/ pools' = pools \cup {s} /\ Succeeds
    \/ pools' = pools \ {s} /\ Fails

RestartPersist ==
    /\ restarts < MaxRestarts
    /\ restarts' = restarts + 1
    /\ at' = [k \in Kinds |-> "idle"]
    /\ msg' = [k \in Kinds |-> NoTrace]
    /\ ConnectPool("persist")
    /\ UNCHANGED <<js, tables, age, checkVars, sweep, slow>>

-----------------------------------------------------------------------------
(* tasks.                                                                  *)

\* Mutant: the query does not exclude signals that have a fill.
UnreportedAny(t) == t \in rows /\ age[t] # "new" /\ timeouts[t] = 0

\* Mutant: the query looks for a reported fill only.
UnreportedByEA(t) == t \in rows /\ age[t] # "new" /\ fills[t] = 0

\* Mutant: the comparison with the timeout is the wrong way round.
UnreportedFlipped(t) ==
    t \in rows /\ age[t] = "new" /\ fills[t] = 0 /\ timeouts[t] = 0

\* The query: an overdue signal with no row in fills.  It has no lower bound
\* on the age.
Unreported(t) ==
    t \in rows /\ age[t] # "new" /\ fills[t] = 0 /\ timeouts[t] = 0

Picked(P) ==
    LET unreported == {t \in Traces : Unreported(t)}
    IN  /\ P # {}
        /\ P \subseteq unreported
        /\ Cardinality(P) = Batch \/ (Cardinality(P) < Batch /\ P = unreported)

\* run_periodically awaits each check: they do not overlap.
FillTimeoutCheck ==
    /\ "tasks" \in pools
    /\ overdue = {}
    /\ \E P \in SUBSET Traces : Picked(P) /\ overdue' = P
    /\ UNCHANGED <<busVars, pools, tables, age, alerting, late, alerted, sweep,
                   budget>>

\* One iteration of the loop is two inserts.  An exception ends the job.
InsertTimeout(t) ==
    /\ t \in overdue
    /\ alerting = NoTrace
    /\ \/ /\ Succeeds
          /\ timeouts' = [timeouts EXCEPT ![t] = @ + 1]
          /\ alerting' = t
          /\ UNCHANGED overdue
       \/ /\ Fails
          /\ timeouts' \in {timeouts, [timeouts EXCEPT ![t] = @ + 1]}
          /\ overdue' = {}
          /\ UNCHANGED alerting
    /\ late' = IF age[t] = "old" THEN late \cup {t} ELSE late
    /\ UNCHANGED <<busVars, pools, fingerprints, rows, fills, answered,
                   deadLetters, age, alerted, sweep, restarts, slow>>

InsertAlert ==
    /\ alerting # NoTrace
    /\ alerting' = NoTrace
    /\ \/ /\ Succeeds
          /\ alerted' = alerted \cup {alerting}
          /\ overdue' = overdue \ {alerting}
       \/ /\ Fails
          /\ alerted' \in {alerted, alerted \cup {alerting}}
          /\ overdue' = {}
    /\ UNCHANGED <<busVars, pools, tables, age, late, sweep, restarts, slow>>

Old == {t \in Traces : age[t] = "old"}

\* An exception ends the job until its next turn.
Continue(statement) ==
    \/ Succeeds /\ sweep' = statement
    \/ Fails /\ sweep' = "idle"

\* data_retention: three statements.  A fill or a fingerprint is written after
\* its signal was received and may outlive the cutoff the signal has passed; a
\* timeout for an old signal is young and outlives its signal's chunk.  And
\* drop_chunks leaves a signal whose chunk is not entirely old.
DeleteFills ==
    /\ "tasks" \in pools
    /\ sweep = "idle"
    /\ Old # {}
    /\ \E D \in SUBSET Old, E \in SUBSET (Old \ late) :
        /\ fills' = [t \in Traces |-> IF t \in D THEN 0 ELSE fills[t]]
        /\ timeouts' = [t \in Traces |-> IF t \in E THEN 0 ELSE timeouts[t]]
    /\ Continue("fingerprints")
    /\ UNCHANGED <<busVars, pools, fingerprints, rows, answered, deadLetters, age,
                   checkVars, restarts, slow>>

DeleteFingerprints ==
    /\ sweep = "fingerprints"
    /\ \E D \in SUBSET Old :
        fingerprints' = [b \in Bodies |->
            IF fingerprints[b] \in D THEN NoTrace ELSE fingerprints[b]]
    /\ Continue("signals")
    /\ UNCHANGED <<busVars, pools, rows, fills, timeouts, answered, deadLetters,
                   age, checkVars, restarts, slow>>

\* drop_chunks, and a plain DELETE should it fail.
DropSignals ==
    /\ sweep = "signals"
    /\ \E D \in SUBSET Old : rows' = rows \ D
    /\ sweep' = "idle"
    /\ UNCHANGED <<busVars, pools, fingerprints, fills, timeouts, answered,
                   deadLetters, age, checkVars, budget>>

RestartTasks ==
    /\ restarts < MaxRestarts
    /\ restarts' = restarts + 1
    /\ overdue' = {}
    /\ alerting' = NoTrace
    /\ sweep' = "idle"
    /\ ConnectPool("tasks")
    /\ UNCHANGED <<busVars, tables, age, late, alerted, slow>>

-----------------------------------------------------------------------------
Persist ==
    \/ InsertFingerprint
    \/ InsertSignal
    \/ InsertFill
    \/ \E k \in Kinds : AckMessage(k)

Check == FillTimeoutCheck \/ InsertAlert \/ \E t \in Traces : InsertTimeout(t)

Retention == DeleteFills \/ DeleteFingerprints \/ DropSignals

Next ==
    \/ \E t \in Traces :
        \/ SignalPublished(t)
        \/ FillPublished(t)
        \/ Age(t)
        \/ OnSignal(t)
        \/ OnFill(t)
        \/ \E k \in Kinds : AckWaitExpires(k, t)
    \/ Persist
    \/ Check
    \/ Retention
    \/ RestartPersist
    \/ RestartTasks

Spec == Init /\ [][Next]_vars

\* The event loops of both services keep running and JetStream redelivers what
\* nobody acked.  Restarts, slow handlers and retention happen or not.
Fairness ==
    /\ \A t \in Traces :
        /\ WF_vars(OnSignal(t))
        /\ WF_vars(OnFill(t))
        /\ WF_vars(InsertTimeout(t))
        /\ WF_vars(age[t] = "new" /\ Age(t))
    /\ \A k \in Kinds :
        /\ WF_vars(AckMessage(k))
        /\ \A t \in Traces : WF_vars(~Holds(k, t) /\ AckWaitExpires(k, t))
    /\ WF_vars(InsertFingerprint)
    /\ WF_vars(InsertSignal)
    /\ WF_vars(InsertFill)
    /\ WF_vars(FillTimeoutCheck)
    /\ WF_vars(InsertAlert)

FairSpec == Spec /\ Fairness

-----------------------------------------------------------------------------
(* Properties.                                                             *)

\* Of the signals with one body at most one has a row within the retention
\* period, whatever is redelivered, retried, restarted or answered late: the
\* purpose of signal_fingerprints in persist_signal.
OneRowPerBody ==
    \A t, u \in rows :
        BodyOf[t] = BodyOf[u] /\ age[t] # "old" /\ age[u] # "old" => t = u

\* A signal gets at most one synthetic timeout fill, although the job runs
\* again after an exception or a restart in the middle of its loop.
TimeoutOnce == \A t \in Traces : timeouts[t] <= 1

Storable(t) == <<"signal", t>> \in Known \ Garbled

\* The body of t is on record: with the row of a signal, or with one that is
\* past its retention.
OnRecord(t) ==
    \E u \in Traces : BodyOf[u] = BodyOf[t] /\ (u \in rows \/ age[u] = "old")

\* Without a database error and without a restart, what the handlers acked is
\* accounted for, even when it is delivered again while it is handled: a signal
\* is on record, a fill was stored, a payload that does not parse is parked.
StoredWithoutFaults ==
    errors = 0 /\ restarts = 0 =>
        \A t \in Traces :
            /\ js["signal"][t] = "acked" /\ Storable(t) => OnRecord(t)
            /\ js["fill"][t] = "acked" /\ <<"fill", t>> \in Known \ Garbled
                => t \in answered
            /\ \A k \in Kinds :
                js[k][t] = "acked" /\ <<k, t>> \in Garbled
                    => <<k, t>> \in deadLetters

\* fill_timeout_check never picks a signal within the retention period that
\* has a reported fill on record, although fills are inserted by another
\* process while the check runs.
PicksUnreportedRecent ==
    [][\A t \in overdue' \ overdue : age[t] # "old" => t \notin answered]_vars

\* Every signal with a row gets a fill or a timeout, unless retention removes
\* it first or the tasks service has started without a database.
EveryRowReported ==
    \A t \in Traces :
        t \in rows ~> \/ fills[t] + timeouts[t] > 0
                      \/ t \notin rows
                      \/ "tasks" \notin pools

(* A statement of the documentation the code does not keep.                *)

\* CHANGELOG.md: "Both writes use ON CONFLICT DO NOTHING for idempotent
\* at-least-once delivery."  A signal that persist acked is on record.
AckedSignalIsStored ==
    \A t \in Traces :
        js["signal"][t] = "acked" /\ Storable(t) => OnRecord(t)

=============================================================================
