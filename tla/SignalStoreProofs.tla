------------------------- MODULE SignalStoreProofs -------------------------
(***************************************************************************)
(* Proofs about SignalStore, for any traces, bodies and messages and any   *)
(* number of errors, restarts and slow handlers: one row per body within   *)
(* the retention period, one timeout per signal, no timeout for a signal   *)
(* with a fill on record, and no loss without faults.                      *)
(***************************************************************************)
EXTENDS SignalStore, TLAPS

-----------------------------------------------------------------------------
(* Types.                                                                  *)

\* The message side is well typed after every step.
LEMMA BusTyped == TypeOK /\ [Next]_vars => BusTypeOK'
<1> SUFFICES ASSUME TypeOK, [Next]_vars PROVE BusTypeOK'
    BY Zenon
<1> USE NoTraceFresh DEF TypeOK, BusTypeOK, Kinds
<1>1. ASSUME NEW t \in Traces, SignalPublished(t) \/ FillPublished(t)
      PROVE  BusTypeOK'
    BY <1>1 DEF SignalPublished, FillPublished
<1>2. ASSUME NEW t \in Traces, NEW k \in Kinds, AckWaitExpires(k, t)
      PROVE  BusTypeOK'
    BY <1>2, Zenon DEF AckWaitExpires
<1>3. ASSUME NEW t \in Traces, OnSignal(t) \/ OnFill(t) PROVE BusTypeOK'
  <2>1. ASSUME NEW k \in Kinds, NEW first \in {"fingerprint", "row"},
               Handle(k, t, first)
        PROVE  BusTypeOK'
    <3>1. PICK l \in {"fingerprint", "row", "ack"} : at' = [at EXCEPT ![k] = l]
        BY <2>1, Zenon DEF Handle, Goto
    <3>2. /\ js' = [js EXCEPT ![k][t] = "inflight"]
          /\ msg' = [msg EXCEPT ![k] = t]
        BY <2>1, Zenon DEF Handle, Taken
    <3> QED
        BY <3>1, <3>2, Zenon
  <2> QED
    BY <1>3, <2>1, Zenon DEF OnSignal, OnFill
<1>4. CASE InsertFingerprint \/ InsertSignal \/ InsertFill
  <2>1. PICK k \in Kinds, l \in {"row", "ack"} :
            at[k] # "idle" /\ at' = [at EXCEPT ![k] = l]
    BY <1>4, Zenon DEF InsertFingerprint, InsertSignal, InsertFill, Commit, Goto
  <2>2. UNCHANGED <<js, msg>>
    BY <1>4, Zenon DEF InsertFingerprint, InsertSignal, InsertFill
  <2> QED
    BY <2>1, <2>2, Zenon
<1>5. ASSUME NEW k \in Kinds, AckMessage(k) PROVE BusTypeOK'
  <2>1. /\ at' = [at EXCEPT ![k] = "idle"]
        /\ msg' = [msg EXCEPT ![k] = NoTrace]
        /\ js' = [js EXCEPT ![k][msg[k]] = "acked"] \/ js' = js
    BY <1>5, Zenon DEF AckMessage, Goto
  <2>2. msg[k] \in Traces
    BY <1>5, Zenon DEF AckMessage
  <2> QED
    BY <2>1, <2>2
<1>6. CASE RestartPersist
    BY <1>6, Zenon DEF RestartPersist
<1>7. ASSUME NEW t \in Traces, Age(t) \/ InsertTimeout(t) PROVE BusTypeOK'
    BY <1>7, Zenon DEF Age, InsertTimeout, busVars
<1>8. CASE \/ FillTimeoutCheck \/ InsertAlert \/ Retention \/ RestartTasks
           \/ UNCHANGED vars
    BY <1>8, Zenon DEF FillTimeoutCheck, InsertAlert, Retention, DeleteFills,
                DeleteFingerprints, DropSignals, RestartTasks, busVars, vars
<1> HIDE DEF TypeOK, BusTypeOK
<1> QED
    BY <1>1, <1>2, <1>3, <1>4, <1>5, <1>6, <1>7, <1>8, Zenon DEF Next, Persist, Check

\* The tables are well typed after every step.
LEMMA TablesTyped == TypeOK /\ [Next]_vars => TablesTypeOK'
<1> SUFFICES ASSUME TypeOK, [Next]_vars PROVE TablesTypeOK'
    BY Zenon
<1> USE NoTraceFresh DEF TypeOK, TablesTypeOK
<1>1. ASSUME NEW t \in Traces,
             \/ SignalPublished(t) \/ FillPublished(t) \/ Age(t)
             \/ \E k \in Kinds : AckWaitExpires(k, t)
      PROVE  TablesTypeOK'
    BY <1>1, Zenon DEF SignalPublished, FillPublished, Age, AckWaitExpires, tables
<1>2. ASSUME NEW t \in Traces, OnSignal(t) \/ OnFill(t) PROVE TablesTypeOK'
  <2>1. \E k \in Kinds : deadLetters' \in {deadLetters, deadLetters \cup {<<k, t>>}}
    BY <1>2, Zenon DEF OnSignal, OnFill, Handle, Kinds
  <2>2. UNCHANGED <<fingerprints, rows, fills, timeouts, answered>>
    BY <1>2, Zenon DEF OnSignal, OnFill, Handle
  <2> QED
    BY <2>1, <2>2
<1>3. CASE InsertFingerprint
  <2>1. msg["signal"] \in Traces
    BY <1>3, Zenon DEF InsertFingerprint, BusTypeOK, Kinds
  <2>2. \/ fingerprints' = fingerprints
        \/ fingerprints' =
            [fingerprints EXCEPT ![BodyOf[msg["signal"]]] = msg["signal"]]
    BY <1>3, Zenon DEF InsertFingerprint, Commit
  <2>3. UNCHANGED <<rows, fills, timeouts, answered, deadLetters>>
    BY <1>3, Zenon DEF InsertFingerprint
  <2> QED
    BY <2>1, <2>2, <2>3, Zenon
<1>4. CASE InsertSignal
  <2>1. msg["signal"] \in Traces
    BY <1>4, Zenon DEF InsertSignal, BusTypeOK, Kinds
  <2> QED
    BY <1>4, <2>1, Zenon DEF InsertSignal, Commit
<1>5. CASE InsertFill
  <2>1. msg["fill"] \in Traces
    BY <1>5, Zenon DEF InsertFill, BusTypeOK, Kinds
  <2> QED
    BY <1>5, <2>1 DEF InsertFill, Commit
<1>6. ASSUME NEW t \in Traces, InsertTimeout(t) PROVE TablesTypeOK'
    BY <1>6 DEF InsertTimeout
<1>7. CASE DeleteFills
    BY <1>7 DEF DeleteFills
<1>8. CASE DeleteFingerprints
    BY <1>8, Zenon DEF DeleteFingerprints
<1>9. CASE DropSignals
    BY <1>9, Zenon DEF DropSignals
<1>10. ASSUME NEW k \in Kinds, AckMessage(k) PROVE TablesTypeOK'
    BY <1>10, Zenon DEF AckMessage, tables
<1>11. CASE \/ FillTimeoutCheck \/ InsertAlert \/ RestartPersist \/ RestartTasks
            \/ UNCHANGED vars
    BY <1>11, Zenon DEF FillTimeoutCheck, InsertAlert, RestartPersist, RestartTasks,
                 tables, vars
<1> HIDE DEF TypeOK, TablesTypeOK
<1> QED
    BY <1>1, <1>2, <1>3, <1>4, <1>5, <1>6, <1>7, <1>8, <1>9, <1>10, <1>11, Zenon
    DEF Next, Persist, Check, Retention

\* The state of the jobs is well typed after every step.
LEMMA TasksTyped == TypeOK /\ [Next]_vars => TasksTypeOK'
<1> SUFFICES ASSUME TypeOK, [Next]_vars PROVE TasksTypeOK'
    BY Zenon
<1> USE NoTraceFresh DEF TypeOK, TasksTypeOK
<1>1. ASSUME NEW t \in Traces,
             \/ SignalPublished(t) \/ FillPublished(t)
             \/ OnSignal(t) \/ OnFill(t)
             \/ \E k \in Kinds : AckWaitExpires(k, t)
      PROVE  TasksTypeOK'
    BY <1>1, Zenon DEF SignalPublished, FillPublished, OnSignal, OnFill, Handle,
                AckWaitExpires, checkVars
<1>2. ASSUME NEW t \in Traces, Age(t) PROVE TasksTypeOK'
    BY <1>2, Zenon DEF Age, checkVars
<1>3. CASE Persist \/ RestartPersist \/ UNCHANGED vars
    BY <1>3, Zenon DEF Persist, InsertFingerprint, InsertSignal, InsertFill, AckMessage,
                RestartPersist, checkVars, vars
<1>4. CASE FillTimeoutCheck
  <2>1. alerting = NoTrace /\ overdue' \in SUBSET Traces
    BY <1>4, Zenon DEF FillTimeoutCheck
  <2> QED
    BY <1>4, <2>1, Zenon DEF FillTimeoutCheck
<1>5. ASSUME NEW t \in Traces, InsertTimeout(t) PROVE TasksTypeOK'
    BY <1>5, Zenon DEF InsertTimeout
<1>6. CASE InsertAlert
    BY <1>6, Zenon DEF InsertAlert
<1>7. CASE Retention \/ RestartTasks
    BY <1>7, Zenon DEF Retention, DeleteFills, DeleteFingerprints, DropSignals, Continue,
                RestartTasks, checkVars
<1> HIDE DEF TypeOK, TasksTypeOK
<1> QED
    BY <1>1, <1>2, <1>3, <1>4, <1>5, <1>6, <1>7, Zenon DEF Next, Check

\* A step counts at most one fault of each kind.
LEMMA FaultsCounted ==
    [Next]_vars => /\ errors' \in {errors, errors + 1}
                   /\ restarts' \in {restarts, restarts + 1}
                   /\ slow' \in {slow, slow + 1}
<1>1. [Next]_vars => errors' \in {errors, errors + 1}
    BY Zenon
    DEF Next, Persist, Check, Retention, SignalPublished, FillPublished, Age,
        OnSignal, OnFill, Handle, AckWaitExpires, InsertFingerprint, InsertSignal,
        InsertFill, Commit, AckMessage, FillTimeoutCheck, InsertTimeout,
        InsertAlert, DeleteFills, DeleteFingerprints, Continue, DropSignals,
        RestartPersist, RestartTasks, ConnectPool, Succeeds, Fails, budget, vars
<1>2. [Next]_vars => /\ restarts' \in {restarts, restarts + 1}
                     /\ slow' \in {slow, slow + 1}
    BY Zenon
    DEF Next, Persist, Check, Retention, SignalPublished, FillPublished, Age,
        OnSignal, OnFill, Handle, AckWaitExpires, InsertFingerprint, InsertSignal,
        InsertFill, AckMessage, FillTimeoutCheck, InsertTimeout, InsertAlert,
        DeleteFills, DeleteFingerprints, DropSignals, RestartPersist,
        RestartTasks, budget, vars
<1> QED
    BY <1>1, <1>2, Zenon

\* The pools and the fault counters are well typed after every step.
LEMMA FaultsTyped ==
    TypeOK /\ [Next]_vars =>
        /\ pools' \in SUBSET Services
        /\ errors' \in Nat /\ restarts' \in Nat /\ slow' \in Nat
<1> SUFFICES ASSUME TypeOK, [Next]_vars
             PROVE  /\ pools' \in SUBSET Services
                    /\ errors' \in Nat /\ restarts' \in Nat /\ slow' \in Nat
    BY Zenon
<1>1. pools' \in {pools} \cup {pools \cup {s} : s \in Services}
                 \cup {pools \ {s} : s \in Services}
    BY Zenon
    DEF Next, Persist, Check, Retention, SignalPublished, FillPublished, Age,
        OnSignal, OnFill, Handle, AckWaitExpires, InsertFingerprint, InsertSignal,
        InsertFill, AckMessage, FillTimeoutCheck, InsertTimeout, InsertAlert,
        DeleteFills, DeleteFingerprints, DropSignals, RestartPersist,
        RestartTasks, ConnectPool, Services, vars
<1>2. pools' \in SUBSET Services
    BY <1>1, Zenon DEF TypeOK
<1> QED
    BY <1>2, FaultsCounted DEF TypeOK

\* The initial state is well typed.
LEMMA InitTyped == Init => TypeOK
    BY NoTraceFresh
    DEF Init, TypeOK, BusTypeOK, TablesTypeOK, TasksTypeOK, Kinds, Services

\* Every step preserves the type invariant.
LEMMA TypeStep == TypeOK /\ [Next]_vars => TypeOK'
    BY BusTyped, TablesTyped, TasksTyped, FaultsTyped, Zenon DEF TypeOK

\* The state of persist, tasks and the database is well typed (TypeOK).
THEOREM StoreTypeCorrect == Spec => []TypeOK
    BY InitTyped, TypeStep, PTL DEF Spec

-----------------------------------------------------------------------------
(* Retention.                                                              *)

\* The messages of a signal past its retention are settled: its signal was
\* acked, its fill was acked or never sent, and no handler holds either.
OldIsSettled ==
    \A t \in Traces : age[t] = "old" =>
        /\ js["signal"][t] = "acked"
        /\ js["fill"][t] \in {"acked", "unsent"}
        /\ \A k \in Kinds : msg[k] # t

\* Nothing revives the messages of an old signal.
LEMMA OldStep == TypeOK /\ OldIsSettled /\ [Next]_vars => OldIsSettled'
<1> SUFFICES ASSUME TypeOK, OldIsSettled, [Next]_vars PROVE OldIsSettled'
    BY Zenon
<1> USE NoTraceFresh DEF TypeOK, BusTypeOK, TasksTypeOK, OldIsSettled, Kinds
<1>1. ASSUME NEW t \in Traces, SignalPublished(t) \/ FillPublished(t)
      PROVE  OldIsSettled'
    BY <1>1 DEF SignalPublished, FillPublished
<1>2. ASSUME NEW t \in Traces, NEW k \in Kinds, AckWaitExpires(k, t)
      PROVE  OldIsSettled'
    BY <1>2 DEF AckWaitExpires
<1>3. ASSUME NEW t \in Traces, Age(t) PROVE OldIsSettled'
    BY <1>3, ZenonT(40) DEF Age, Holds, busVars
<1>4. ASSUME NEW t \in Traces, OnSignal(t) \/ OnFill(t) PROVE OldIsSettled'
  <2>1. PICK k \in Kinds :
            /\ js[k][t] = "waiting"
            /\ js' = [js EXCEPT ![k][t] = "inflight"]
            /\ msg' = [msg EXCEPT ![k] = t]
            /\ UNCHANGED age
    BY <1>4, Zenon DEF OnSignal, OnFill, Handle, Taken
  <2> QED
    BY <2>1
<1>5. ASSUME NEW k \in Kinds, AckMessage(k) PROVE OldIsSettled'
  <2>1. /\ msg' = [msg EXCEPT ![k] = NoTrace]
        /\ js' = [js EXCEPT ![k][msg[k]] = "acked"] \/ js' = js
        /\ UNCHANGED age
    BY <1>5, Zenon DEF AckMessage
  <2>2. msg[k] \in Traces
    BY <1>5, Zenon DEF AckMessage
  <2> QED
    BY <2>1, <2>2
<1>6. CASE RestartPersist
    BY <1>6, Zenon DEF RestartPersist
<1>7. CASE \/ InsertFingerprint \/ InsertSignal \/ InsertFill
           \/ \E t \in Traces : InsertTimeout(t)
           \/ FillTimeoutCheck \/ InsertAlert \/ Retention \/ RestartTasks
           \/ UNCHANGED vars
  <2>1. UNCHANGED <<js, msg, age>>
    BY <1>7, Zenon DEF InsertFingerprint, InsertSignal, InsertFill, InsertTimeout,
                FillTimeoutCheck, InsertAlert, Retention, DeleteFills,
                DeleteFingerprints, DropSignals, RestartTasks, busVars, vars
  <2> QED
    BY <2>1, Zenon
<1> HIDE DEF TypeOK, BusTypeOK, TasksTypeOK, OldIsSettled
<1> QED
    BY <1>1, <1>2, <1>3, <1>4, <1>5, <1>6, <1>7, Zenon DEF Next, Persist, Check

-----------------------------------------------------------------------------
(* One row per body.                                                       *)

\* The fingerprint of a body belongs to the signal that has its row, or whose
\* handler is about to insert it.
FingerprintGuardsRow ==
    /\ \A t \in rows : age[t] # "old" => fingerprints[BodyOf[t]] = t
    /\ at["signal"] = "row" => fingerprints[BodyOf[msg["signal"]]] = msg["signal"]

\* A fingerprint in use is neither replaced nor deleted.
LEMMA FingerprintStep ==
    TypeOK /\ OldIsSettled /\ FingerprintGuardsRow /\ [Next]_vars
        => FingerprintGuardsRow'
<1> SUFFICES ASSUME TypeOK, OldIsSettled, FingerprintGuardsRow, [Next]_vars
             PROVE  FingerprintGuardsRow'
    BY Zenon
<1> USE NoTraceFresh, BodyOfType
    DEF TypeOK, BusTypeOK, TablesTypeOK, TasksTypeOK, FingerprintGuardsRow, Kinds
<1>1. ASSUME NEW t \in Traces,
             \/ SignalPublished(t) \/ FillPublished(t)
             \/ (\E k \in Kinds : AckWaitExpires(k, t)) \/ InsertTimeout(t)
      PROVE  FingerprintGuardsRow'
    BY <1>1, Zenon DEF SignalPublished, FillPublished, AckWaitExpires, InsertTimeout,
                busVars, tables
<1>2. ASSUME NEW t \in Traces, Age(t) PROVE FingerprintGuardsRow'
    BY <1>2, ZenonT(40) DEF Age, busVars, tables
<1>3. ASSUME NEW t \in Traces, OnSignal(t) PROVE FingerprintGuardsRow'
  <2>1. at'["signal"] # "row" /\ UNCHANGED <<rows, age, fingerprints>>
    BY <1>3, Zenon DEF OnSignal, Handle, Goto
  <2> QED
    BY <2>1, Zenon
<1>4. ASSUME NEW t \in Traces, OnFill(t) PROVE FingerprintGuardsRow'
  <2>1. /\ at'["signal"] = at["signal"] /\ msg'["signal"] = msg["signal"]
        /\ UNCHANGED <<rows, age, fingerprints>>
    BY <1>4, Zenon DEF OnFill, Handle, Goto
  <2> QED
    BY <2>1, Zenon
<1>5. CASE InsertFingerprint
  <2> DEFINE t == msg["signal"]
  <2>1. t \in Traces /\ UNCHANGED <<rows, age, msg>>
    BY <1>5, Zenon DEF InsertFingerprint
  <2>2. CASE fingerprints' = fingerprints /\ at'["signal"] = "ack"
    BY <2>1, <2>2, Zenon
  <2>3. CASE /\ fingerprints[BodyOf[t]] = NoTrace
             /\ fingerprints' = [fingerprints EXCEPT ![BodyOf[t]] = t]
    BY <2>1, <2>3, ZenonT(40)
  <2> QED
    BY <1>5, <2>2, <2>3, Zenon DEF InsertFingerprint, Commit, Goto
<1>6. CASE InsertSignal
  <2>1. /\ msg["signal"] \in Traces
        /\ rows' \in {rows, rows \cup {msg["signal"]}}
        /\ at'["signal"] = "ack"
        /\ UNCHANGED <<fingerprints, age>>
    BY <1>6, Zenon DEF InsertSignal, Commit, Goto
  <2> QED
    BY <1>6, <2>1, Zenon DEF InsertSignal
<1>7. CASE InsertFill
  <2>1. at'["signal"] = at["signal"]
    BY <1>7, Zenon DEF InsertFill, Commit, Goto
  <2> QED
    BY <1>7, <2>1, Zenon DEF InsertFill
<1>8. ASSUME NEW k \in Kinds, AckMessage(k) PROVE FingerprintGuardsRow'
    BY <1>8, Zenon DEF AckMessage, Goto, tables
<1>9. CASE DeleteFingerprints
  <2>1. PICK D \in SUBSET Old :
            fingerprints' = [b \in Bodies |->
                IF fingerprints[b] \in D THEN NoTrace ELSE fingerprints[b]]
    BY <1>9, Zenon DEF DeleteFingerprints
  <2>2. \A t \in D : age[t] = "old"
    BY <2>1, Zenon DEF Old
  <2>3. UNCHANGED <<rows, age, at, msg>>
    BY <1>9, Zenon DEF DeleteFingerprints, busVars
  <2>4. at["signal"] = "row" =>
            msg["signal"] \in Traces /\ age[msg["signal"]] # "old"
    BY Zenon DEF OldIsSettled
  <2> QED
    BY <2>1, <2>2, <2>3, <2>4, Zenon
<1>10. CASE DropSignals
    BY <1>10, Zenon DEF DropSignals, busVars
<1>11. CASE DeleteFills
    BY <1>11, Zenon DEF DeleteFills, busVars
<1>12. CASE RestartPersist
    BY <1>12, Zenon DEF RestartPersist, tables
<1>13. CASE FillTimeoutCheck \/ InsertAlert \/ RestartTasks \/ UNCHANGED vars
    BY <1>13, Zenon DEF FillTimeoutCheck, InsertAlert, RestartTasks, busVars, tables, vars
<1> HIDE DEF TypeOK, BusTypeOK, TablesTypeOK, TasksTypeOK, FingerprintGuardsRow
<1> QED
    BY <1>1, <1>2, <1>3, <1>4, <1>5, <1>6, <1>7, <1>8, <1>9, <1>10, <1>11, <1>12,
       <1>13, Zenon
    DEF Next, Persist, Check, Retention

\* At most one signal per body has a row within the retention period
\* (OneRowPerBody), however often it is sent, delivered or interrupted.
THEOREM RowsDeduplicated == Spec => []OneRowPerBody
<1> DEFINE I == TypeOK /\ OldIsSettled /\ FingerprintGuardsRow
<1>1. Init => I
  <2>1. Init => OldIsSettled /\ FingerprintGuardsRow
    BY Zenon DEF Init, OldIsSettled, FingerprintGuardsRow, Kinds
  <2> QED
    BY <2>1, InitTyped, Zenon
<1>2. I /\ [Next]_vars => I'
    BY TypeStep, OldStep, FingerprintStep, Zenon
<1>3. I => OneRowPerBody
    BY Zenon DEF FingerprintGuardsRow, OneRowPerBody
<1> QED
    BY <1>1, <1>2, <1>3, PTL DEF Spec

-----------------------------------------------------------------------------
(* Timeouts.                                                               *)

\* What the running check has still to process has no timeout yet.
PendingHasNone ==
    /\ \A t \in overdue : t # alerting => timeouts[t] = 0
    /\ TimeoutOnce

\* Only the check adds timeouts, one per signal it picked.
LEMMA TimeoutStep == TypeOK /\ PendingHasNone /\ [Next]_vars => PendingHasNone'
<1> SUFFICES ASSUME TypeOK, PendingHasNone, [Next]_vars PROVE PendingHasNone'
    BY Zenon
<1> USE NoTraceFresh DEF TypeOK, TablesTypeOK, TasksTypeOK, PendingHasNone,
                         TimeoutOnce
<1>1. CASE FillTimeoutCheck
  <2>1. UNCHANGED <<timeouts, alerting>>
    BY <1>1, Zenon DEF FillTimeoutCheck, tables
  <2>2. \A t \in overdue' : timeouts[t] = 0
    BY <1>1, Zenon DEF FillTimeoutCheck, Picked, Unreported
  <2> QED
    BY <2>1, <2>2, Zenon
<1>2. ASSUME NEW t \in Traces, InsertTimeout(t) PROVE PendingHasNone'
    BY <1>2 DEF InsertTimeout
<1>3. CASE InsertAlert
    BY <1>3, Zenon DEF InsertAlert, tables
<1>4. CASE DeleteFills
    BY <1>4 DEF DeleteFills, checkVars
<1>5. CASE RestartTasks
    BY <1>5, Zenon DEF RestartTasks, tables
<1>6. CASE \/ Persist \/ DeleteFingerprints \/ DropSignals \/ RestartPersist
           \/ (\E t \in Traces :
                \/ SignalPublished(t) \/ FillPublished(t) \/ Age(t)
                \/ OnSignal(t) \/ OnFill(t)
                \/ \E k \in Kinds : AckWaitExpires(k, t))
           \/ UNCHANGED vars
  <2>1. UNCHANGED <<timeouts, overdue, alerting>>
    BY <1>6, Zenon DEF Persist, InsertFingerprint, InsertSignal, InsertFill, AckMessage,
                DeleteFingerprints, DropSignals, RestartPersist, SignalPublished,
                FillPublished, Age, OnSignal, OnFill, Handle, AckWaitExpires,
                tables, checkVars, vars
  <2> QED
    BY <2>1, Zenon
<1> HIDE DEF TypeOK, TablesTypeOK, TasksTypeOK, PendingHasNone, TimeoutOnce
<1> QED
    BY <1>1, <1>2, <1>3, <1>4, <1>5, <1>6, Zenon DEF Next, Check, Retention

\* A signal has at most one synthetic timeout fill (TimeoutOnce), although
\* fill_timeout_check may stop in the middle of its loop and run again.
THEOREM TimedOutOnce == Spec => []TimeoutOnce
<1> DEFINE I == TypeOK /\ PendingHasNone
<1>1. Init => I
  <2>1. Init => PendingHasNone
    BY DEF Init, PendingHasNone, TimeoutOnce
  <2> QED
    BY <2>1, InitTyped, Zenon
<1>2. I /\ [Next]_vars => I'
    BY TypeStep, TimeoutStep, Zenon
<1>3. I => TimeoutOnce
    BY Zenon DEF PendingHasNone
<1> QED
    BY <1>1, <1>2, <1>3, PTL DEF Spec

-----------------------------------------------------------------------------
(* Answered signals.                                                       *)

\* Within the retention period a stored fill stays in the table.
AnsweredHasFill == \A t \in answered : age[t] # "old" => fills[t] > 0

\* Only data_retention removes fills, and only of old signals.
LEMMA AnsweredStep == TypeOK /\ AnsweredHasFill /\ [Next]_vars => AnsweredHasFill'
<1> SUFFICES ASSUME TypeOK, AnsweredHasFill, [Next]_vars PROVE AnsweredHasFill'
    BY Zenon
<1> USE DEF TypeOK, TablesTypeOK, TasksTypeOK, AnsweredHasFill
<1>1. CASE InsertFill
  <2>1. msg["fill"] \in Traces
    BY <1>1, NoTraceFresh, Zenon DEF InsertFill, BusTypeOK, Kinds
  <2> QED
    BY <1>1, <2>1 DEF InsertFill, Commit
<1>2. ASSUME NEW t \in Traces, Age(t) PROVE AnsweredHasFill'
    BY <1>2, Zenon DEF Age, tables
<1>3. CASE DeleteFills
    BY <1>3, Zenon DEF DeleteFills, Old
<1>4. CASE \/ InsertFingerprint \/ InsertSignal \/ (\E k \in Kinds : AckMessage(k))
           \/ Check \/ DeleteFingerprints \/ DropSignals
           \/ RestartPersist \/ RestartTasks
           \/ (\E t \in Traces :
                \/ SignalPublished(t) \/ FillPublished(t) \/ OnSignal(t)
                \/ OnFill(t) \/ \E k \in Kinds : AckWaitExpires(k, t))
           \/ UNCHANGED vars
  <2>1. UNCHANGED <<answered, age, fills>>
    BY <1>4, Zenon DEF InsertFingerprint, InsertSignal, AckMessage, Check,
                FillTimeoutCheck, InsertTimeout, InsertAlert, DeleteFingerprints,
                DropSignals, RestartPersist, RestartTasks, SignalPublished,
                FillPublished, OnSignal, OnFill, Handle, AckWaitExpires, tables,
                vars
  <2> QED
    BY <2>1, Zenon
<1> HIDE DEF TypeOK, TablesTypeOK, TasksTypeOK, AnsweredHasFill
<1> QED
    BY <1>1, <1>2, <1>3, <1>4, Zenon DEF Next, Persist, Retention

\* fill_timeout_check never picks a signal within the retention period that
\* has a fill on record (PicksUnreportedRecent).
THEOREM RecentPicksUnreported == Spec => PicksUnreportedRecent
<1> DEFINE I == TypeOK /\ AnsweredHasFill
<1> DEFINE A == \A t \in overdue' \ overdue : age[t] # "old" => t \notin answered
<1>1. Init => I
  <2>1. Init => AnsweredHasFill
    BY Zenon DEF Init, AnsweredHasFill
  <2> QED
    BY <2>1, InitTyped, Zenon
<1>2. I /\ [Next]_vars => I'
    BY TypeStep, AnsweredStep, Zenon
<1>3. I /\ [Next]_vars => [A]_vars
  <2> SUFFICES ASSUME I, [Next]_vars PROVE A
    BY Zenon
  <2>1. CASE FillTimeoutCheck
    <3>1. \A t \in overdue' : t \in Traces /\ fills[t] = 0
        BY <2>1, Zenon DEF FillTimeoutCheck, Picked, Unreported
    <3> QED
        BY <3>1 DEF AnsweredHasFill
  <2>2. CASE ~FillTimeoutCheck
    <3>1. overdue' \subseteq overdue
        BY <2>2, Zenon DEF Next, Persist, Check, Retention, SignalPublished,
                    FillPublished, Age, OnSignal, OnFill, Handle, AckWaitExpires,
                    InsertFingerprint, InsertSignal, InsertFill, AckMessage,
                    InsertTimeout, InsertAlert, DeleteFills, DeleteFingerprints,
                    DropSignals, RestartPersist, RestartTasks, checkVars, vars
    <3> QED
        BY <3>1, Zenon
  <2> QED
    BY <2>1, <2>2, Zenon
<1> QED
    BY <1>1, <1>2, <1>3, PTL DEF Spec, PicksUnreportedRecent

-----------------------------------------------------------------------------
(* No loss without faults.                                                 *)

NoFaults == errors = 0 /\ restarts = 0

\* The signal holding a fingerprint has its row, had it, or is getting it.
FingerprintLeadsToRow ==
    \A b \in Bodies : fingerprints[b] # NoTrace =>
        /\ BodyOf[fingerprints[b]] = b
        /\ \/ fingerprints[b] \in rows
           \/ age[fingerprints[b]] = "old"
           \/ at["signal"] = "row" /\ msg["signal"] = fingerprints[b]

\* What becomes of the message <<k, t>> once its handler is through with it.
Accounted(k, t) ==
    /\ <<k, t>> \in Garbled => <<k, t>> \in deadLetters
    /\ k = "signal" /\ Storable(t) => OnRecord(t)
    /\ k = "fill" /\ <<k, t>> \in Known \ Garbled => t \in answered

\* Handlers ready to ack, and acked messages, are accounted for.
FaultFree ==
    /\ pools = Services
    /\ FingerprintLeadsToRow
    /\ \A k \in Kinds : at[k] \in {"fingerprint", "row"} => <<k, msg[k]>> \notin Garbled
    /\ \A k \in Kinds : at[k] = "ack" => Accounted(k, msg[k])
    /\ \A k \in Kinds, t \in Traces : js[k][t] = "acked" => Accounted(k, t)

\* Faults are never forgotten, and a step without one neither fails nor
\* restarts anything.
LEMMA FaultsGrow ==
    ASSUME TypeOK, [Next]_vars, NoFaults'
    PROVE  NoFaults /\ ~Fails /\ ~RestartPersist /\ ~RestartTasks
    BY FaultsCounted
    DEF NoFaults, TypeOK, Fails, RestartPersist, RestartTasks

\* What is on record, stored or parked stays so.
LEMMA AccountedStays ==
    ASSUME TypeOK, [Next]_vars, NEW k \in Kinds, NEW t \in Traces, Accounted(k, t)
    PROVE  Accounted(k, t)'
<1> USE DEF TypeOK, TablesTypeOK, TasksTypeOK
<1>1. answered \subseteq answered' /\ deadLetters \subseteq deadLetters'
    BY Zenon
    DEF Next, Persist, Check, Retention, SignalPublished, FillPublished, Age,
           OnSignal, OnFill, Handle, AckWaitExpires, InsertFingerprint,
           InsertSignal, InsertFill, Commit, AckMessage, FillTimeoutCheck,
           InsertTimeout, InsertAlert, DeleteFills, DeleteFingerprints,
           DropSignals, RestartPersist, RestartTasks, tables, vars
<1>2. \A u \in Traces : age[u] = "old" => age'[u] = "old"
  <2>1. ASSUME NEW v \in Traces, Age(v)
        PROVE  \A u \in Traces : age[u] = "old" => age'[u] = "old"
    BY <2>1, Zenon DEF Age
  <2>2. CASE ~(\E v \in Traces : Age(v))
    <3>1. age' = age
        BY <2>2, Zenon DEF Next, Persist, Check, Retention, SignalPublished,
                    FillPublished, OnSignal, OnFill, Handle, AckWaitExpires,
                    InsertFingerprint, InsertSignal, InsertFill, AckMessage,
                    FillTimeoutCheck, InsertTimeout, InsertAlert, DeleteFills,
                    DeleteFingerprints, DropSignals, RestartPersist,
                    RestartTasks, vars
    <3> QED
        BY <3>1, Zenon
  <2> QED
    BY <2>1, <2>2, Zenon
<1>3. \A u \in rows : u \in rows' \/ age[u] = "old"
    BY Zenon
    DEF Next, Persist, Check, Retention, SignalPublished, FillPublished, Age,
           OnSignal, OnFill, Handle, AckWaitExpires, InsertFingerprint,
           InsertSignal, InsertFill, Commit, AckMessage, FillTimeoutCheck,
           InsertTimeout, InsertAlert, DeleteFills, DeleteFingerprints,
           DropSignals, Old, RestartPersist, RestartTasks, tables, vars
<1>4. OnRecord(t) => OnRecord(t)'
    BY <1>2, <1>3, Zenon DEF OnRecord
<1> HIDE DEF TypeOK, TablesTypeOK, TasksTypeOK
<1> QED
    BY <1>1, <1>4, Zenon DEF Accounted, Storable

\* Without a fault a fingerprint is followed by its row before the handler
\* turns to another message.
LEMMA FingerprintLeads ==
    ASSUME TypeOK, FingerprintLeadsToRow, [Next]_vars, ~Fails, ~RestartPersist
    PROVE  FingerprintLeadsToRow'
<1>1. /\ fingerprints \in [Bodies -> Traces \cup {NoTrace}]
      /\ at \in [Kinds -> {"idle", "fingerprint", "row", "ack"}]
      /\ msg \in [Kinds -> Traces \cup {NoTrace}]
      /\ {"signal", "fill"} = Kinds
    BY Zenon DEF TypeOK, BusTypeOK, TablesTypeOK, Kinds
\* All that a step has to respect for the fingerprints it leaves alone.
<1>2. ASSUME /\ rows \ rows' \subseteq {u \in Traces : age[u] = "old"}
             /\ \A u \in Traces : age[u] = "old" => age'[u] = "old"
             /\ at["signal"] = "row" =>
                    \/ at'["signal"] = "row" /\ msg'["signal"] = msg["signal"]
                    \/ msg["signal"] \in rows',
             NEW b \in Bodies,
             fingerprints'[b] = fingerprints[b], fingerprints'[b] # NoTrace
      PROVE  /\ BodyOf[fingerprints'[b]] = b
             /\ \/ fingerprints'[b] \in rows'
                \/ age'[fingerprints'[b]] = "old"
                \/ at'["signal"] = "row" /\ msg'["signal"] = fingerprints'[b]
  <2>1. PICK u \in Traces : u = fingerprints[b]
    BY <1>1, <1>2, ZenonT(40)
  <2>2. BodyOf[u] = b /\ (\/ u \in rows \/ age[u] = "old"
                          \/ at["signal"] = "row" /\ msg["signal"] = u)
    BY <1>2, <2>1, Zenon DEF FingerprintLeadsToRow
  <2> QED
    BY <1>2, <2>1, <2>2, Zenon
<1>3. ASSUME /\ rows \ rows' \subseteq {u \in Traces : age[u] = "old"}
             /\ \A u \in Traces : age[u] = "old" => age'[u] = "old"
             /\ at["signal"] = "row" =>
                    \/ at'["signal"] = "row" /\ msg'["signal"] = msg["signal"]
                    \/ msg["signal"] \in rows',
             \A b \in Bodies : fingerprints'[b] \in {NoTrace, fingerprints[b]}
      PROVE  FingerprintLeadsToRow'
    BY <1>2, <1>3, Zenon DEF FingerprintLeadsToRow
<1>4. ASSUME NEW t \in Traces, Age(t) PROVE FingerprintLeadsToRow'
  <2>1. UNCHANGED <<fingerprints, rows, at, msg>>
    BY <1>4, Zenon DEF Age, busVars, tables
  <2>2. \A u \in Traces : age[u] = "old" => age'[u] = "old"
    BY <1>4, Zenon DEF Age, TypeOK, TasksTypeOK
  <2> QED
    BY <1>3, <2>1, <2>2, Zenon
<1>5. ASSUME NEW t \in Traces, OnSignal(t) PROVE FingerprintLeadsToRow'
  <2>1. at["signal"] = "idle" /\ UNCHANGED <<fingerprints, rows, age>>
    BY <1>5, Zenon DEF OnSignal, Handle
  <2> QED
    BY <1>3, <2>1, Zenon
<1>6. ASSUME NEW t \in Traces, OnFill(t) PROVE FingerprintLeadsToRow'
  <2>1. at'["signal"] = at["signal"] /\ msg'["signal"] = msg["signal"]
    BY <1>1, <1>6, Zenon DEF OnFill, Handle, Goto
  <2>2. UNCHANGED <<fingerprints, rows, age>>
    BY <1>6, Zenon DEF OnFill, Handle
  <2> QED
    BY <1>3, <2>1, <2>2, Zenon
<1>7. CASE InsertFingerprint
  <2>1. at["signal"] = "fingerprint" /\ UNCHANGED <<rows, age, msg>>
    BY <1>7, Zenon DEF InsertFingerprint
  <2>2. PICK t \in Traces : t = msg["signal"]
    BY <1>1, <2>1, NoTraceFresh, Zenon DEF TypeOK, BusTypeOK
  <2>3. CASE fingerprints' = fingerprints
    BY <1>3, <2>1, <2>3, Zenon
  <2>4. CASE /\ fingerprints' = [fingerprints EXCEPT ![BodyOf[t]] = t]
             /\ at'["signal"] = "row"
    <3>1. ASSUME NEW b \in Bodies, b # BodyOf[t]
          PROVE  fingerprints'[b] = fingerprints[b]
        BY <1>1, <2>4, <3>1, Zenon
    <3>2. BodyOf[t] \in Bodies /\ fingerprints'[BodyOf[t]] = t
        BY <1>1, <2>4, BodyOfType, Zenon
    <3> QED
        BY <1>2, <2>1, <2>2, <2>4, <3>1, <3>2, ZenonT(40) DEF FingerprintLeadsToRow
  <2>5. at' = [at EXCEPT !["signal"] = "row"] => at'["signal"] = "row"
    BY <1>1, Zenon
  <2> QED
    BY <1>7, <2>2, <2>3, <2>4, <2>5, Zenon DEF InsertFingerprint, Commit, Goto
<1>8. CASE InsertSignal
  <2>1. /\ rows' = rows \cup {msg["signal"]}
        /\ UNCHANGED <<fingerprints, age>>
    BY <1>8, Zenon DEF InsertSignal, Commit
  <2> QED
    BY <1>3, <2>1, Zenon
<1>9. CASE InsertFill
  <2>1. at'["signal"] = at["signal"]
    BY <1>1, <1>9, Zenon DEF InsertFill, Commit, Goto
  <2>2. UNCHANGED <<fingerprints, rows, age, msg>>
    BY <1>9, Zenon DEF InsertFill
  <2> QED
    BY <1>3, <2>1, <2>2, Zenon
<1>10. ASSUME NEW k \in Kinds, AckMessage(k) PROVE FingerprintLeadsToRow'
  <2>1. at[k] = "ack" /\ UNCHANGED <<fingerprints, rows, age>>
    BY <1>10, Zenon DEF AckMessage, tables
  <2>2. at["signal"] = "row" =>
            at'["signal"] = "row" /\ msg'["signal"] = msg["signal"]
    BY <1>1, <1>10, <2>1, Zenon DEF AckMessage, Goto
  <2> QED
    BY <1>3, <2>1, <2>2, Zenon
<1>11. CASE DeleteFingerprints
  <2>1. \A b \in Bodies : fingerprints'[b] \in {NoTrace, fingerprints[b]}
    BY <1>11, Zenon DEF DeleteFingerprints
  <2>2. UNCHANGED <<rows, age, at, msg>>
    BY <1>11, Zenon DEF DeleteFingerprints, busVars
  <2> QED
    BY <1>3, <2>1, <2>2, Zenon
<1>12. CASE DropSignals
  <2>1. rows \ rows' \subseteq {u \in Traces : age[u] = "old"}
    BY <1>12, Zenon DEF DropSignals, Old
  <2>2. UNCHANGED <<fingerprints, age, at, msg>>
    BY <1>12, Zenon DEF DropSignals, busVars
  <2> QED
    BY <1>3, <2>1, <2>2, Zenon
<1>13. CASE \/ Check \/ DeleteFills \/ RestartTasks
            \/ (\E t \in Traces :
                 \/ SignalPublished(t) \/ FillPublished(t)
                 \/ \E k \in Kinds : AckWaitExpires(k, t))
            \/ UNCHANGED vars
  <2>1. UNCHANGED <<fingerprints, rows, age, at, msg>>
    BY <1>13, Zenon
    DEF Check, FillTimeoutCheck, InsertTimeout, InsertAlert, DeleteFills,
        RestartTasks, SignalPublished, FillPublished, AckWaitExpires,
                 busVars, tables, vars
  <2> QED
    BY <1>3, <2>1, Zenon
<1> QED
    BY <1>4, <1>5, <1>6, <1>7, <1>8, <1>9, <1>10, <1>11, <1>12, <1>13, Zenon
    DEF Next, Persist, Retention

\* What FaultFree says of one handler.
HandlerOK(k) ==
    /\ at[k] \in {"fingerprint", "row"} => <<k, msg[k]>> \notin Garbled
    /\ at[k] = "ack" => Accounted(k, msg[k])

\* Without a fault a handler reaches its ack only with its message accounted
\* for.
LEMMA HandlerStep ==
    ASSUME TypeOK, FaultFree, [Next]_vars, ~Fails, ~RestartPersist,
           NEW k \in Kinds
    PROVE  HandlerOK(k)'
<1> USE NoTraceFresh DEF TypeOK, BusTypeOK
<1>1. CASE at'[k] = at[k] /\ msg'[k] = msg[k]
  <2>1. CASE at[k] = "idle"
    BY <1>1, <2>1, Zenon DEF HandlerOK
  <2>2. CASE at[k] # "idle"
    <3>1. PICK t \in Traces : t = msg[k]
        BY <2>2, Zenon
    <3>2. Accounted(k, t) => Accounted(k, t)'
        BY AccountedStays, Zenon
    <3>3. at[k] = "ack" => Accounted(k, t)
        BY <3>1, Zenon DEF FaultFree
    <3>4. at'[k] = "ack" => Accounted(k, msg[k])'
        BY <1>1, <3>1, <3>2, <3>3, Zenon DEF Accounted, Storable, OnRecord
    <3> QED
        BY <1>1, <3>4, Zenon DEF HandlerOK, FaultFree
  <2> QED
    BY <2>1, <2>2, Zenon
<1>2. ASSUME NEW t \in Traces, NEW first \in {"fingerprint", "row"},
             Handle(k, t, first)
      PROVE  HandlerOK(k)'
  <2>1. msg'[k] = t /\ Connected
    BY <1>2, Zenon DEF Handle, FaultFree, Connected, Services
  <2>2. CASE <<k, t>> \in Garbled
    <3>1. at'[k] = "ack" /\ <<k, t>> \in deadLetters'
        BY <1>2, <2>1, <2>2, Zenon DEF Handle, Goto
    <3> QED
        BY <2>1, <2>2, <3>1, Zenon DEF HandlerOK, Accounted, Storable
  <2>3. CASE <<k, t>> \notin Garbled
    <3>1. at'[k] = "ack" => <<k, t>> \notin Known
        BY <1>2, <2>1, <2>3, Zenon DEF Handle, Goto
    <3> QED
        BY <2>1, <2>3, <3>1, Zenon DEF HandlerOK, Accounted, Storable
  <2> QED
    BY <2>2, <2>3, Zenon
<1>3. ASSUME k = "signal", InsertFingerprint PROVE HandlerOK(k)'
  <2>1. /\ msg[k] \in Traces /\ <<k, msg[k]>> \notin Garbled
        /\ at[k] = "fingerprint" /\ msg' = msg
    BY <1>3, Zenon DEF InsertFingerprint, FaultFree
  <2>2. CASE fingerprints[BodyOf[msg[k]]] # NoTrace
    <3> DEFINE u == fingerprints[BodyOf[msg[k]]]
    <3>1. u \in Traces /\ BodyOf[u] = BodyOf[msg[k]] /\ (u \in rows \/ age[u] = "old")
        BY <1>3, <2>1, <2>2, BodyOfType, SMTT(30)
        DEF FaultFree, FingerprintLeadsToRow, TablesTypeOK
    <3>2. UNCHANGED <<rows, age>>
        BY <1>3, Zenon DEF InsertFingerprint
    <3>3. OnRecord(msg[k])'
        BY <2>1, <3>1, <3>2, Zenon DEF OnRecord
    <3> QED
        BY <1>3, <2>1, <3>3, Zenon DEF HandlerOK, Accounted
  <2>3. CASE fingerprints[BodyOf[msg[k]]] = NoTrace
    <3>1. at'[k] = "row"
        BY <1>3, <2>3, Zenon DEF InsertFingerprint, Commit, Goto
    <3> QED
        BY <2>1, <3>1, Zenon DEF HandlerOK
  <2> QED
    BY <2>2, <2>3, Zenon
<1>4. ASSUME k = "signal", InsertSignal PROVE HandlerOK(k)'
  <2>1. /\ msg[k] \in Traces /\ <<k, msg[k]>> \notin Garbled /\ msg' = msg
        /\ at'[k] = "ack" /\ msg[k] \in rows'
    BY <1>4, Zenon DEF InsertSignal, FaultFree, Commit, Goto
  <2>2. OnRecord(msg[k])'
    BY <2>1, Zenon DEF OnRecord
  <2> QED
    BY <1>4, <2>1, <2>2, Zenon DEF HandlerOK, Accounted
<1>5. ASSUME k = "fill", InsertFill PROVE HandlerOK(k)'
  <2>1. /\ msg[k] \in Traces /\ <<k, msg[k]>> \notin Garbled /\ msg' = msg
        /\ at'[k] = "ack" /\ msg[k] \in answered'
    BY <1>5, Zenon DEF InsertFill, FaultFree, Commit, Goto
  <2> QED
    BY <1>5, <2>1, Zenon DEF HandlerOK, Accounted
<1>6. CASE AckMessage(k)
    BY <1>6, Zenon DEF AckMessage, Goto, HandlerOK
<1>7. ASSUME ~(at'[k] = at[k] /\ msg'[k] = msg[k])
      PROVE  \/ \E t \in Traces, first \in {"fingerprint", "row"} : Handle(k, t, first)
             \/ k = "signal" /\ (InsertFingerprint \/ InsertSignal)
             \/ k = "fill" /\ InsertFill
             \/ AckMessage(k)
  <2>1. ASSUME NEW t \in Traces,
               \/ SignalPublished(t) \/ FillPublished(t) \/ Age(t)
               \/ \E j \in Kinds : AckWaitExpires(j, t)
        PROVE  UNCHANGED <<at, msg>>
    BY <2>1, Zenon DEF SignalPublished, FillPublished, Age, AckWaitExpires, busVars
  <2>2. ASSUME NEW t \in Traces, OnSignal(t), k = "fill"
        PROVE  at'[k] = at[k] /\ msg'[k] = msg[k]
    BY <2>2, Zenon DEF OnSignal, Handle, Goto
  <2>3. ASSUME NEW t \in Traces, OnFill(t), k = "signal"
        PROVE  at'[k] = at[k] /\ msg'[k] = msg[k]
    BY <2>3, Zenon DEF OnFill, Handle, Goto
  <2>4. ASSUME InsertFingerprint \/ InsertSignal, k = "fill"
        PROVE  at'[k] = at[k] /\ msg'[k] = msg[k]
    BY <2>4, Zenon DEF InsertFingerprint, InsertSignal, Commit, Goto
  <2>5. ASSUME InsertFill, k = "signal"
        PROVE  at'[k] = at[k] /\ msg'[k] = msg[k]
    BY <2>5, Zenon DEF InsertFill, Commit, Goto
  <2>6. ASSUME NEW j \in Kinds, j # k, AckMessage(j)
        PROVE  at'[k] = at[k] /\ msg'[k] = msg[k]
    BY <2>6, Zenon DEF AckMessage, Goto
  <2>7. ASSUME Check \/ Retention \/ RestartTasks \/ UNCHANGED vars
        PROVE  UNCHANGED <<at, msg>>
    BY <2>7, Zenon
    DEF Check, FillTimeoutCheck, InsertTimeout, InsertAlert, Retention,
                DeleteFills, DeleteFingerprints, DropSignals, RestartTasks,
                busVars, vars
  <2> QED
    BY <1>7, <2>1, <2>2, <2>3, <2>4, <2>5, <2>6, <2>7, Zenon
    DEF Next, Persist, OnSignal, OnFill, Kinds
<1> HIDE DEF TypeOK, BusTypeOK
<1> QED
    BY <1>1, <1>2, <1>3, <1>4, <1>5, <1>6, <1>7, Zenon

\* FaultFree holds as long as there is no fault.
LEMMA FaultFreeStep ==
    ASSUME TypeOK, FaultFree, [Next]_vars, ~Fails, ~RestartPersist, ~RestartTasks
    PROVE  FaultFree'
<1>1. pools' = Services
    BY Zenon DEF FaultFree, Next, Persist, Check, Retention, SignalPublished,
           FillPublished, Age, OnSignal, OnFill, Handle, AckWaitExpires,
           InsertFingerprint, InsertSignal, InsertFill, AckMessage,
           FillTimeoutCheck, InsertTimeout, InsertAlert, DeleteFills,
           DeleteFingerprints, DropSignals, vars
<1>2. FingerprintLeadsToRow'
    BY FingerprintLeads, Zenon DEF FaultFree
<1>3. \A k \in Kinds : HandlerOK(k)'
    BY HandlerStep, Zenon
<1>4. ASSUME NEW k \in Kinds, NEW t \in Traces, js'[k][t] = "acked"
      PROVE  Accounted(k, t)'
  <2>1. js[k][t] = "acked" \/ (at[k] = "ack" /\ msg[k] = t)
    <3> USE DEF TypeOK, BusTypeOK
    <3>1. ASSUME NEW j \in Kinds, AckMessage(j)
          PROVE  js[k][t] = "acked" \/ (at[k] = "ack" /\ msg[k] = t)
        BY <1>4, <3>1, SMTT(30) DEF AckMessage
    <3>2. ASSUME NEW u \in Traces,
                 \/ SignalPublished(u) \/ FillPublished(u)
                 \/ \E j \in Kinds : AckWaitExpires(j, u)
          PROVE  js[k][t] = "acked"
        BY <1>4, <3>2, SMTT(30) DEF SignalPublished, FillPublished, AckWaitExpires, Kinds
    <3>3. ASSUME NEW u \in Traces, OnSignal(u) \/ OnFill(u)
          PROVE  js[k][t] = "acked"
        BY <1>4, <3>3 DEF OnSignal, OnFill, Handle, Taken, Kinds
    <3>4. CASE \/ InsertFingerprint \/ InsertSignal \/ InsertFill \/ Check
               \/ Retention \/ (\E u \in Traces : Age(u)) \/ UNCHANGED vars
      <4>1. js' = js
        BY <3>4, Zenon DEF InsertFingerprint, InsertSignal, InsertFill, Check,
                    FillTimeoutCheck, InsertTimeout, InsertAlert, Retention,
                    DeleteFills, DeleteFingerprints, DropSignals, Age, busVars,
                    vars
      <4> QED
        BY <1>4, <4>1, Zenon
    <3> QED
        BY <3>1, <3>2, <3>3, <3>4, Zenon DEF Next, Persist
  <2>2. Accounted(k, t)
    BY <2>1, Zenon DEF FaultFree
  <2> QED
    BY <2>2, AccountedStays, Zenon
<1> QED
    BY <1>1, <1>2, <1>3, <1>4, Zenon DEF FaultFree, HandlerOK

\* Without database errors and restarts every acked message is accounted for
\* (StoredWithoutFaults), whatever is delivered again.
THEOREM NothingLostWithoutFaults == Spec => []StoredWithoutFaults
<1> DEFINE I == TypeOK /\ (NoFaults => FaultFree)
<1>1. Init => I
  <2>1. Init => FaultFree
    BY DEF Init, FaultFree, FingerprintLeadsToRow, Kinds
  <2> QED
    BY <2>1, InitTyped, Zenon
<1>2. I /\ [Next]_vars => I'
  <2> SUFFICES ASSUME I, [Next]_vars, NoFaults' PROVE FaultFree'
    BY TypeStep, Zenon
  <2>1. NoFaults /\ ~Fails /\ ~RestartPersist /\ ~RestartTasks
    BY FaultsGrow, Zenon
  <2> QED
    BY <2>1, FaultFreeStep, Zenon
<1>3. I => StoredWithoutFaults
    BY Zenon DEF NoFaults, FaultFree, Accounted, StoredWithoutFaults, Kinds
<1> QED
    BY <1>1, <1>2, <1>3, PTL DEF Spec

=============================================================================
