--------------------------- MODULE ServicesProofs ---------------------------
(***************************************************************************)
(* The gates of ingress and the DXTrade connector, which share no state.   *)
(*                                                                         *)
(* The gates: the rate limit, the quota and the kill switch hold for every *)
(* number of requests, every burst and expiry the configuration gives, and *)
(* every quota.                                                            *)
(*                                                                         *)
(* The connector: OrdersAreAccountedFor and OutageIsShed for any signals,  *)
(* positions, numbers of retries and of deliveries, failures to trip and   *)
(* faults. Orders: what may still be carried out is counted with what was. *)
(* A signal waiting at the stream, every delivery in the inbox and the     *)
(* delivery in dispatch until it succeeds are one chance each, and orders  *)
(* and chances together never exceed one and the reasons for more. Outage: *)
(* the breaker counts one failure where there may be two, for the          *)
(* repetition after a login is not counted. Pending is how many failures   *)
(* the execution under way can add that the breaker will not count.        *)
(***************************************************************************)
EXTENDS IngressGates, DXTrade, FiniteSetTheorems, TLAPS

-----------------------------------------------------------------------------
(* The gates of ingress. *)

\* What the handlers, counters and histories can hold.
GatesType ==
    /\ switch \in {"halted", "trading"}
    /\ request \in [Requests -> [pc : Places, day : Days]]
    /\ bucket \in [tokens : Int, last : Int]
    /\ bucket = NoBucket \/ bucket.tokens >= 0
    /\ clock \in Nat /\ bucket.last <= clock
    /\ hits \in [Days -> Nat] /\ day \in Days
    /\ allowed \in Nat
    /\ granted \in [Days -> Nat] /\ late \in [Days -> Nat]
    /\ cleaned \in SUBSET Days

\* A token that was spent was in the first bucket or has been earned since; what the
\* bucket still holds was not spent. Without a bucket the next one starts full, which is
\* why the whole burst must have been earned again by then.
TokensEarned ==
    IF bucket = NoBucket THEN allowed <= clock
    ELSE allowed + bucket.tokens <= Burst + bucket.last

\* Until a day's counter is deleted it counts every request that was granted.
CountsGranted ==
    \A d \in Days :
        \/ d \in cleaned /\ granted[d] <= MaxPerDay + late[d]
        \/ d \notin cleaned /\ granted[d] <= hits[d] /\ granted[d] <= MaxPerDay

\* Days are only deleted once they are over, and nothing is counted for a day to come.
DaysInOrder ==
    /\ \A d \in cleaned : d < day
    /\ \A r \in Requests : request[r].day <= day
    /\ \A d \in Days : d > day => granted[d] = 0

\* A request past the switch of a halted ingress was there when it was halted.
PastWhenHalted ==
    switch = "halted" =>
        /\ \A r \in Requests : request[r].pc \in PastSwitch => r \in past
        /\ sent \subseteq past

GatesInv == GatesType /\ TokensEarned /\ CountsGranted /\ DaysInOrder /\ PastWhenHalted

-----------------------------------------------------------------------------
\* The process starts without buckets, counts or requests.
LEMMA GatesStart == GatesInit => GatesInv
<1> SUFFICES ASSUME GatesInit PROVE GatesInv
    BY Zenon
<1>1. GatesType
    BY GatesAssumption DEF GatesInit, GatesType, Idle, Places, Days, NoBucket, NoCounts
<1>2. TokensEarned
    BY DEF GatesInit, TokensEarned
<1>3. CountsGranted
    BY GatesAssumption DEF GatesInit, CountsGranted, NoCounts
<1>4. DaysInOrder
    BY DEF GatesInit, DaysInOrder, Idle, NoCounts
<1>5. PastWhenHalted
    BY Zenon DEF GatesInit, PastWhenHalted, Idle, PastSwitch
<1> QED
    BY <1>1, <1>2, <1>3, <1>4, <1>5, Zenon DEF GatesInv

\* A handler that moves on stays a handler.
LEMMA GotoTyped ==
    ASSUME NEW r \in Requests, NEW pc \in Places, Goto(r, pc),
           request \in [Requests -> [pc : Places, day : Days]]
    PROVE  request' \in [Requests -> [pc : Places, day : Days]]
BY DEF Goto

\* Every step of a handler or of a background loop keeps the types.
LEMMA GatesTyped == GatesType /\ [GatesNext]_gatevars => GatesType'
<1> SUFFICES ASSUME GatesType, [GatesNext]_gatevars PROVE GatesType'
    BY Zenon
<1> USE DEF GatesType, gatehistory
<1> /\ "limiter" \in Places /\ "checks" \in Places /\ "quota" \in Places
    /\ "exposure" \in Places /\ "publish" \in Places /\ "answered" \in Places
    BY Zenon DEF Places
<1>1. ASSUME NEW r \in Requests, gatingPreamble(r) PROVE GatesType'
    <2>1. request' \in [Requests -> [pc : Places, day : Days]]
        BY <1>1, GotoTyped, Zenon DEF gatingPreamble
    <2> QED
        BY <1>1, <2>1, Zenon DEF gatingPreamble
<1>2. ASSUME NEW r \in Requests, allow(r) PROVE GatesType'
    <2>1. Refilled \in Nat
        BY GatesAssumption DEF Refilled
    <2>2. /\ bucket' \in [tokens : Int, last : Int] /\ bucket'.tokens >= 0
          /\ bucket'.last <= clock'
          /\ allowed' \in Nat
        BY <1>2, <2>1 DEF allow
    <2>3. request' \in [Requests -> [pc : Places, day : Days]]
        BY <1>2, GotoTyped, Zenon DEF allow
    <2> QED
        BY <1>2, <2>2, <2>3, Zenon DEF allow
<1>3. ASSUME NEW r \in Requests, authenticate(r) PROVE GatesType'
    <2>1. request' \in [Requests -> [pc : Places, day : Days]]
        BY <1>3, GotoTyped DEF authenticate
    <2> QED
        BY <1>3, <2>1, Zenon DEF authenticate
<1>4. ASSUME NEW r \in Requests, Increment(r) PROVE GatesType'
    <2>1. request[r].day \in Days
        BY Zenon
    <2>2. hits' \in [Days -> Nat] /\ late' \in [Days -> Nat] /\ granted' \in [Days -> Nat]
        BY <1>4, <2>1 DEF Increment
    <2>3. request' \in [Requests -> [pc : Places, day : Days]]
        BY <1>4, GotoTyped, Zenon DEF Increment
    <2> QED
        BY <1>4, <2>2, <2>3, Zenon DEF Increment
<1>5. ASSUME NEW r \in Requests, checkExposureLimits(r) PROVE GatesType'
    BY <1>5, GotoTyped, Zenon DEF checkExposureLimits
<1>6. ASSUME NEW r \in Requests, webhook(r) PROVE GatesType'
    BY <1>6, GotoTyped, Zenon DEF webhook
<1>7. CASE killSwitch
    BY <1>7, Zenon DEF killSwitch
<1>8. CASE BucketCleanup
    BY <1>8 DEF BucketCleanup, NoBucket
<1>9. CASE CounterCleanup
    BY <1>9, Zenon DEF CounterCleanup
<1>10. CASE Tick
    BY <1>10 DEF Tick
<1>11. CASE Midnight
    BY <1>11, GatesAssumption, SMTT(30) DEF Midnight, Days
<1>12. CASE UNCHANGED gatevars
    BY <1>12, Zenon DEF gatevars
<1> QED
    BY <1>1, <1>2, <1>3, <1>4, <1>5, <1>6, <1>7, <1>8, <1>9, <1>10, <1>11, <1>12, Zenon DEF GatesNext

\* A token is spent only from what the bucket holds, and a bucket is forgotten only after
\* it would have been full again.
LEMMA TokensStayEarned ==
    GatesType /\ TokensEarned /\ [GatesNext]_gatevars => TokensEarned'
<1> SUFFICES ASSUME GatesType, TokensEarned, [GatesNext]_gatevars PROVE TokensEarned'
    BY Zenon
<1> USE GatesAssumption DEF GatesType, TokensEarned
<1>1. ASSUME NEW r \in Requests, allow(r) PROVE TokensEarned'
    <2>1. Refilled \in Nat /\ allowed + Refilled <= Burst + clock
        BY DEF Refilled
    <2>2. bucket' # NoBucket
        BY <1>1, <2>1 DEF allow, NoBucket
    <2>3. bucket'.last = clock /\ allowed' + bucket'.tokens = allowed + Refilled
        BY <1>1, <2>1 DEF allow
    <2> QED
        BY <1>1, <2>1, <2>2, <2>3, Zenon DEF allow
<1>2. CASE BucketCleanup
    BY <1>2 DEF BucketCleanup, gatehistory
<1>3. CASE Tick
    BY <1>3 DEF Tick, gatehistory
<1>4. CASE UNCHANGED <<bucket, clock, allowed>>
    BY <1>4, Zenon
<1> QED
    BY <1>1, <1>2, <1>3, <1>4, Zenon
    DEF GatesNext, gatingPreamble, authenticate, Increment, checkExposureLimits, webhook,
        killSwitch, CounterCleanup, Midnight, gatevars, gatehistory

\* Time is read before it is used, and only days that are over are deleted.
LEMMA DaysStayInOrder ==
    GatesType /\ DaysInOrder /\ [GatesNext]_gatevars => DaysInOrder'
<1> SUFFICES ASSUME GatesType, DaysInOrder, [GatesNext]_gatevars PROVE DaysInOrder'
    BY Zenon
<1> USE DEF GatesType, DaysInOrder
<1>1. ASSUME NEW r \in Requests, gatingPreamble(r) \/ allow(r) \/ checkExposureLimits(r) \/ webhook(r)
      PROVE DaysInOrder'
    <2>1. \E pc \in Places : request' = [request EXCEPT ![r].pc = pc]
        BY <1>1, Zenon DEF gatingPreamble, allow, checkExposureLimits, webhook, Goto, Places
    <2>2. \A q \in Requests : request'[q].day = request[q].day
        BY <2>1
    <2>3. UNCHANGED <<granted, day, cleaned>>
        BY <1>1, Zenon DEF gatingPreamble, allow, checkExposureLimits, webhook, gatehistory
    <2> QED
        BY <2>2, <2>3, Zenon
<1>2. ASSUME NEW r \in Requests, authenticate(r) PROVE DaysInOrder'
    <2>1. \A q \in Requests : request'[q].day \in {request[q].day, day}
        BY <1>2 DEF authenticate, Goto
    <2>2. UNCHANGED <<granted, day, cleaned>>
        BY <1>2, Zenon DEF authenticate, gatehistory
    <2>3. day <= day
        BY DEF Days
    <2> QED
        BY <2>1, <2>2, <2>3, Zenon
<1>3. ASSUME NEW r \in Requests, Increment(r) PROVE DaysInOrder'
    <2>1. request[r].day \in Days /\ request[r].day <= day
        BY Zenon
    <2>2. \A q \in Requests : request'[q].day = request[q].day
        BY <1>3 DEF Increment, Goto
    <2>3. granted' \in {granted, [granted EXCEPT ![request[r].day] = @ + 1]}
        BY <1>3, Zenon DEF Increment
    <2>4. ASSUME NEW d \in Days, d > day PROVE granted'[d] = 0
        <3>1. d # request[r].day
            BY <2>1, <2>4 DEF Days
        <3>2. granted'[d] = granted[d]
            BY <2>1, <2>3, <3>1, Zenon
        <3> QED
            BY <2>4, <3>2, Zenon
    <2>5. UNCHANGED <<day, cleaned>>
        BY <1>3, Zenon DEF Increment
    <2> QED
        BY <2>2, <2>4, <2>5, Zenon
<1>4. CASE CounterCleanup
    BY <1>4, Zenon DEF CounterCleanup
<1>5. CASE Midnight
    BY <1>5 DEF Midnight, gatehistory, Days
<1>6. CASE UNCHANGED <<request, granted, day, cleaned>>
    BY <1>6, Zenon
<1> QED
    BY <1>1, <1>2, <1>3, <1>4, <1>5, <1>6, Zenon
    DEF GatesNext, killSwitch, BucketCleanup, Tick, gatevars, gatehistory

\* A request is granted by the counter that counts it, or counted as late.
LEMMA CountsStayGranted ==
    GatesType /\ DaysInOrder /\ CountsGranted /\ [GatesNext]_gatevars => CountsGranted'
<1> SUFFICES ASSUME GatesType, DaysInOrder, CountsGranted, [GatesNext]_gatevars
             PROVE CountsGranted'
    BY Zenon
<1> USE GatesAssumption DEF GatesType, CountsGranted
<1>1. ASSUME NEW r \in Requests, Increment(r) PROVE CountsGranted'
    <2> DEFINE e == request[r].day
    <2>1. e \in Days
        BY Zenon
    <2> SUFFICES ASSUME NEW d \in Days
                 PROVE (\/ d \in cleaned /\ granted[d] <= MaxPerDay + late[d]
                        \/ d \notin cleaned /\ granted[d] <= hits[d] /\ granted[d] <= MaxPerDay)'
        BY Zenon
    <2>2. CASE d # e
        BY <1>1, <2>1, <2>2, Zenon DEF Increment
    <2>3. CASE d = e
        BY <1>1, <2>1, <2>3 DEF Increment
    <2> QED
        BY <2>2, <2>3, Zenon
<1>2. CASE CounterCleanup
    <2> SUFFICES ASSUME NEW d \in Days
                 PROVE (\/ d \in cleaned /\ granted[d] <= MaxPerDay + late[d]
                        \/ d \notin cleaned /\ granted[d] <= hits[d] /\ granted[d] <= MaxPerDay)'
        BY Zenon
    <2>1. CASE d < day
        BY <1>2, <2>1 DEF CounterCleanup
    <2>2. CASE d = day
        BY <1>2, <2>2 DEF CounterCleanup, Days
    <2>3. CASE d > day
        BY <1>2, <2>3 DEF CounterCleanup, DaysInOrder, Days
    <2> QED
        BY <2>1, <2>2, <2>3 DEF Days
<1>3. CASE UNCHANGED <<hits, granted, cleaned, late>>
    BY <1>3, Zenon
<1> QED
    BY <1>1, <1>2, <1>3, Zenon
    DEF GatesNext, gatingPreamble, allow, authenticate, checkExposureLimits, webhook,
        killSwitch, BucketCleanup, Tick, Midnight, gatevars, gatehistory

\* The switch is read before anything else a request does, so a halt is seen by every
\* request that was not past it.
LEMMA PastStaysWhenHalted ==
    GatesType /\ PastWhenHalted /\ [GatesNext]_gatevars => PastWhenHalted'
<1> SUFFICES ASSUME GatesType, PastWhenHalted, [GatesNext]_gatevars PROVE PastWhenHalted'
    BY Zenon
<1> USE DEF GatesType, PastWhenHalted, PastSwitch, Goto
<1>1. ASSUME NEW r \in Requests, gatingPreamble(r) PROVE PastWhenHalted'
    BY <1>1 DEF gatingPreamble, gatehistory
<1>2. ASSUME NEW r \in Requests,
             allow(r) \/ authenticate(r) \/ Increment(r) \/ checkExposureLimits(r)
      PROVE PastWhenHalted'
    <2>1. /\ request[r].pc \in PastSwitch
          /\ \A q \in Requests : q # r => request'[q].pc = request[q].pc
          /\ UNCHANGED <<switch, past, sent>>
        BY <1>2, Zenon DEF allow, authenticate, Increment, checkExposureLimits, gatehistory
    <2> QED
        BY <2>1, Zenon
<1>3. ASSUME NEW r \in Requests, webhook(r) PROVE PastWhenHalted'
    <2>1. /\ request[r].pc \in PastSwitch
          /\ \A q \in Requests : request'[q].pc \in PastSwitch => request[q].pc \in PastSwitch
          /\ UNCHANGED <<switch, past>>
          /\ sent' \subseteq sent \cup {r}
        BY <1>3, Zenon DEF webhook
    <2> QED
        BY <2>1, Zenon
<1>4. CASE killSwitch
    BY <1>4, Zenon DEF killSwitch
<1>5. CASE UNCHANGED <<switch, request, past, sent>>
    BY <1>5, Zenon
<1> QED
    BY <1>1, <1>2, <1>3, <1>4, <1>5, Zenon
    DEF GatesNext, BucketCleanup, CounterCleanup, Tick, Midnight, gatevars, gatehistory

\* GatesInv is an invariant of ingress.
LEMMA GatesInvariant == GatesSpec => []GatesInv
<1>1. GatesInv /\ [GatesNext]_gatevars => GatesInv'
    BY GatesTyped, TokensStayEarned, DaysStayInOrder, CountsStayGranted, PastStaysWhenHalted, Zenon
    DEF GatesInv
<1> QED
    BY <1>1, GatesStart, PTL DEF GatesSpec

\* An address never gets more through than its burst and what it earned by waiting,
\* although idle buckets are forgotten and start full again (allow, cleanupLoop).
THEOREM RateBounded == GatesSpec => []RateIsBounded
<1>1. GatesInv => RateIsBounded
    BY GatesAssumption DEF GatesInv, GatesType, TokensEarned, RateIsBounded, NoBucket
<1> QED
    BY <1>1, GatesInvariant, PTL

\* No number of concurrent requests, and no midnight, lets a licence have more than its
\* quota of a day, but for the requests counted after that day's counter was deleted
\* (dailyCounter).
THEOREM QuotaKept == GatesSpec => []QuotaIsKept
<1>1. GatesInv => QuotaIsKept
    BY GatesAssumption DEF GatesInv, GatesType, CountsGranted, QuotaIsKept
<1> QED
    BY <1>1, GatesInvariant, PTL

\* A halted ingress publishes only what was past the kill switch (gatingPreamble).
THEOREM HaltedHolds == GatesSpec => []HaltHolds
<1>1. GatesInv => HaltHolds
    BY Zenon DEF GatesInv, PastWhenHalted, HaltHolds
<1> QED
    BY <1>1, GatesInvariant, PTL

-----------------------------------------------------------------------------
(* The DXTrade connector. *)

Pcs == {"idle", "attempt", "execute", "login", "walk", "fill", "reject", "ack", "nak"}
Vias == {"none", "breaker", "direct", "uncounted"}
Jobs == [pc : Pcs, sig : DXSignals \cup {"none"}, attempt : Nat, via : Vias,
         left : SUBSET Tickets, count : Nat]
Deliveries == DXSignals \X Nat
Messages == [state : {"waiting", "flight", "acked", "termed"}, n : Nat]

DXTyped ==
    /\ action \in [DXSignals -> {"open", "close", "malformed", "unrouted"}]
    /\ message \in [DXSignals -> Messages]
    /\ inbox \in Seq(Deliveries)
    /\ job \in Jobs
    /\ job.pc # "idle" => job.sig \in DXSignals
    /\ token \in {"none", "valid", "stale"}
    /\ breaker \in [state : {"closed", "open", "half"}, fails : Nat]
    /\ placed \in [DXSignals -> Nat]
    /\ positions \in SUBSET Tickets
    /\ reports \in [DXSignals -> SUBSET [status : {"filled", "rejected"}, count : Nat]]
    /\ closedBy \in [DXSignals -> Nat]
    /\ reasons \in [DXSignals -> Nat]
    /\ failing \in Nat /\ dxfaults \in Nat

\* The chances of s to be carried out once more.
Queued(box, s) == {i \in 1 .. Len(box) : box[i][1] = s}
Undone == {"attempt", "execute", "login", "reject", "nak"}
Waits(s) == IF message[s].state = "waiting" THEN 1 ELSE 0
InDispatch(s) == IF job.sig = s /\ job.pc \in Undone THEN 1 ELSE 0
Chances(s) == Waits(s) + Cardinality(Queued(inbox, s)) + InDispatch(s)

Accounted == \A s \in DXSignals : placed[s] + Chances(s) <= 1 + reasons[s]

\* What the delivery in dispatch will report has happened at the broker.
Backed ==
    /\ job.pc = "walk" => action[job.sig] = "close" /\ job.count <= closedBy[job.sig]
    /\ job.pc \in {"attempt", "execute"} => job.count = 0
    /\ job.pc = "fill" => IF action[job.sig] = "open" THEN placed[job.sig] >= 1
                          ELSE job.count <= closedBy[job.sig]

Pending ==
    IF job.pc \in {"execute", "walk"}
    THEN IF job.via = "uncounted" THEN 2 ELSE IF job.via = "direct" THEN 1 ELSE 0
    ELSE IF job.pc = "login" THEN 1 ELSE 0

Shed ==
    /\ job.pc \in {"execute", "walk"} => job.via # "none"
    /\ job.pc \in {"execute", "walk"} /\ job.via = "breaker" => breaker.state # "open"
    /\ breaker.fails < TripAt
    /\ failing + Pending <=
        IF breaker.state = "closed" THEN 2 * breaker.fails + 2
        ELSE IF breaker.state = "half" THEN 2
        ELSE 2 * TripAt + 2

DXInv == DXTyped /\ Accounted /\ FillsAreBacked /\ Backed /\ Shed

-----------------------------------------------------------------------------
(* The inbox. *)

\* The deliveries of a signal in the inbox can be counted (Subscriber.Subscribe).
LEMMA QueuedIsFinite ==
    ASSUME NEW box \in Seq(Deliveries), NEW s
    PROVE  IsFiniteSet(Queued(box, s)) /\ Cardinality(Queued(box, s)) \in Nat
<1>1. IsFiniteSet(1 .. Len(box))
  BY FS_Interval
<1>2. Queued(box, s) \in SUBSET (1 .. Len(box))
  BY Zenon DEF Queued
<1> QED
  BY <1>1, <1>2, FS_Subset, FS_CardinalityType, Zenon

\* An empty inbox holds no delivery (Subscriber.Subscribe).
LEMMA QueuedNone ==
    ASSUME NEW s
    PROVE  Cardinality(Queued(<< >>, s)) = 0
<1>1. Queued(<< >>, s) = {}
  BY DEF Queued
<1> QED
  BY <1>1, FS_EmptySet, Zenon

\* An inbox to which a delivery of t was added.
Arrived(box, new, t) ==
    box \in Seq(Deliveries) /\ \E n \in Nat : new = Append(box, <<t, n>>)

\* A delivery that arrives is one more of its signal (Subscriber.Subscribe).
LEMMA QueuedAppend ==
    ASSUME NEW box, NEW new, NEW t \in DXSignals, Arrived(box, new, t), NEW s
    PROVE  Cardinality(Queued(new, s)) = Cardinality(Queued(box, s)) + (IF t = s THEN 1 ELSE 0)
<1> DEFINE i == Len(box) + 1
<1>a. PICK n \in Nat : new = Append(box, <<t, n>>)
  BY Zenon DEF Arrived
<1>b. box \in Seq(Deliveries)
  BY Zenon DEF Arrived
<1>0. IsFiniteSet(Queued(box, s)) /\ Cardinality(Queued(box, s)) \in Nat
  BY <1>b, QueuedIsFinite, Zenon
<1>1. i \notin Queued(box, s)
  BY <1>b DEF Queued
<1>2. CASE t = s
  <2>1. Queued(new, s) = Queued(box, s) \cup {i}
    BY <1>a, <1>b, <1>2 DEF Queued
  <2>2. Cardinality(Queued(box, s) \cup {i}) = Cardinality(Queued(box, s)) + 1
    BY <1>0, <1>1, FS_AddElement, Zenon
  <2> QED
    BY <1>2, <2>1, <2>2, Zenon
<1>3. CASE t # s
  <2>1. Queued(new, s) = Queued(box, s)
    BY <1>a, <1>b, <1>3 DEF Queued
  <2> QED
    BY <1>0, <1>3, <2>1
<1> QED
  BY <1>2, <1>3, Zenon

\* A delivery that is taken is one less of its signal (Subscriber.dispatch).
LEMMA QueuedTail ==
    ASSUME NEW box \in Seq(Deliveries), box # << >>, NEW s
    PROVE  Cardinality(Queued(Tail(box), s))
              = Cardinality(Queued(box, s)) - (IF Head(box)[1] = s THEN 1 ELSE 0)
<1> DEFINE Q == Queued(box, s)
           R == Queued(Tail(box), s)
           f == [i \in Q \ {1} |-> i - 1]
<1>1. IsFiniteSet(Q) /\ Cardinality(Q) \in Nat
  BY QueuedIsFinite, Zenon
<1>2. /\ Len(Tail(box)) = Len(box) - 1 /\ Len(box) \in Nat \ {0}
      /\ \A i \in 1 .. Len(box) - 1 : Tail(box)[i] = box[i + 1]
      /\ Head(box) = box[1]
  OBVIOUS
<1>3. IsFiniteSet(Q \ {1})
      /\ Cardinality(Q \ {1}) = Cardinality(Q) - (IF Head(box)[1] = s THEN 1 ELSE 0)
  <2>1. 1 \in Q <=> Head(box)[1] = s
    BY <1>2 DEF Queued
  <2>2. CASE 1 \in Q
    BY <1>1, <2>1, <2>2, FS_RemoveElement, Zenon
  <2>3. CASE 1 \notin Q
    <3>1. Q \ {1} = Q
      BY <2>3, Zenon
    <3>2. IsFiniteSet(Q \ {1}) /\ Cardinality(Q \ {1}) = Cardinality(Q)
      BY <1>1, <3>1, Zenon
    <3> HIDE DEF Q
    <3> QED
      BY <1>1, <2>1, <2>3, <3>2
  <2> QED
    BY <2>2, <2>3, Zenon
<1>4. f \in Bijection(Q \ {1}, R)
  <2>1. f \in [Q \ {1} -> R]
    BY <1>2 DEF Queued
  <2>2. \A i, j \in Q \ {1} : f[i] = f[j] => i = j
    BY <1>2 DEF Queued
  <2>3. \A j \in R : \E i \in Q \ {1} : f[i] = j
    <3>1. ASSUME NEW j \in R
          PROVE  j + 1 \in Q \ {1} /\ f[j + 1] = j
      BY <1>2 DEF Queued
    <3> QED
      BY <3>1, Zenon
  <2> QED
    BY <2>1, <2>2, <2>3, Zenon DEF Bijection, Injection, Surjection, IsInjective
<1>5. ExistsBijection(Q \ {1}, R)
  BY <1>4, Zenon DEF ExistsBijection
<1> QED
  BY <1>3, <1>5, FS_Bijection, Zenon

-----------------------------------------------------------------------------
(* What the parts of an execution do. *)

\* The breaker's count stays a count, and it opens before the count reaches its limit
\* (NewClient).
LEMMA CountedKeeps ==
    ASSUME DXTyped, Shed, NEW ok \in BOOLEAN, Counted(ok)
    PROVE  /\ breaker' \in [state : {"closed", "open", "half"}, fails : Nat]
           /\ breaker'.fails < TripAt
<1> QED
  BY DXAssumption DEF DXTyped, Shed, Counted, Closed, Open

\* The fields of a delivery in dispatch (Client.Execute).
LEMMA JobIs ==
    ASSUME NEW pc \in Pcs, NEW sig \in DXSignals \cup {"none"}, NEW attempt \in Nat,
           NEW via \in Vias, NEW left \in SUBSET Tickets, NEW count \in Nat
    PROVE  [pc |-> pc, sig |-> sig, attempt |-> attempt, via |-> via, left |-> left,
            count |-> count] \in Jobs
<1> QED
  BY Zenon DEF Jobs

\* A delivery that goes to another place keeps its signal and drops the rest (Client.Execute).
LEMMA JobAtIs ==
    ASSUME NEW pc
    PROVE  JobAt(pc) = [pc |-> pc, sig |-> job.sig, attempt |-> 0, via |-> "none", left |-> {},
                        count |-> 0]
<1>1. [NoJob EXCEPT !.pc = pc] = [pc |-> pc, sig |-> "none", attempt |-> 0, via |-> "none",
                                  left |-> {}, count |-> 0]
  BY DEF NoJob
<1>2. JobAt(pc) = [[NoJob EXCEPT !.pc = pc] EXCEPT !.sig = job.sig]
  BY Zenon DEF JobAt, NoJob
<1> QED
  BY <1>1, <1>2, Zenon

\* What the delivery in dispatch is made of (Client.Execute).
LEMMA JobFields ==
    ASSUME NEW j \in Jobs
    PROVE  /\ j = [pc |-> j.pc, sig |-> j.sig, attempt |-> j.attempt, via |-> j.via,
                   left |-> j.left, count |-> j.count]
           /\ j.pc \in Pcs /\ j.sig \in DXSignals \cup {"none"} /\ j.attempt \in Nat
           /\ j.via \in Vias /\ j.left \in SUBSET Tickets /\ j.count \in Nat
<1> QED
  BY Zenon DEF Jobs

\* A literal job: the places and the ways there are (Client.Execute).
LEMMA JobPlaces ==
    /\ \A pc \in {"idle", "attempt", "execute", "login", "walk", "fill", "reject", "ack", "nak"} :
        pc \in Pcs
    /\ \A via \in {"none", "breaker", "direct", "uncounted"} : via \in Vias
    /\ 0 \in Nat /\ {} \in SUBSET Tickets
BY DEF Pcs, Vias

\* How an execution ends: it succeeded, it failed and is tried again or given up, or the
\* token was refused (Client.Execute).
Ended(count) ==
    \/ /\ Counted(TRUE) /\ failing' = 0
       /\ job' = [pc |-> "fill", sig |-> job.sig, attempt |-> 0, via |-> "none", left |-> {},
                  count |-> count]
    \/ /\ Counted(FALSE) /\ failing' = failing + 1
       /\ \E pc \in {"reject", "attempt"}, n \in Nat :
            job' = [pc |-> pc, sig |-> job.sig, attempt |-> n, via |-> "none", left |-> {},
                    count |-> 0]
    \/ /\ Counted(FALSE) /\ failing' = failing + 1
       /\ job' = [pc |-> IF job.via = "direct" THEN "reject" ELSE "login", sig |-> job.sig,
                  attempt |-> 0, via |-> "none", left |-> {}, count |-> 0]

\* Success is the first of the three ends (Client.Execute).
LEMMA SucceedEnds ==
    ASSUME DXTyped, job.pc # "idle", NEW count, Succeed(count)
    PROVE  /\ Counted(TRUE) /\ failing' = 0
           /\ job' = [pc |-> "fill", sig |-> job.sig, attempt |-> 0, via |-> "none", left |-> {},
                      count |-> count]
<1> QED
  BY JobAtIs, Zenon DEF Succeed, Pcs

\* An error is the second (Client.Execute).
LEMMA FailEnds ==
    ASSUME DXTyped, job.pc # "idle", Fail
    PROVE  /\ Counted(FALSE) /\ failing' = failing + 1
           /\ \E pc \in {"reject", "attempt"}, n \in Nat :
                job' = [pc |-> pc, sig |-> job.sig, attempt |-> n, via |-> "none", left |-> {},
                        count |-> 0]
<1>1. JobAt("reject") = [pc |-> "reject", sig |-> job.sig, attempt |-> 0, via |-> "none",
                         left |-> {}, count |-> 0]
  BY JobAtIs, Zenon DEF Pcs
<1>2. [JobAt("attempt") EXCEPT !.attempt = job.attempt + 1]
        = [pc |-> "attempt", sig |-> job.sig, attempt |-> job.attempt + 1, via |-> "none",
           left |-> {}, count |-> 0]
  BY JobAtIs DEF Pcs
<1>3. job.attempt + 1 \in Nat
  BY JobFields DEF DXTyped
<1> QED
  BY <1>1, <1>2, <1>3, Zenon DEF Fail

\* A refused token is the third (Client.Execute).
LEMMA UnauthorizedEnds ==
    ASSUME DXTyped, job.pc # "idle", Unauthorized
    PROVE  /\ Counted(FALSE) /\ failing' = failing + 1
           /\ job' = [pc |-> IF job.via = "direct" THEN "reject" ELSE "login", sig |-> job.sig,
                      attempt |-> 0, via |-> "none", left |-> {}, count |-> 0]
<1>1. (IF job.via = "direct" THEN "reject" ELSE "login") \in Pcs
  BY Zenon DEF Pcs
<1> QED
  BY <1>1, JobAtIs, Zenon DEF Unauthorized

\* The end of an execution keeps the books of the breaker (Client.Execute).
LEMMA EndedShed ==
    ASSUME DXTyped, Shed, job.pc \in {"execute", "walk"}, NEW count \in Nat, Ended(count)
    PROVE  Shed'
<1> USE DXAssumption
<1>0. /\ job.via \in {"breaker", "direct", "uncounted"}
      /\ job.via = "breaker" => breaker.state # "open"
      /\ breaker.fails \in Nat /\ breaker.fails < TripAt
      /\ failing \in Nat
      /\ failing + Pending <= IF breaker.state = "closed" THEN 2 * breaker.fails + 2
                              ELSE IF breaker.state = "half" THEN 2 ELSE 2 * TripAt + 2
      /\ Pending = IF job.via = "uncounted" THEN 2 ELSE IF job.via = "direct" THEN 1 ELSE 0
      /\ breaker.state \in {"closed", "open", "half"}
  <2>1. job.via \in Vias
    BY JobFields, Zenon DEF DXTyped
  <2> QED
    BY <2>1, Zenon DEF DXTyped, Shed, Pending, Vias
<1>1. CASE Counted(TRUE) /\ failing' = 0 /\ job'.pc = "fill"
  <2>1. Pending' = 0
    BY <1>1, Zenon DEF Pending
  <2>2. breaker' = breaker \/ (breaker'.state = "closed" /\ breaker'.fails = 0)
    BY <1>1, Zenon DEF Counted, Closed
  <2> QED
    BY <1>0, <1>1, <2>1, <2>2 DEF Shed
<1>2. CASE Counted(FALSE) /\ failing' = failing + 1 /\ job'.pc \in {"reject", "attempt", "login"}
           /\ (job'.pc = "login" => job.via # "direct")
  <2>1. Pending' = IF job'.pc = "login" THEN 1 ELSE 0
    BY <1>2, Zenon DEF Pending
  <2>2. CASE job.via # "breaker"
    <3>1. breaker' = breaker
      BY <1>2, <2>2, Zenon DEF Counted
    <3> QED
      BY <1>0, <1>2, <2>1, <2>2, <3>1 DEF Shed
  <2>3. CASE job.via = "breaker" /\ (breaker.state = "half" \/ breaker.fails + 1 >= TripAt)
    <3>1. breaker'.state = "open" /\ breaker'.fails = 0
      BY <1>2, <2>3, Zenon DEF Counted, Open
    <3> QED
      BY <1>0, <1>2, <2>1, <2>3, <3>1 DEF Shed
  <2>4. CASE job.via = "breaker" /\ ~ (breaker.state = "half" \/ breaker.fails + 1 >= TripAt)
    <3>1. breaker'.state = "closed" /\ breaker'.fails = breaker.fails + 1
      BY <1>2, <2>4, Zenon DEF Counted, Closed
    <3> QED
      BY <1>0, <1>2, <2>1, <2>4, <3>1 DEF Shed
  <2> QED
    BY <2>2, <2>3, <2>4, Zenon
<1>3. CASE /\ Counted(FALSE) /\ failing' = failing + 1
           /\ job' = [pc |-> IF job.via = "direct" THEN "reject" ELSE "login", sig |-> job.sig,
                      attempt |-> 0, via |-> "none", left |-> {}, count |-> 0]
  <2>1. job'.pc = IF job.via = "direct" THEN "reject" ELSE "login"
    BY <1>3, Zenon
  <2> QED
    BY <1>2, <1>3, <2>1, Zenon
<1>4. CASE /\ Counted(FALSE) /\ failing' = failing + 1
           /\ \E pc \in {"reject", "attempt"}, n \in Nat :
                job' = [pc |-> pc, sig |-> job.sig, attempt |-> n, via |-> "none", left |-> {},
                        count |-> 0]
  <2>1. job'.pc \in {"reject", "attempt"}
    BY <1>4
  <2> QED
    BY <1>2, <1>4, <2>1, Zenon
<1>5. CASE /\ Counted(TRUE) /\ failing' = 0
           /\ job' = [pc |-> "fill", sig |-> job.sig, attempt |-> 0, via |-> "none", left |-> {},
                      count |-> count]
  <2>1. job'.pc = "fill"
    BY <1>5, Zenon
  <2> QED
    BY <1>1, <1>5, <2>1, Zenon
<1> QED
  BY <1>3, <1>4, <1>5, Zenon DEF Ended

\* The end of an execution leaves a delivery of the same signal, that is still to be
\* carried out unless it was (Client.Execute).
LEMMA EndedJob ==
    ASSUME DXTyped, Shed, job.pc \in {"execute", "walk"}, NEW count \in Nat, Ended(count)
    PROVE  /\ job' \in Jobs
           /\ job'.sig = job.sig /\ job.sig \in DXSignals
           /\ \/ job'.pc = "fill" /\ job'.count = count
              \/ job'.pc \in {"reject", "attempt", "login"} /\ job'.count = 0
           /\ breaker' \in [state : {"closed", "open", "half"}, fails : Nat]
           /\ failing' \in Nat
<1>1. job.sig \in DXSignals /\ failing \in Nat
  BY Zenon DEF DXTyped
<1>2. breaker' \in [state : {"closed", "open", "half"}, fails : Nat]
  BY CountedKeeps, Zenon DEF Ended
<1>3. CASE /\ failing' = 0
           /\ job' = [pc |-> "fill", sig |-> job.sig, attempt |-> 0, via |-> "none", left |-> {},
                      count |-> count]
  <2>1. job' \in Jobs
    BY <1>1, <1>3, JobIs, JobPlaces, Zenon
  <2> QED
    BY <1>1, <1>2, <1>3, <2>1, Zenon
<1>4. CASE /\ failing' = failing + 1
           /\ \E pc \in {"reject", "attempt", "login"}, n \in Nat :
                job' = [pc |-> pc, sig |-> job.sig, attempt |-> n, via |-> "none", left |-> {},
                        count |-> 0]
  <2>1. PICK pc \in {"reject", "attempt", "login"}, n \in Nat :
            job' = [pc |-> pc, sig |-> job.sig, attempt |-> n, via |-> "none", left |-> {},
                    count |-> 0]
    BY <1>4, Zenon
  <2>2. job' \in Jobs
    BY <1>1, <2>1, JobIs, JobPlaces, Zenon
  <2> QED
    BY <1>1, <1>2, <1>4, <2>1, <2>2
<1>5. (IF job.via = "direct" THEN "reject" ELSE "login") \in {"reject", "attempt", "login"}
      /\ 0 \in Nat
  BY Zenon
<1>6. \A pc \in {"reject", "attempt"} : pc \in {"reject", "attempt", "login"}
  BY Zenon
<1> QED
  BY <1>3, <1>4, <1>5, <1>6, Zenon DEF Ended

\* The actions that end an execution, or leave it where it is (Client.execute).
LEMMA ExecutionEnds ==
    ASSUME DXTyped
    PROVE  /\ LoginFirst => Ended(0) \/ UNCHANGED <<job, breaker, failing>>
           /\ ListPositions => Ended(0)
                 \/ (job' = [job EXCEPT !.pc = "walk", !.left = positions]
                     /\ UNCHANGED <<breaker, failing>>)
           /\ DeletedAll => Ended(job.count) /\ job'.pc = "fill"
           /\ placeOrder => Ended(0)
<1>1. ASSUME LoginFirst
      PROVE  Ended(0) \/ UNCHANGED <<job, breaker, failing>>
  BY <1>1, FailEnds, Zenon DEF LoginFirst, Ended
<1>2. ASSUME ListPositions
      PROVE  Ended(0) \/ (job' = [job EXCEPT !.pc = "walk", !.left = positions]
                          /\ UNCHANGED <<breaker, failing>>)
  <2>1. CASE Unauthorized
    BY <1>2, <2>1, UnauthorizedEnds, Zenon DEF ListPositions, Ended
  <2>2. CASE Fail
    BY <1>2, <2>2, FailEnds, Zenon DEF ListPositions, Ended
  <2> QED
    BY <1>2, <2>1, <2>2, Zenon DEF ListPositions
<1>3. ASSUME DeletedAll
      PROVE  Ended(job.count) /\ job'.pc = "fill"
  <2>1. job.pc # "idle" /\ Succeed(job.count)
    BY <1>3, Zenon DEF DeletedAll
  <2>2. /\ Counted(TRUE) /\ failing' = 0
        /\ job' = [pc |-> "fill", sig |-> job.sig, attempt |-> 0, via |-> "none", left |-> {},
                   count |-> job.count]
    BY <2>1, SucceedEnds, Zenon
  <2> QED
    BY <2>2, Zenon DEF Ended
<1>4. ASSUME placeOrder
      PROVE  Ended(0)
  <2>1. CASE Unauthorized
    BY <1>4, <2>1, UnauthorizedEnds, Zenon DEF placeOrder, Ended
  <2>2. CASE Fail
    BY <1>4, <2>2, FailEnds, Zenon DEF placeOrder, Ended
  <2>3. CASE Succeed(0)
    BY <1>4, <2>3, SucceedEnds, Zenon DEF placeOrder, Ended
  <2> QED
    BY <1>4, <2>1, <2>2, <2>3, Zenon DEF placeOrder
<1> QED
  BY <1>1, <1>2, <1>3, <1>4, Zenon

-----------------------------------------------------------------------------
(* Every step keeps the types. *)

\* The message of a signal has a state and a number (Subscriber.Subscribe).
LEMMA MessageFields ==
    ASSUME DXTyped, NEW s \in DXSignals
    PROVE  /\ message[s] \in Messages /\ message[s].n \in Nat
           /\ message[s].state \in {"waiting", "flight", "acked", "termed"}
           /\ message[s] = [state |-> message[s].state, n |-> message[s].n]
<1>1. message[s] \in Messages
  BY Zenon DEF DXTyped
<1> QED
  BY <1>1, Zenon DEF Messages

\* An answer to the stream leaves messages (Subscriber.dispatch).
LEMMA AnswerTyped ==
    ASSUME DXTyped, NEW s \in DXSignals, NEW state \in {"waiting", "acked", "termed"},
           Answer(s, state)
    PROVE  message' \in [DXSignals -> Messages]
<1>1. message \in [DXSignals -> Messages]
  BY Zenon DEF DXTyped
<1>2. [message[s] EXCEPT !.state = state] \in Messages
  BY MessageFields, Zenon DEF Messages
<1>3. message' = message \/ message' = [message EXCEPT ![s] = [message[s] EXCEPT !.state = state]]
  BY Zenon DEF Answer
<1> QED
  BY <1>1, <1>2, <1>3, Zenon

\* No step leaves the types (apps/dxtrade).
LEMMA TypedStep ==
    ASSUME DXTyped, Shed, DXNext
    PROVE  DXTyped'
<1> USE DXAssumption
<1>1. ASSUME NEW s \in DXSignals, Redeliver(s), reasons' \in [DXSignals -> Nat], dxfaults' \in Nat
      PROVE  DXTyped'
  <2>0. message[s].n + 1 \in Nat
    <3>1. message[s].n \in Nat
      BY MessageFields, Zenon
    <3> QED
      BY <3>1
  <2>1. message' \in [DXSignals -> Messages]
    <3>1. [state |-> "flight", n |-> message[s].n + 1] \in Messages
      BY <2>0, Zenon DEF Messages
    <3>2. message \in [DXSignals -> Messages]
      BY Zenon DEF DXTyped
    <3> QED
      BY <1>1, <3>1, <3>2, Zenon DEF Redeliver
  <2>2. inbox' \in Seq(Deliveries)
    <3>1. <<s, message[s].n + 1>> \in Deliveries
      BY <2>0, Zenon DEF Deliveries
    <3> QED
      BY <1>1, <3>1, SMTT(30) DEF DXTyped, Redeliver
  <2> QED
    BY <1>1, <2>1, <2>2, Zenon DEF DXTyped, Redeliver
<1>2. ASSUME NEW s \in DXSignals, Deliver(s) \/ AckWaitExpires(s)
      PROVE  DXTyped'
  <2>1. Redeliver(s)
    BY <1>2, Zenon DEF Deliver, AckWaitExpires
  <2>2. reasons' \in [DXSignals -> Nat] /\ dxfaults' \in Nat
    <3>1. reasons \in [DXSignals -> Nat] /\ dxfaults \in Nat
      BY Zenon DEF DXTyped
    <3> QED
      BY <1>2, <3>1 DEF Deliver, AckWaitExpires, DXFault
  <2> QED
    BY <2>1, <2>2, <1>1, Zenon
<1>3. CASE DXDispatch
  <2> DEFINE s == Head(inbox)[1]
  <2>1. inbox' \in Seq(Deliveries) /\ s \in DXSignals
    <3>1. inbox \in Seq(Deliveries) /\ inbox # << >> /\ inbox' = Tail(inbox)
      BY <1>3, Zenon DEF DXDispatch, DXTyped
    <3>2. Head(inbox) \in Deliveries /\ Tail(inbox) \in Seq(Deliveries)
      BY <3>1
    <3> QED
      BY <3>1, <3>2, Zenon DEF Deliveries
  <2>2. message' \in [DXSignals -> Messages]
    <3>1. Answer(s, "termed") \/ Answer(s, "waiting") \/ message' = message
      BY <1>3, Zenon DEF DXDispatch
    <3>2. message \in [DXSignals -> Messages]
      BY Zenon DEF DXTyped
    <3> QED
      BY <2>1, <3>1, <3>2, AnswerTyped, Zenon
  <2>3. job' = job \/ job' = [pc |-> "attempt", sig |-> s, attempt |-> 0, via |-> "none",
                              left |-> {}, count |-> 0]
    BY <1>3, Zenon DEF DXDispatch, NoJob
  <2>4. /\ job' \in Jobs
        /\ job'.pc # "idle" => job'.sig \in DXSignals
    <3>1. CASE job' = job
      BY <3>1, Zenon DEF DXTyped
    <3>2. CASE job' = [pc |-> "attempt", sig |-> s, attempt |-> 0, via |-> "none", left |-> {},
                       count |-> 0]
      BY <2>1, <3>2, JobIs, JobPlaces, Zenon
    <3> QED
      BY <2>3, <3>1, <3>2, Zenon
  <2> QED
    BY <1>3, <2>1, <2>2, <2>4, Zenon DEF DXDispatch, DXTyped
<1>4. CASE Attempt
  <2>1. /\ job' \in Jobs
        /\ job'.pc # "idle" => job'.sig \in DXSignals
    <3>1. job \in Jobs /\ job.sig \in DXSignals /\ job.attempt \in Nat
      BY <1>4, JobFields, Zenon DEF Attempt, DXTyped
    <3>2. CASE job' = [job EXCEPT !.pc = "execute", !.via = "breaker"]
      BY <3>1, <3>2, JobPlaces, Zenon DEF Jobs
    <3>3. CASE job' = [job EXCEPT !.attempt = @ + 1]
      BY <3>1, <3>3 DEF Jobs
    <3>4. CASE job' = JobAt("reject")
      BY <3>1, <3>4, JobAtIs, JobIs, JobPlaces, Zenon
    <3> QED
      BY <1>4, <3>2, <3>3, <3>4, Zenon DEF Attempt
  <2> QED
    BY <1>4, <2>1, Zenon DEF Attempt, DXTyped
<1>5. CASE LoginFirst
  <2>1. CASE Ended(0)
    BY <1>5, <2>1, EndedJob, Zenon DEF LoginFirst, DXTyped
  <2>2. CASE UNCHANGED <<job, breaker, failing>>
    BY <1>5, <2>2, Zenon DEF LoginFirst, DXTyped
  <2> QED
    BY <1>5, <2>1, <2>2, ExecutionEnds, Zenon
<1>6. CASE LoginAgain
  <2>1. /\ job' \in Jobs
        /\ job'.pc # "idle" => job'.sig \in DXSignals
    <3>1. job.sig \in DXSignals
      BY <1>6, Zenon DEF LoginAgain, DXTyped
    <3>2. CASE job' = [JobAt("execute") EXCEPT !.via = "direct"]
      <4>1. job' = [pc |-> "execute", sig |-> job.sig, attempt |-> 0, via |-> "direct",
                    left |-> {}, count |-> 0]
        BY <3>2, JobAtIs, Zenon
      <4> QED
        BY <3>1, <4>1, JobIs, JobPlaces, Zenon
    <3>3. CASE job' = JobAt("reject")
      BY <3>1, <3>3, JobAtIs, JobIs, JobPlaces, Zenon
    <3> QED
      BY <1>6, <3>2, <3>3, Zenon DEF LoginAgain
  <2> QED
    BY <1>6, <2>1, Zenon DEF LoginAgain, DXTyped
<1>7. CASE placeOrder
  <2>1. Ended(0) /\ job.pc = "execute" /\ job.sig \in DXSignals
    BY <1>7, ExecutionEnds, Zenon DEF placeOrder, DXTyped
  <2>2. placed' \in [DXSignals -> Nat] /\ reasons' \in [DXSignals -> Nat] /\ dxfaults' \in Nat
    <3>1. placed \in [DXSignals -> Nat] /\ reasons \in [DXSignals -> Nat] /\ dxfaults \in Nat
      BY Zenon DEF DXTyped
    <3> QED
      BY <1>7, <2>1, <3>1 DEF placeOrder, DXFault
  <2> QED
    BY <1>7, <2>1, <2>2, EndedJob, Zenon DEF placeOrder, DXTyped
<1>8. CASE ListPositions
  <2>1. CASE Ended(0)
    BY <1>8, <2>1, EndedJob, Zenon DEF ListPositions, DXTyped
  <2>2. CASE job' = [job EXCEPT !.pc = "walk", !.left = positions] /\ UNCHANGED <<breaker, failing>>
    <3>1. job \in Jobs /\ job.sig \in DXSignals /\ positions \in SUBSET Tickets
      BY <1>8, Zenon DEF ListPositions, DXTyped
    <3>2. job' \in Jobs /\ job'.sig = job.sig
      BY <2>2, <3>1, JobPlaces, Zenon DEF Jobs
    <3> QED
      BY <1>8, <2>2, <3>1, <3>2, Zenon DEF ListPositions, DXTyped
  <2> QED
    BY <1>8, <2>1, <2>2, ExecutionEnds, Zenon
<1>9. CASE DeleteNext
  <2>1. /\ positions' \in SUBSET Tickets /\ closedBy' \in [DXSignals -> Nat]
        /\ job' \in Jobs
        /\ job'.pc # "idle" => job'.sig \in DXSignals
    <3>1. /\ job \in Jobs /\ job.sig \in DXSignals /\ positions \in SUBSET Tickets
          /\ closedBy \in [DXSignals -> Nat]
      BY <1>9, Zenon DEF DeleteNext, DXTyped
    <3>2. job.left \in SUBSET Tickets /\ job.count \in Nat
      BY <3>1, JobFields, Zenon
    <3>3. CASE /\ positions' \in SUBSET positions /\ closedBy' = [closedBy EXCEPT ![job.sig] = @ + 1]
               /\ \E t \in job.left, counted \in {0, 1} :
                    job' = [job EXCEPT !.left = @ \ {t}, !.count = @ + counted]
      <4>1. PICK t \in job.left, counted \in {0, 1} :
                job' = [job EXCEPT !.left = @ \ {t}, !.count = @ + counted]
        BY <3>3, Zenon
      <4>2. job.left \ {t} \in SUBSET Tickets /\ job.count + counted \in Nat
        BY <3>2
      <4>3. job' \in Jobs /\ job'.sig = job.sig
        BY <3>1, <4>1, <4>2, Zenon DEF Jobs
      <4> QED
        BY <3>1, <3>3, <4>3
    <3>4. CASE /\ positions' = positions /\ closedBy' = closedBy
               /\ \E t \in job.left : job' = [job EXCEPT !.left = @ \ {t}]
      <4>1. PICK t \in job.left : job' = [job EXCEPT !.left = @ \ {t}]
        BY <3>4, Zenon
      <4>2. job.left \ {t} \in SUBSET Tickets
        BY <3>2, Zenon
      <4>3. job' \in Jobs /\ job'.sig = job.sig
        BY <3>1, <4>1, <4>2, Zenon DEF Jobs
      <4> QED
        BY <3>1, <3>4, <4>3, Zenon
    <3> QED
      BY <1>9, <3>3, <3>4, Zenon DEF DeleteNext
  <2> QED
    BY <1>9, <2>1, Zenon DEF DeleteNext, DXTyped
<1>10. CASE DeletedAll
  <2>1. Ended(job.count) /\ job.count \in Nat
    <3>1. job.count \in Nat
      BY JobFields, Zenon DEF DXTyped
    <3> QED
      BY <1>10, <3>1, ExecutionEnds, Zenon
  <2> QED
    BY <1>10, <2>1, EndedJob, Zenon DEF DeletedAll, DXTyped
<1>11. CASE publishFill
  <2>1. (IF job.pc = "fill" THEN "ack" ELSE "nak") \in Pcs /\ job.sig \in DXSignals
    BY <1>11, Zenon DEF publishFill, Pcs, DXTyped
  <2>2. /\ job' \in Jobs
        /\ job'.pc # "idle" => job'.sig \in DXSignals
    <3>1. job' = JobAt(IF job.pc = "fill" THEN "ack" ELSE "nak")
      BY <1>11, Zenon DEF publishFill
    <3>2. job' = [pc |-> IF job.pc = "fill" THEN "ack" ELSE "nak", sig |-> job.sig, attempt |-> 0,
                  via |-> "none", left |-> {}, count |-> 0]
      BY <3>1, JobAtIs, Zenon
    <3> QED
      BY <2>1, <3>2, JobIs, JobPlaces, Zenon
  <2>3. reports' \in [DXSignals -> SUBSET [status : {"filled", "rejected"}, count : Nat]]
    <3>1. /\ reports \in [DXSignals -> SUBSET [status : {"filled", "rejected"}, count : Nat]]
          /\ job.count \in Nat
      BY JobFields, Zenon DEF DXTyped
    <3> DEFINE fill == IF job.pc = "fill" THEN Report("filled", job.count) ELSE Report("rejected", 0)
    <3>2. fill \in [status : {"filled", "rejected"}, count : Nat]
      BY <3>1, Zenon DEF Report
    <3>3. reports' = [reports EXCEPT ![job.sig] = @ \cup {fill}] \/ reports' = reports
      BY <1>11, Zenon DEF publishFill
    <3> HIDE DEF fill
    <3> QED
      BY <2>1, <3>1, <3>2, <3>3
  <2>4. dxfaults' \in Nat
    BY <1>11 DEF publishFill, DXTyped, DXFault
  <2> QED
    BY <1>11, <2>2, <2>3, <2>4, Zenon DEF publishFill, DXTyped
<1>12. CASE AckOrNak
  <2>1. message' \in [DXSignals -> Messages]
    <3>1. job.sig \in DXSignals /\ message \in [DXSignals -> Messages]
      BY <1>12, Zenon DEF AckOrNak, DXTyped
    <3>2. Answer(job.sig, "acked") \/ Answer(job.sig, "waiting") \/ message' = message
      BY <1>12, Zenon DEF AckOrNak
    <3> QED
      BY <3>1, <3>2, AnswerTyped, Zenon
  <2>2. job' \in Jobs /\ job'.pc = "idle"
    BY <1>12, JobIs, JobPlaces, Zenon DEF AckOrNak, NoJob
  <2> QED
    BY <1>12, <2>1, <2>2, Zenon DEF AckOrNak, DXTyped
<1>13. CASE SessionExpires
  BY <1>13, Zenon DEF SessionExpires, DXTyped
<1>14. CASE BreakerTimer
  <2>1. breaker' \in [state : {"closed", "open", "half"}, fails : Nat]
    BY <1>14 DEF BreakerTimer, Closed, HalfOpen
  <2>2. job' = job \/ job' = [job EXCEPT !.via = "uncounted"]
    BY <1>14, Zenon DEF BreakerTimer
  <2>3. job' \in Jobs /\ job'.pc = job.pc /\ job'.sig = job.sig
    <3>1. job \in Jobs
      BY Zenon DEF DXTyped
    <3>2. CASE job' = [job EXCEPT !.via = "uncounted"]
      BY <3>1, <3>2, JobPlaces, Zenon DEF Jobs
    <3> QED
      BY <2>2, <3>1, <3>2, Zenon
  <2> QED
    BY <1>14, <2>1, <2>3, Zenon DEF BreakerTimer, DXTyped
<1>15. CASE DXRestarts
  <2>1. message' \in [DXSignals -> Messages]
    <3>1. \A s \in DXSignals : /\ message[s] \in Messages
                               /\ [message[s] EXCEPT !.state = "waiting"] \in Messages
      BY MessageFields, Zenon DEF Messages
    <3> QED
      BY <1>15, <3>1, Zenon DEF DXRestarts
  <2>2. reasons' \in [DXSignals -> Nat] /\ dxfaults' \in Nat
    BY <1>15, SMTT(30) DEF DXRestarts, DXTyped, DXFault
  <2> QED
    <3>1. job' \in Jobs /\ job'.pc = "idle"
      BY <1>15, JobIs, JobPlaces, Zenon DEF DXRestarts, NoJob
    <3>2. breaker' \in [state : {"closed", "open", "half"}, fails : Nat]
      BY <1>15, Zenon DEF DXRestarts, Closed
    <3>3. inbox' \in Seq(Deliveries)
      BY <1>15 DEF DXRestarts
    <3> QED
      BY <1>15, <2>1, <2>2, <3>1, <3>2, <3>3, Zenon DEF DXRestarts, DXTyped
<1> QED
  BY <1>2, <1>3, <1>4, <1>5, <1>6, <1>7, <1>8, <1>9, <1>10, <1>11, <1>12, <1>13, <1>14, <1>15, Zenon
  DEF DXNext

-----------------------------------------------------------------------------
(* Orders and chances. *)

\* A step that neither delivers nor answers and orders nothing new keeps the account when
\* it makes no chance (Client.Execute).
LEMMA AccountedSame ==
    ASSUME DXTyped, DXTyped', Accounted,
           UNCHANGED <<inbox, message, placed, reasons>>,
           job'.pc \in Undone => job.pc \in Undone /\ job'.sig = job.sig
    PROVE  Accounted'
<1> SUFFICES ASSUME NEW s \in DXSignals
             PROVE  placed'[s] + Chances(s)' <= 1 + reasons'[s]
  BY Zenon DEF Accounted
<1>1. Waits(s)' = Waits(s) /\ Queued(inbox, s)' = Queued(inbox, s)
  BY Zenon DEF Waits, Queued
<1>2. InDispatch(s)' <= InDispatch(s) /\ InDispatch(s) \in Nat /\ InDispatch(s)' \in Nat
  BY DEF InDispatch
<1>3. Cardinality(Queued(inbox, s)) \in Nat /\ Waits(s) \in Nat
      /\ placed[s] \in Nat /\ reasons[s] \in Nat
  BY QueuedIsFinite, Zenon DEF DXTyped, Waits
<1>4. placed[s] + Chances(s) <= 1 + reasons[s]
  BY Zenon DEF Accounted
<1> QED
  BY <1>1, <1>2, <1>3, <1>4, SMTT(30) DEF Chances

\* A delivery turns one chance into another, and comes with a reason when the signal was
\* not waiting (Subscriber.Subscribe).
LEMMA AccountedRedeliver ==
    ASSUME DXTyped, DXTyped', Accounted, NEW t \in DXSignals, Redeliver(t),
           \/ message[t].state = "waiting" /\ reasons' = reasons
           \/ reasons' = [reasons EXCEPT ![t] = @ + 1]
    PROVE  Accounted'
<1> SUFFICES ASSUME NEW s \in DXSignals
             PROVE  placed'[s] + Chances(s)' <= 1 + reasons'[s]
  BY Zenon DEF Accounted
<1> DEFINE n == message[t].n + 1
<1>1. InDispatch(s)' = InDispatch(s) /\ InDispatch(s) \in Nat /\ placed' = placed
  BY Zenon DEF InDispatch, Redeliver
<1>2. n \in Nat /\ inbox \in Seq(Deliveries) /\ inbox' = Append(inbox, <<t, n>>)
  <2>1. message[t].n \in Nat
    BY MessageFields, Zenon
  <2> QED
    BY <2>1, SMTT(30) DEF DXTyped, Redeliver
<1>3. Cardinality(Queued(inbox, s)') = Cardinality(Queued(inbox, s)) + (IF t = s THEN 1 ELSE 0)
  <2>1. Queued(inbox, s)' = Queued(inbox', s)
    BY Zenon DEF Queued
  <2>a. Arrived(inbox, inbox', t)
    BY <1>2, Zenon DEF Arrived
  <2>2. Cardinality(Queued(inbox', s)) = Cardinality(Queued(inbox, s)) + (IF t = s THEN 1 ELSE 0)
    BY <2>a, QueuedAppend, SMTT(30)
  <2> QED
    BY <2>1, <2>2, Zenon
<1>4. Waits(s)' = IF t = s THEN 0 ELSE Waits(s)
  BY Zenon DEF Waits, Redeliver, DXTyped
<1>5. Cardinality(Queued(inbox, s)) \in Nat /\ Waits(s) \in Nat
      /\ placed[s] \in Nat /\ reasons[s] \in Nat
  BY QueuedIsFinite, Zenon DEF DXTyped, Waits
<1>6. placed[s] + Chances(s) <= 1 + reasons[s]
  BY Zenon DEF Accounted
<1>7. t = s => (Waits(s) = 1 /\ reasons'[s] = reasons[s]) \/ reasons'[s] = reasons[s] + 1
  BY ZenonT(40) DEF Waits, DXTyped
<1>8. t # s => reasons'[s] = reasons[s]
  BY Zenon DEF DXTyped
<1> QED
  BY <1>1, <1>3, <1>4, <1>5, <1>6, <1>7, <1>8 DEF Chances

\* An answer to the stream makes at most its own signal wait (nats.Msg).
LEMMA AnswerWaits ==
    ASSUME DXTyped, NEW t \in DXSignals, NEW state, Answer(t, state), NEW s \in DXSignals
    PROVE  /\ s # t => Waits(s)' = Waits(s)
           /\ state # "waiting" => Waits(s)' <= Waits(s)
           /\ Waits(s) \in {0, 1} /\ Waits(s)' \in {0, 1}
<1> QED
  BY DEF DXTyped, Answer, Waits, Settled

\* Dispatch takes a delivery from the inbox: it is in dispatch now, or it was answered
\* (Subscriber.dispatch).
LEMMA AccountedDispatch ==
    ASSUME DXTyped, DXTyped', Accounted, DXDispatch
    PROVE  Accounted'
<1> SUFFICES ASSUME NEW s \in DXSignals
             PROVE  placed'[s] + Chances(s)' <= 1 + reasons'[s]
  BY Zenon DEF Accounted
<1> DEFINE t == Head(inbox)[1]
<1>1. /\ job.pc = "idle" /\ inbox # << >> /\ inbox' = Tail(inbox)
      /\ placed' = placed /\ reasons' = reasons /\ t \in DXSignals
      /\ inbox \in Seq(Deliveries)
  <2>1. inbox # << >> /\ inbox \in Seq(Deliveries)
    BY Zenon DEF DXDispatch, DXTyped
  <2>2. Head(inbox) \in Deliveries
    BY <2>1
  <2> QED
    BY <2>1, <2>2, Zenon DEF DXDispatch, Deliveries
<1>a. Queued(inbox, s)' = Queued(Tail(inbox), s) /\ Tail(inbox) \in Seq(Deliveries)
  BY <1>1 DEF Queued
<1>2. Cardinality(Queued(inbox, s)') = Cardinality(Queued(inbox, s)) - (IF t = s THEN 1 ELSE 0)
  <2>1. Cardinality(Queued(Tail(inbox), s))
            = Cardinality(Queued(inbox, s)) - (IF t = s THEN 1 ELSE 0)
    BY <1>1, QueuedTail, Zenon
  <2> QED
    BY <1>a, <2>1, Zenon
<1>3. Cardinality(Queued(inbox, s)) \in Nat /\ placed[s] \in Nat /\ reasons[s] \in Nat
      /\ Cardinality(Queued(inbox, s)') \in Nat
  <2>1. Cardinality(Queued(inbox, s)) \in Nat /\ Cardinality(Queued(Tail(inbox), s)) \in Nat
    BY <1>1, <1>a, QueuedIsFinite, Zenon
  <2> QED
    BY <1>a, <2>1, Zenon DEF DXTyped
<1>4. placed[s] + Chances(s) <= 1 + reasons[s] /\ InDispatch(s) = 0
  BY <1>1, Zenon DEF Accounted, InDispatch, Undone
<1>b. Chances(s) = Waits(s) + Cardinality(Queued(inbox, s)) + InDispatch(s)
      /\ Chances(s)' = Waits(s)' + Cardinality(Queued(inbox, s)') + InDispatch(s)'
  BY Zenon DEF Chances
<1>c. placed'[s] = placed[s] /\ reasons'[s] = reasons[s]
  BY <1>1, Zenon
<1> HIDE DEF t
<1>5. CASE (Answer(t, "termed") \/ Answer(t, "waiting")) /\ job' = job
  <2>1. InDispatch(s)' = 0
    BY <1>1, <1>5, Zenon DEF InDispatch, Undone
  <2>2. (s # t => Waits(s)' = Waits(s)) /\ Waits(s) \in {0, 1} /\ Waits(s)' \in {0, 1}
    BY <1>1, <1>5, AnswerWaits, Zenon
  <2> QED
    BY <1>2, <1>3, <1>4, <1>b, <1>c, <2>1, <2>2
<1>6. CASE message' = message /\ job'.sig = t
  <2>1. InDispatch(s)' = 0 \/ (InDispatch(s)' = 1 /\ t = s)
    BY <1>6, Zenon DEF InDispatch
  <2>2. Waits(s)' = Waits(s) /\ Waits(s) \in {0, 1}
    BY <1>6, Zenon DEF Waits
  <2> QED
    BY <1>2, <1>3, <1>4, <1>b, <1>c, <2>1, <2>2
<1> QED
  BY <1>5, <1>6, Zenon DEF DXDispatch, NoJob, t

\* An order that is placed uses up the chance of its delivery, unless its answer is lost,
\* which is a reason (Client.placeOrder).
LEMMA AccountedPlace ==
    ASSUME DXTyped, DXTyped', Shed, Accounted, placeOrder
    PROVE  Accounted'
<1> SUFFICES ASSUME NEW s \in DXSignals
             PROVE  placed'[s] + Chances(s)' <= 1 + reasons'[s]
  BY Zenon DEF Accounted
<1>1. job.pc = "execute" /\ job.sig \in DXSignals /\ Ended(0)
      /\ inbox' = inbox /\ message' = message
  BY ExecutionEnds, Zenon DEF placeOrder, DXTyped
<1>2. job'.sig = job.sig /\ job'.pc \in {"fill", "reject", "attempt", "login"}
  BY <1>1, EndedJob, Zenon
<1>3. Waits(s)' = Waits(s) /\ Queued(inbox, s)' = Queued(inbox, s)
  BY <1>1, Zenon DEF Waits, Queued
<1>4. Cardinality(Queued(inbox, s)) \in Nat /\ Waits(s) \in Nat
      /\ placed[s] \in Nat /\ reasons[s] \in Nat
  BY QueuedIsFinite, Zenon DEF DXTyped, Waits
<1>5. placed[s] + Chances(s) <= 1 + reasons[s]
  BY Zenon DEF Accounted
<1>6. InDispatch(s) = IF job.sig = s THEN 1 ELSE 0
  BY <1>1, Zenon DEF InDispatch, Undone
<1>7. InDispatch(s)' = IF job.sig = s /\ job'.pc # "fill" THEN 1 ELSE 0
  BY <1>2, Zenon DEF InDispatch, Undone
<1>8. \/ placed' = placed /\ reasons' = reasons
      \/ /\ placed' = [placed EXCEPT ![job.sig] = @ + 1]
         /\ \/ job'.pc = "fill" /\ reasons' = reasons
            \/ reasons' = [reasons EXCEPT ![job.sig] = @ + 1]
  <2>1. Succeed(0) => job'.pc = "fill"
    <3>1. ASSUME Succeed(0)
          PROVE  job' = [pc |-> "fill", sig |-> job.sig, attempt |-> 0, via |-> "none",
                         left |-> {}, count |-> 0]
      BY <1>1, <3>1, SucceedEnds, Zenon
    <3> QED
      BY <3>1
  <2> QED
    BY <2>1, Zenon DEF placeOrder
<1>9. \/ placed'[s] = placed[s] /\ reasons'[s] = reasons[s]
      \/ /\ placed'[s] = placed[s] + 1 /\ job.sig = s
         /\ \/ job'.pc = "fill" /\ reasons'[s] = reasons[s]
            \/ reasons'[s] = reasons[s] + 1
  <2>1. placed \in [DXSignals -> Nat] /\ reasons \in [DXSignals -> Nat]
    BY Zenon DEF DXTyped
  <2> QED
    BY <1>1, <1>8, <2>1, Zenon
<1>10. Chances(s) = Waits(s) + Cardinality(Queued(inbox, s)) + InDispatch(s)
       /\ Chances(s)' = Waits(s)' + Cardinality(Queued(inbox, s)') + InDispatch(s)'
  BY Zenon DEF Chances
<1> QED
  BY <1>3, <1>4, <1>5, <1>6, <1>7, <1>9, <1>10, SMTT(30)

\* A refusal hands the chance back to the stream (Subscriber.dispatch).
LEMMA AccountedAnswer ==
    ASSUME DXTyped, DXTyped', Accounted, AckOrNak
    PROVE  Accounted'
<1> SUFFICES ASSUME NEW s \in DXSignals
             PROVE  placed'[s] + Chances(s)' <= 1 + reasons'[s]
  BY Zenon DEF Accounted
<1>1. job.sig \in DXSignals /\ job.pc \in {"ack", "nak"} /\ UNCHANGED <<inbox, placed, reasons>>
  BY Zenon DEF AckOrNak, DXTyped
<1>2. InDispatch(s)' = 0
  BY Zenon DEF AckOrNak, InDispatch, NoJob, Undone
<1>3. Cardinality(Queued(inbox, s)) \in Nat /\ placed[s] \in Nat /\ reasons[s] \in Nat
      /\ Queued(inbox, s)' = Queued(inbox, s)
  BY <1>1, QueuedIsFinite, Zenon DEF DXTyped, Queued
<1>4. placed[s] + Chances(s) <= 1 + reasons[s]
  BY Zenon DEF Accounted
<1>5. InDispatch(s) = IF job.sig = s /\ job.pc = "nak" THEN 1 ELSE 0
  BY <1>1, Zenon DEF InDispatch, Undone
<1>6. Waits(s)' <= Waits(s) + InDispatch(s) /\ Waits(s)' \in {0, 1} /\ Waits(s) \in {0, 1}
  <2>1. CASE message' = message
    BY <1>5, <2>1 DEF Waits
  <2>2. CASE Answer(job.sig, IF job.pc = "ack" THEN "acked" ELSE "waiting")
    <3>1. CASE job.pc = "ack"
      <4>1. Answer(job.sig, "acked")
        BY <2>2, <3>1, Zenon
      <4> QED
        BY <1>1, <1>5, <3>1, <4>1, AnswerWaits
    <3>2. CASE job.pc = "nak"
      <4>1. Answer(job.sig, "waiting")
        BY <2>2, <3>2, Zenon
      <4> QED
        BY <1>1, <1>5, <3>2, <4>1, AnswerWaits
    <3> QED
      BY <1>1, <3>1, <3>2, Zenon
  <2> QED
    BY <2>1, <2>2, Zenon DEF AckOrNak
<1> QED
  BY <1>1, <1>2, <1>3, <1>4, <1>5, <1>6, SMTT(30) DEF Chances

\* A restart puts every delivery it loses back at the stream, with a reason
\* (Subscriber.Subscribe).
LEMMA AccountedRestart ==
    ASSUME DXTyped, DXTyped', Accounted, DXRestarts
    PROVE  Accounted'
<1> SUFFICES ASSUME NEW s \in DXSignals
             PROVE  placed'[s] + Chances(s)' <= 1 + reasons'[s]
  BY Zenon DEF Accounted
<1>1. InDispatch(s)' = 0 /\ placed' = placed
  BY Zenon DEF DXRestarts, InDispatch, NoJob, Undone
<1>2. Cardinality(Queued(inbox, s)') = 0
  BY QueuedNone, Zenon DEF DXRestarts, Queued
<1>3. Cardinality(Queued(inbox, s)) \in Nat /\ placed[s] \in Nat /\ reasons[s] \in Nat
      /\ InDispatch(s) \in Nat
  BY QueuedIsFinite, Zenon DEF DXTyped, InDispatch
<1>4. placed[s] + Chances(s) <= 1 + reasons[s]
  BY Zenon DEF Accounted
<1>5. \/ Waits(s)' = Waits(s) /\ reasons'[s] = reasons[s]
      \/ Waits(s)' = 1 /\ Waits(s) = 0 /\ reasons'[s] = reasons[s] + 1
  <2>1. CASE message[s].state = "flight"
    BY <2>1 DEF DXRestarts, Waits, DXTyped
  <2>2. CASE message[s].state # "flight"
    BY <2>2, Zenon DEF DXRestarts, Waits, DXTyped
  <2> QED
    BY <2>1, <2>2, Zenon
<1>6. Waits(s) \in {0, 1}
  BY Zenon DEF Waits
<1> QED
  BY <1>1, <1>2, <1>3, <1>4, <1>5, <1>6 DEF Chances

\* No step orders more than there are reasons for (apps/dxtrade).
LEMMA AccountedStep ==
    ASSUME DXTyped, DXTyped', Shed, Accounted, DXNext
    PROVE  Accounted'
<1>1. ASSUME NEW s \in DXSignals, Deliver(s) \/ AckWaitExpires(s)
      PROVE  Accounted'
  BY <1>1, AccountedRedeliver, Zenon DEF Deliver, AckWaitExpires
<1>2. ASSUME Attempt \/ LoginAgain
      PROVE  Accounted'
  <2>1. job.pc \in Undone /\ job'.sig = job.sig /\ UNCHANGED <<inbox, message, placed, reasons>>
    <3>1. job \in Jobs
      BY Zenon DEF DXTyped
    <3>2. /\ [job EXCEPT !.pc = "execute", !.via = "breaker"].sig = job.sig
          /\ [job EXCEPT !.attempt = @ + 1].sig = job.sig
      BY <3>1, Zenon DEF Jobs
    <3>3. JobAt("reject").sig = job.sig /\ [JobAt("execute") EXCEPT !.via = "direct"].sig = job.sig
      BY JobAtIs, Zenon
    <3> QED
      BY <1>2, <3>2, <3>3, Zenon DEF Attempt, LoginAgain, Undone
  <2> QED
    BY <2>1, AccountedSame, Zenon
<1>3. ASSUME LoginFirst \/ ListPositions
      PROVE  Accounted'
  <2>1. job.pc = "execute" /\ UNCHANGED <<inbox, message, placed, reasons>>
    BY <1>3, Zenon DEF LoginFirst, ListPositions
  <2>2. job'.sig = job.sig
    <3>1. \/ Ended(0)
          \/ job' = job
          \/ job' = [job EXCEPT !.pc = "walk", !.left = positions]
      BY <1>3, ExecutionEnds, Zenon
    <3>2. [job EXCEPT !.pc = "walk", !.left = positions].sig = job.sig
      BY Zenon DEF DXTyped, Jobs
    <3>3. Ended(0) => job'.sig = job.sig
      BY <2>1, EndedJob, Zenon
    <3> QED
      BY <3>1, <3>2, <3>3, Zenon
  <2> QED
    BY <2>1, <2>2, AccountedSame, Zenon DEF Undone
<1>4. ASSUME DeleteNext \/ DeletedAll
      PROVE  Accounted'
  <2>1. job'.pc \in {"walk", "fill"} /\ UNCHANGED <<inbox, message, placed, reasons>>
    <3>1. job \in Jobs
      BY Zenon DEF DXTyped
    <3>2. DeletedAll => job'.pc = "fill"
      BY ExecutionEnds, Zenon
    <3>3. DeleteNext => job'.pc = "walk"
      BY <3>1, Zenon DEF DeleteNext, Jobs
    <3> QED
      BY <1>4, <3>2, <3>3, Zenon DEF DeleteNext, DeletedAll
  <2> QED
    BY <2>1, AccountedSame, Zenon DEF Undone
<1>5. ASSUME publishFill
      PROVE  Accounted'
  <2>1. job.pc \in {"fill", "reject"} /\ UNCHANGED <<inbox, message, placed, reasons>>
        /\ job' = JobAt(IF job.pc = "fill" THEN "ack" ELSE "nak")
    BY <1>5, Zenon DEF publishFill
  <2>2. job'.pc = (IF job.pc = "fill" THEN "ack" ELSE "nak") /\ job'.sig = job.sig
    BY <2>1, JobAtIs, Zenon DEF Pcs
  <2> QED
    BY <2>1, <2>2, AccountedSame, Zenon DEF Undone
<1>6. ASSUME SessionExpires \/ BreakerTimer
      PROVE  Accounted'
  <2>1. job'.pc = job.pc /\ job'.sig = job.sig /\ UNCHANGED <<inbox, message, placed, reasons>>
    <3>1. [job EXCEPT !.via = "uncounted"].pc = job.pc /\ [job EXCEPT !.via = "uncounted"].sig = job.sig
      BY Zenon DEF DXTyped, Jobs
    <3> QED
      BY <1>6, <3>1, Zenon DEF SessionExpires, BreakerTimer
  <2> QED
    BY <2>1, AccountedSame, Zenon
<1> QED
  BY <1>1, <1>2, <1>3, <1>4, <1>5, <1>6, AccountedDispatch, AccountedPlace, AccountedAnswer,
     AccountedRestart, Zenon
  DEF DXNext

-----------------------------------------------------------------------------
(* Fills. *)

\* What the broker has done stays done, so that a fill stays true
\* (Client.placeOrder, Client.closePositions).
LEMMA BrokerGrows ==
    ASSUME DXTyped, DXNext
    PROVE  /\ action' = action
           /\ \A s \in DXSignals : placed'[s] >= placed[s] /\ closedBy'[s] >= closedBy[s]
<1>0. /\ placed \in [DXSignals -> Nat] /\ closedBy \in [DXSignals -> Nat]
      /\ job.pc # "idle" => job.sig \in DXSignals
  BY Zenon DEF DXTyped
<1>1. CASE placeOrder
  <2>1. action' = action /\ closedBy' = closedBy /\ job.pc = "execute"
        /\ (placed' = placed \/ placed' = [placed EXCEPT ![job.sig] = @ + 1])
    BY <1>1, Zenon DEF placeOrder
  <2> QED
    BY <1>0, <2>1
<1>2. CASE DeleteNext
  <2>1. action' = action /\ placed' = placed /\ job.pc = "walk"
        /\ (closedBy' = closedBy \/ closedBy' = [closedBy EXCEPT ![job.sig] = @ + 1])
    BY <1>2, Zenon DEF DeleteNext
  <2> QED
    BY <1>0, <2>1
<1>3. ASSUME ~ placeOrder, ~ DeleteNext
      PROVE  UNCHANGED <<action, placed, closedBy>>
  BY <1>3, Zenon
  DEF DXNext, Deliver, AckWaitExpires, Redeliver, DXDispatch, Attempt, LoginFirst, LoginAgain,
      ListPositions, DeletedAll, publishFill, AckOrNak, SessionExpires, BreakerTimer, DXRestarts
<1> QED
  BY <1>0, <1>1, <1>2, <1>3

\* What is about to be reported has happened (Client.Execute).
LEMMA BackedStep ==
    ASSUME DXTyped, DXTyped', Shed, Backed, DXNext
    PROVE  Backed'
<1>0. /\ action' = action
      /\ \A s \in DXSignals : placed'[s] >= placed[s] /\ closedBy'[s] >= closedBy[s]
      /\ \A s \in DXSignals : /\ placed[s] \in Nat /\ placed'[s] \in Nat
                               /\ closedBy[s] \in Nat /\ closedBy'[s] \in Nat
  <2>1. \A s \in DXSignals : /\ placed[s] \in Nat /\ placed'[s] \in Nat
                             /\ closedBy[s] \in Nat /\ closedBy'[s] \in Nat
    BY Zenon DEF DXTyped
  <2> QED
    BY <2>1, BrokerGrows, Zenon
<1>1. ASSUME job' = job
      PROVE  Backed'
  <2>1. job.count \in Nat /\ (job.pc # "idle" => job.sig \in DXSignals)
    BY JobFields, Zenon DEF DXTyped
  <2> QED
    BY <1>0, <1>1, <2>1, SMTT(30) DEF Backed
<1>2. ASSUME job'.count = 0, job'.pc \notin {"walk", "fill"}
      PROVE  Backed'
  BY <1>2, Zenon DEF Backed
<1>3. ASSUME NEW s \in DXSignals, Deliver(s) \/ AckWaitExpires(s)
      PROVE  Backed'
  <2>1. job' = job
    BY <1>3, Zenon DEF Deliver, AckWaitExpires, Redeliver
  <2> QED
    BY <1>1, <2>1, Zenon
<1>4. CASE DXDispatch
  <2>1. job' = job \/ (job'.pc = "attempt" /\ job'.count = 0)
    BY <1>4, Zenon DEF DXDispatch, NoJob
  <2> QED
    BY <1>1, <1>2, <2>1, Zenon
<1>5. CASE Attempt
  <2>1. job.pc = "attempt" /\ job.count = 0
    BY <1>5, Zenon DEF Attempt, Backed
  <2>2. job'.pc \in {"execute", "attempt", "reject"} /\ job'.count = 0
    <3>1. job \in Jobs
      BY Zenon DEF DXTyped
    <3>2. CASE job' = [job EXCEPT !.pc = "execute", !.via = "breaker"]
      BY <2>1, <3>1, <3>2, Zenon DEF Jobs
    <3>3. CASE job' = [job EXCEPT !.attempt = @ + 1]
      BY <2>1, <3>1, <3>3, Zenon DEF Jobs
    <3>4. CASE job' = JobAt("reject")
      BY <3>4, JobAtIs, Zenon
    <3> QED
      BY <1>5, <3>2, <3>3, <3>4, Zenon DEF Attempt
  <2> QED
    BY <1>2, <2>2, Zenon
<1>6. CASE LoginAgain
  <2>1. job'.pc \in {"execute", "reject"} /\ job'.count = 0
    <3>1. [JobAt("execute") EXCEPT !.via = "direct"]
            = [pc |-> "execute", sig |-> job.sig, attempt |-> 0, via |-> "direct", left |-> {},
               count |-> 0]
      BY JobAtIs, SMTT(30)
    <3>2. JobAt("reject") = [pc |-> "reject", sig |-> job.sig, attempt |-> 0, via |-> "none",
                             left |-> {}, count |-> 0]
      BY JobAtIs, Zenon
    <3> QED
      BY <1>6, <3>1, <3>2 DEF LoginAgain
  <2> QED
    BY <1>2, <2>1, Zenon
<1>7. CASE LoginFirst
  <2>1. job' = job \/ Fail
    BY <1>7, Zenon DEF LoginFirst
  <2>2. Fail => job'.pc \in {"reject", "attempt"} /\ job'.count = 0
    BY <1>7, FailEnds, SMTT(30) DEF LoginFirst
  <2> QED
    BY <1>1, <1>2, <2>1, <2>2, Zenon
<1>8. CASE placeOrder
  <2>1. job.pc = "execute" /\ job.sig \in DXSignals /\ Ended(0) /\ action[job.sig] = "open"
    BY <1>8, ExecutionEnds, Zenon DEF placeOrder, DXTyped
  <2>2. job'.sig = job.sig /\ job'.count = 0 /\ job'.pc \in {"fill", "reject", "attempt", "login"}
    BY <2>1, EndedJob, Zenon
  <2>3. job'.pc = "fill" => placed'[job.sig] >= 1
    <3>1. Fail => job'.pc # "fill"
      BY <2>1, FailEnds
    <3>2. Unauthorized => job'.pc # "fill"
      BY <2>1, UnauthorizedEnds, SMTT(30)
    <3> QED
      BY <1>8, <2>1, <3>1, <3>2 DEF placeOrder, DXTyped
  <2> QED
    BY <1>0, <2>1, <2>2, <2>3, Zenon DEF Backed
<1>9. CASE ListPositions
  <2>1. job.pc = "execute" /\ job.sig \in DXSignals /\ action[job.sig] = "close" /\ job.count = 0
    BY <1>9, Zenon DEF ListPositions, DXTyped, Backed
  <2>2. job'.sig = job.sig /\ job'.count = 0 /\ job'.pc \in {"walk", "fill", "reject", "attempt", "login"}
    <3>1. Ended(0) \/ job' = [job EXCEPT !.pc = "walk", !.left = positions]
      BY <1>9, ExecutionEnds, Zenon
    <3>2. CASE job' = [job EXCEPT !.pc = "walk", !.left = positions]
      BY <2>1, <3>2, Zenon DEF DXTyped, Jobs
    <3>3. CASE Ended(0)
      BY <2>1, <3>3, EndedJob, SMTT(30)
    <3> QED
      BY <3>1, <3>2, <3>3, Zenon
  <2> QED
    BY <1>0, <2>1, <2>2 DEF Backed
<1>10. CASE DeleteNext
  <2>0. job \in Jobs /\ job.count \in Nat /\ closedBy \in [DXSignals -> Nat]
    BY JobFields, Zenon DEF DXTyped
  <2>1. job.pc = "walk" /\ job.sig \in DXSignals /\ action[job.sig] = "close"
        /\ job.count <= closedBy[job.sig] /\ job.count \in Nat
    BY <1>10, <2>0, Zenon DEF DeleteNext, DXTyped, Backed
  <2>2. job'.pc = "walk" /\ job'.sig = job.sig /\ job'.count <= closedBy'[job.sig]
    <3>1. CASE /\ closedBy' = [closedBy EXCEPT ![job.sig] = @ + 1]
               /\ \E t \in job.left, counted \in {0, 1} :
                    job' = [job EXCEPT !.left = @ \ {t}, !.count = @ + counted]
      <4>1. PICK t \in job.left, counted \in {0, 1} :
                job' = [job EXCEPT !.left = @ \ {t}, !.count = @ + counted]
        BY <3>1, Zenon
      <4>2. job'.pc = job.pc /\ job'.sig = job.sig /\ job'.count = job.count + counted
        BY <2>0, <4>1, Zenon DEF Jobs
      <4>3. closedBy'[job.sig] = closedBy[job.sig] + 1 /\ closedBy[job.sig] \in Nat
        BY <2>0, <2>1, <3>1, Zenon
      <4> QED
        BY <2>1, <4>2, <4>3
    <3>2. CASE closedBy' = closedBy /\ \E t \in job.left : job' = [job EXCEPT !.left = @ \ {t}]
      <4>1. job'.pc = job.pc /\ job'.sig = job.sig /\ job'.count = job.count
        BY <2>0, <3>2, Zenon DEF Jobs
      <4> QED
        BY <2>1, <3>2, <4>1, Zenon
    <3> QED
      BY <1>10, <3>1, <3>2, Zenon DEF DeleteNext
  <2> QED
    BY <1>0, <2>1, <2>2, Zenon DEF Backed
<1>11. CASE DeletedAll
  <2>1. job.pc = "walk" /\ job.sig \in DXSignals /\ action[job.sig] = "close"
        /\ job.count <= closedBy[job.sig] /\ job.count \in Nat /\ closedBy' = closedBy
    <3>1. job.count \in Nat
      BY JobFields, Zenon DEF DXTyped
    <3> QED
      BY <1>11, <3>1, Zenon DEF DeletedAll, DXTyped, Backed
  <2>2. job'.pc = "fill" /\ job'.sig = job.sig /\ job'.count = job.count
    <3>1. Succeed(job.count)
      BY <1>11, Zenon DEF DeletedAll
    <3>2. job' = [pc |-> "fill", sig |-> job.sig, attempt |-> 0, via |-> "none", left |-> {},
                  count |-> job.count]
      BY <2>1, <3>1, SucceedEnds, Zenon
    <3> QED
      BY <3>2, Zenon
  <2> QED
    BY <1>0, <2>1, <2>2, Zenon DEF Backed
<1>12. CASE publishFill
  <2>1. (IF job.pc = "fill" THEN "ack" ELSE "nak") \in Pcs
        /\ job' = JobAt(IF job.pc = "fill" THEN "ack" ELSE "nak") /\ job.pc # "idle"
    BY <1>12, Zenon DEF publishFill, Pcs
  <2>2. job'.pc \in {"ack", "nak"} /\ job'.count = 0
    <3>1. JobAt("ack").pc = "ack" /\ JobAt("ack").count = 0 /\ JobAt("nak").pc = "nak"
          /\ JobAt("nak").count = 0
      BY JobAtIs, Zenon
    <3> QED
      BY <2>1, <3>1, Zenon
  <2> QED
    BY <1>2, <2>2, Zenon
<1>13. CASE AckOrNak \/ DXRestarts
  <2>1. job'.pc = "idle" /\ job'.count = 0
    BY <1>13, SMTT(30) DEF AckOrNak, DXRestarts, NoJob
  <2> QED
    BY <1>2, <2>1, Zenon
<1>14. CASE SessionExpires \/ BreakerTimer
  <2>1. job'.pc = job.pc /\ job'.sig = job.sig /\ job'.count = job.count
    <3>1. /\ [job EXCEPT !.via = "uncounted"].pc = job.pc
          /\ [job EXCEPT !.via = "uncounted"].sig = job.sig
          /\ [job EXCEPT !.via = "uncounted"].count = job.count
      BY Zenon DEF DXTyped, Jobs
    <3> QED
      BY <1>14, <3>1, Zenon DEF SessionExpires, BreakerTimer
  <2>2. placed' = placed /\ closedBy' = closedBy
    BY <1>14, Zenon DEF SessionExpires, BreakerTimer
  <2> QED
    BY <1>0, <2>1, <2>2, Zenon DEF Backed
<1> QED
  BY <1>3, <1>4, <1>5, <1>6, <1>7, <1>8, <1>9, <1>10, <1>11, <1>12, <1>13, <1>14, Zenon DEF DXNext

\* A fill that was published stays true, and one that is published is true (publishFill).
LEMMA FillsStep ==
    ASSUME DXTyped, DXTyped', Backed, FillsAreBacked, DXNext
    PROVE  FillsAreBacked'
<1>0. /\ action' = action
      /\ \A s \in DXSignals : placed'[s] >= placed[s] /\ closedBy'[s] >= closedBy[s]
      /\ \A s \in DXSignals : /\ placed[s] \in Nat /\ placed'[s] \in Nat
                               /\ closedBy[s] \in Nat /\ closedBy'[s] \in Nat
  <2>1. \A s \in DXSignals : /\ placed[s] \in Nat /\ placed'[s] \in Nat
                             /\ closedBy[s] \in Nat /\ closedBy'[s] \in Nat
    BY Zenon DEF DXTyped
  <2> QED
    BY <2>1, BrokerGrows, Zenon
<1> SUFFICES ASSUME NEW s \in DXSignals, NEW fill \in reports'[s], fill.status = "filled"
             PROVE  IF action[s] = "open" THEN placed'[s] >= 1 ELSE fill.count <= closedBy'[s]
  BY <1>0, Zenon DEF FillsAreBacked
<1>1. CASE fill \in reports[s]
  <2>1. IF action[s] = "open" THEN placed[s] >= 1 ELSE fill.count <= closedBy[s]
    BY <1>1, Zenon DEF FillsAreBacked
  <2>2. fill.count \in Nat
    BY <1>1, SMTT(30) DEF DXTyped
  <2> QED
    BY <1>0, <2>1, <2>2
<1>2. CASE fill \notin reports[s]
  <2>1. publishFill
    BY <1>2, Zenon
    DEF DXNext, Deliver, AckWaitExpires, Redeliver, DXDispatch, Attempt, LoginFirst, LoginAgain,
        placeOrder, ListPositions, DeleteNext, DeletedAll, AckOrNak, SessionExpires, BreakerTimer,
        DXRestarts
  <2>2. job.sig = s /\ job.pc = "fill" /\ fill.count = job.count
    <3>1. reports \in [DXSignals -> SUBSET [status : {"filled", "rejected"}, count : Nat]]
          /\ job.pc \in {"fill", "reject"}
      BY <2>1, Zenon DEF publishFill, DXTyped
    <3> DEFINE new == IF job.pc = "fill" THEN Report("filled", job.count) ELSE Report("rejected", 0)
    <3>2. reports' = [reports EXCEPT ![job.sig] = @ \cup {new}] \/ reports' = reports
      BY <2>1, Zenon DEF publishFill
    <3>3. new.status = "filled" => job.pc = "fill" /\ new.count = job.count
      BY <3>1, Zenon DEF Report
    <3> HIDE DEF new
    <3>4. job.sig = s /\ fill = new
      BY <1>2, <3>1, <3>2
    <3> QED
      BY <3>3, <3>4, Zenon
  <2>3. placed' = placed /\ closedBy' = closedBy
    BY <2>1, Zenon DEF publishFill
  <2> QED
    BY <2>2, <2>3, Zenon DEF Backed
<1> QED
  BY <1>1, <1>2, Zenon

-----------------------------------------------------------------------------
(* The breaker. *)

\* A step that leaves the breaker and the failures alone keeps the books when it makes
\* nothing pending and starts no execution (Client.Execute).
LEMMA ShedSame ==
    ASSUME DXTyped, DXTyped', Shed, UNCHANGED <<breaker, failing>>,
           job'.pc \in {"execute", "walk"} =>
              \/ job.pc \in {"execute", "walk"} /\ job'.via = job.via
              \/ job.pc = "login" /\ job'.via = "direct"
              \/ job'.via = "breaker" /\ breaker.state # "open",
           job'.pc # "login" \/ job.pc = "login"
    PROVE  Shed'
<1>1. Pending' <= Pending /\ Pending \in Nat /\ Pending' \in Nat
  BY DEF Pending, Shed
<1>2. failing \in Nat /\ breaker.fails \in Nat
  BY Zenon DEF DXTyped
<1> QED
  BY <1>1, <1>2, DXAssumption, SMTT(30) DEF Shed

\* Time: the failures of a closed breaker are forgotten with the execution under way, and
\* an open one lets one execution try (NewClient).
LEMMA ShedTimer ==
    ASSUME DXTyped, DXTyped', Shed, BreakerTimer
    PROVE  Shed'
<1>1. failing' \in Nat /\ failing' <= 0 /\ Pending' \in Nat /\ Pending' <= 2
  BY DEF BreakerTimer, Pending
<1>2. CASE breaker.state = "open" /\ breaker' = HalfOpen /\ job' = job
  <2>1. breaker'.state = "half" /\ breaker'.fails = 0
    BY <1>2, Zenon DEF HalfOpen
  <2>2. job'.pc \in {"execute", "walk"} => job'.via # "none"
    BY <1>2, Zenon DEF Shed
  <2>3. failing' + Pending' <= 2 /\ 0 < TripAt
    <3>1. \A a, b \in Nat : a <= 0 /\ b <= 2 => a + b <= 2
      OBVIOUS
    <3>2. failing' + Pending' <= 2
      BY <1>1, <3>1, Zenon
    <3> QED
      BY <3>2, DXAssumption
  <2> QED
    BY <2>1, <2>2, <2>3, Zenon DEF Shed
<1>3. CASE breaker.state = "closed" /\ breaker' = Closed(0)
  <2>1. job'.pc \in {"execute", "walk"} => job'.via \notin {"none", "breaker"}
    <3>1. job' = IF job.pc \in {"execute", "walk"} /\ job.via = "breaker"
                 THEN [job EXCEPT !.via = "uncounted"] ELSE job
      BY <1>3, Zenon DEF BreakerTimer
    <3>2. [job EXCEPT !.via = "uncounted"].via = "uncounted"
      BY Zenon DEF DXTyped, Jobs
    <3> QED
      BY <3>1, <3>2, Zenon DEF Shed
  <2>2. breaker'.state = "closed" /\ breaker'.fails = 0
    BY <1>3, Zenon DEF Closed
  <2>3. failing' + Pending' <= 2 * 0 + 2 /\ 0 < TripAt
    <3>1. \A a, b \in Nat : a <= 0 /\ b <= 2 => a + b <= 2
      OBVIOUS
    <3>2. failing' + Pending' <= 2
      BY <1>1, <3>1, Zenon
    <3> QED
      BY <3>2, DXAssumption
  <2> QED
    BY <2>1, <2>2, <2>3, Zenon DEF Shed
<1> QED
  BY <1>2, <1>3, Zenon DEF BreakerTimer

\* No step spends failures the breaker has no room for (apps/dxtrade).
LEMMA ShedStep ==
    ASSUME DXTyped, DXTyped', Shed, DXNext
    PROVE  Shed'
<1>1. ASSUME NEW s \in DXSignals, Deliver(s) \/ AckWaitExpires(s)
      PROVE  Shed'
  <2>1. UNCHANGED <<breaker, failing, job>>
    BY <1>1, Zenon DEF Deliver, AckWaitExpires, Redeliver
  <2> QED
    BY <2>1, ShedSame, Zenon
<1>2. CASE DXDispatch
  <2>1. UNCHANGED <<breaker, failing>> /\ (job' = job \/ job'.pc = "attempt")
    BY <1>2, Zenon DEF DXDispatch, NoJob
  <2> QED
    BY <2>1, ShedSame, Zenon
<1>3. CASE Attempt
  <2>1. UNCHANGED <<breaker, failing>> /\ job.pc = "attempt"
    BY <1>3, Zenon DEF Attempt
  <2>2. \/ job'.pc = "execute" /\ job'.via = "breaker" /\ breaker.state # "open"
        \/ job'.pc \in {"attempt", "reject"}
    <3>1. job \in Jobs
      BY Zenon DEF DXTyped
    <3>2. /\ [job EXCEPT !.pc = "execute", !.via = "breaker"].pc = "execute"
          /\ [job EXCEPT !.pc = "execute", !.via = "breaker"].via = "breaker"
          /\ [job EXCEPT !.attempt = @ + 1].pc = job.pc
      BY <3>1, Zenon DEF Jobs
    <3>3. JobAt("reject").pc = "reject"
      BY JobAtIs, Zenon
    <3> QED
      BY <1>3, <3>2, <3>3, Zenon DEF Attempt
  <2> QED
    BY <2>1, <2>2, ShedSame, Zenon
<1>4. CASE LoginAgain
  <2>1. UNCHANGED <<breaker, failing>> /\ job.pc = "login"
    BY <1>4, Zenon DEF LoginAgain
  <2>2. (job'.pc = "execute" /\ job'.via = "direct") \/ job'.pc = "reject"
    BY <1>4, JobAtIs DEF LoginAgain, Pcs
  <2> QED
    BY <2>1, <2>2, ShedSame, Zenon
<1>5. CASE LoginFirst
  <2>1. job.pc = "execute"
    BY <1>5, Zenon DEF LoginFirst
  <2>2. CASE UNCHANGED <<job, breaker, failing>>
    BY <2>1, <2>2, ShedSame, Zenon
  <2> QED
    BY <1>5, <2>1, <2>2, ExecutionEnds, EndedShed, Zenon
<1>6. CASE placeOrder
  <2>1. job.pc = "execute"
    BY <1>6, Zenon DEF placeOrder
  <2> QED
    BY <1>6, <2>1, ExecutionEnds, EndedShed, Zenon
<1>7. CASE ListPositions
  <2>1. job.pc = "execute"
    BY <1>7, Zenon DEF ListPositions
  <2>2. CASE job' = [job EXCEPT !.pc = "walk", !.left = positions] /\ UNCHANGED <<breaker, failing>>
    <3>1. job'.pc = "walk" /\ job'.via = job.via
      BY <2>2 DEF DXTyped
    <3> QED
      BY <2>1, <2>2, <3>1, ShedSame, Zenon
  <2> QED
    BY <1>7, <2>1, <2>2, ExecutionEnds, EndedShed, Zenon
<1>8. CASE DeleteNext
  <2>1. UNCHANGED <<breaker, failing>> /\ job.pc = "walk" /\ job'.pc = "walk" /\ job'.via = job.via
    <3>1. job \in Jobs
      BY Zenon DEF DXTyped
    <3>2. CASE \E t \in job.left, counted \in {0, 1} :
                    job' = [job EXCEPT !.left = @ \ {t}, !.count = @ + counted]
      BY <1>8, <3>1, <3>2, Zenon DEF DeleteNext, Jobs
    <3>3. CASE \E t \in job.left : job' = [job EXCEPT !.left = @ \ {t}]
      BY <1>8, <3>1, <3>3, Zenon DEF DeleteNext, Jobs
    <3> QED
      BY <1>8, <3>2, <3>3, Zenon DEF DeleteNext
  <2> QED
    BY <2>1, ShedSame, Zenon
<1>9. CASE DeletedAll
  <2>1. job.pc = "walk" /\ job.count \in Nat
    BY <1>9, JobFields, Zenon DEF DeletedAll, DXTyped
  <2> QED
    BY <1>9, <2>1, ExecutionEnds, EndedShed, Zenon
<1>10. CASE publishFill
  <2>1. UNCHANGED <<breaker, failing>> /\ job.pc # "idle"
        /\ job' = JobAt(IF job.pc = "fill" THEN "ack" ELSE "nak")
        /\ (IF job.pc = "fill" THEN "ack" ELSE "nak") \in Pcs
    BY <1>10, Zenon DEF publishFill, Pcs
  <2>2. job'.pc \in {"ack", "nak"}
    BY <2>1, JobAtIs, Zenon
  <2> QED
    BY <2>1, <2>2, ShedSame, Zenon
<1>11. CASE AckOrNak
  <2>1. UNCHANGED <<breaker, failing>> /\ job'.pc = "idle"
    BY <1>11, Zenon DEF AckOrNak, NoJob
  <2> QED
    BY <2>1, ShedSame, Zenon
<1>12. CASE SessionExpires
  <2>1. UNCHANGED <<breaker, failing, job>>
    BY <1>12, Zenon DEF SessionExpires
  <2> QED
    BY <2>1, ShedSame, Zenon
<1>13. CASE DXRestarts
  <2>1. failing' = 0 /\ breaker'.state = "closed" /\ breaker'.fails = 0 /\ job'.pc = "idle"
    BY <1>13, Zenon DEF DXRestarts, Closed, NoJob
  <2>2. Pending' = 0
    BY <2>1, Zenon DEF Pending
  <2> QED
    BY <2>1, <2>2, DXAssumption DEF Shed
<1> QED
  BY <1>1, <1>2, <1>3, <1>4, <1>5, <1>6, <1>7, <1>8, <1>9, <1>10, <1>11, <1>12, <1>13, ShedTimer,
     Zenon
  DEF DXNext

-----------------------------------------------------------------------------
(* The theorems. *)

\* The connector's invariant: types, orders and chances, fills, and the breaker's books
\* (apps/dxtrade).
THEOREM DXInvariant == DXSpec => []DXInv
<1>1. DXInit => DXInv
  <2> SUFFICES ASSUME DXInit
               PROVE  DXInv
    BY Zenon
  <2>1. DXTyped
    <3>1. job \in Jobs /\ job.pc = "idle"
      BY JobIs, JobPlaces, Zenon DEF DXInit, NoJob
    <3>2. message \in [DXSignals -> Messages]
      BY Zenon DEF DXInit, Messages
    <3>3. breaker \in [state : {"closed", "open", "half"}, fails : Nat]
      BY Zenon DEF DXInit, Closed
    <3>4. inbox \in Seq(Deliveries)
      BY DEF DXInit
    <3> QED
      BY <3>1, <3>2, <3>3, <3>4, Zenon DEF DXInit, DXTyped
  <2>2. Accounted
    <3>1. ASSUME NEW s \in DXSignals
          PROVE  placed[s] = 0 /\ reasons[s] = 0 /\ Waits(s) = 1 /\ InDispatch(s) = 0
      BY <3>1, Zenon DEF DXInit, Waits, InDispatch, NoJob, Undone
    <3>2. ASSUME NEW s \in DXSignals
          PROVE  Cardinality(Queued(inbox, s)) = 0
      BY QueuedNone, Zenon DEF DXInit
    <3> QED
      BY <3>1, <3>2, SMTT(30) DEF Accounted, Chances
  <2>3. FillsAreBacked /\ Backed
    BY Zenon DEF DXInit, FillsAreBacked, Backed, NoJob
  <2>4. Shed
    <3>1. failing = 0 /\ breaker.state = "closed" /\ breaker.fails = 0 /\ job.pc = "idle"
      BY Zenon DEF DXInit, NoJob, Closed
    <3>2. Pending = 0
      BY <3>1, Zenon DEF Pending
    <3>3. 0 < TripAt
      BY DXAssumption
    <3> QED
      BY <3>1, <3>2, <3>3, SMTT(30) DEF Shed
  <2> QED
    BY <2>1, <2>2, <2>3, <2>4, Zenon DEF DXInv
<1>2. DXInv /\ [DXNext]_dxvars => DXInv'
  <2>1. ASSUME DXInv, DXNext
        PROVE  DXInv'
    BY <2>1, TypedStep, AccountedStep, BackedStep, FillsStep, ShedStep, Zenon DEF DXInv
  <2>2. ASSUME DXInv, UNCHANGED dxvars
        PROVE  DXInv'
    BY <2>2, Zenon
    DEF dxvars, DXInv, DXTyped, Accounted, Chances, Waits, Queued, InDispatch, FillsAreBacked,
        Backed, Shed, Pending
  <2> QED
    BY <2>1, <2>2, Zenon
<1> QED
  BY <1>1, <1>2, PTL DEF DXSpec

\* However retries, logins, redeliveries and restarts fall, an order is placed again only
\* for a reason, one more order each, and no fill is reported without what it says
\* (Execute, placeOrder, closePositions, cancelOrders, dispatch).
THEOREM OrdersAccounted == DXSpec => []OrdersAreAccountedFor
<1>1. DXInv => OrdersAreAccountedFor
  <2> SUFFICES ASSUME DXInv, NEW s \in DXSignals
               PROVE  placed[s] <= 1 + reasons[s]
    BY Zenon DEF DXInv, OrdersAreAccountedFor
  <2>1. Chances(s) \in Nat /\ placed[s] \in Nat /\ reasons[s] \in Nat
    <3>1. inbox \in Seq(Deliveries) /\ placed[s] \in Nat /\ reasons[s] \in Nat
      BY Zenon DEF DXInv, DXTyped
    <3>2. Cardinality(Queued(inbox, s)) \in Nat
      BY <3>1, QueuedIsFinite, Zenon
    <3> QED
      BY <3>1, <3>2 DEF Chances, Waits, InDispatch
  <2> QED
    BY <2>1 DEF DXInv, Accounted
<1> QED
  BY <1>1, DXInvariant, PTL

\* A broker that fails is left alone after as many failures as the breaker counts and the
\* execution under way, each with its repetition past the breaker (NewClient, Execute).
THEOREM OutageShed == DXSpec => []OutageIsShed
<1>1. DXInv => OutageIsShed
  <2> SUFFICES ASSUME DXInv
               PROVE  OutageIsShed
    BY Zenon
  <2>1. failing \in Nat /\ breaker.fails \in Nat /\ Pending \in Nat
    BY Zenon DEF DXInv, DXTyped, Pending
  <2> QED
    BY <2>1, DXAssumption DEF DXInv, Shed, OutageIsShed
<1> QED
  BY <1>1, DXInvariant, PTL
=============================================================================
