---------------------------- MODULE IngressGates ----------------------------
(***************************************************************************)
(* The gates a webhook request passes in ingress before its signal is      *)
(* published (apps/ingress/internal/ingress/handler.go, counter.go): the   *)
(* kill switch, the token bucket of its address, the checks that depend on *)
(* the request alone, the daily quota of its licence and the exposure      *)
(* limit. Requests are handled at the same time; the background loops that *)
(* forget idle buckets and past days run beside them.                      *)
(*                                                                         *)
(* Buckets of different addresses, and counters of different licences,     *)
(* never meet: the model has one address and one licence. Time is counted  *)
(* in the unit in which a bucket earns one token, so that it is full again *)
(* after Burst of them (newIPRateLimiter(limit / 60, limit)).              *)
(*                                                                         *)
(* The audit records a request leaves (recordRequestEvent,                 *)
(* publishRejection, recordKillSwitchEvent) are published without looking  *)
(* at the outcome and read by no gate: they are left out; Sessions models  *)
(* what becomes of them. A restart of ingress forgets the switch, the      *)
(* bucket and the counts: a behaviour here is one life of the process.     *)
(***************************************************************************)
EXTENDS Integers, FiniteSets

CONSTANTS
    Requests,
    Burst,        \* tokens of a full bucket
    IdleExpiry,   \* bucketIdleExpiry: ten times what a bucket takes to fill
    MaxPerDay,    \* MaxSignalsPerDay of the licence, not 0
    MaxClock,
    LastDay

ASSUME GatesAssumption ==
    /\ Burst \in Nat \ {0}
    /\ IdleExpiry \in Nat /\ IdleExpiry >= Burst
    /\ MaxPerDay \in Nat \ {0}
    /\ MaxClock \in Nat /\ LastDay \in Nat

VARIABLES
    switch,    \* tradingHalted: "halted" or "trading"
    request,   \* request[r]: where its handler is, and the day it read from the clock
    bucket,    \* the address' bucket; missing until its first request, and again after cleanup
    hits,      \* hits[d]: the licence's count of day d, 0 when there is none
    clock,
    day,
    allowed,   \* history: requests the limiter let pass since the process started
    granted,   \* history: granted[d] requests passed the quota of day d since then
    cleaned,   \* history: days whose counter was deleted
    late,      \* history: late[d] requests were counted for day d after that
    past,      \* history: requests that were past the kill switch when it was last turned on
    sent       \* history: requests published since then

gatevars == <<switch, request, bucket, hits, clock, day, allowed, granted, cleaned, late, past, sent>>
gatehistory == <<allowed, granted, cleaned, late, past, sent>>

Days == 0 .. LastDay
NoBucket == [tokens |-> -1, last |-> 0]
NoCounts == [d \in Days |-> 0]

\* The places of a handler, in order; "answered" is reached from each of them.
Places == {"new", "limiter", "checks", "quota", "exposure", "publish", "answered"}
PastSwitch == {"limiter", "checks", "quota", "exposure", "publish"}

Idle == [pc |-> "new", day |-> 0]

GatesInit ==
    /\ switch \in {"halted", "trading"}
    /\ request = [r \in Requests |-> Idle]
    /\ bucket = NoBucket
    /\ hits = NoCounts
    /\ clock = 0 /\ day = 0
    /\ allowed = 0
    /\ granted = NoCounts /\ cleaned = {} /\ late = NoCounts
    /\ past = {} /\ sent = {}

Goto(r, pc) == request' = [request EXCEPT ![r].pc = pc]

\* Mutant: a request is halted only while no other is being handled.
gatingPreamble_busy(r) ==
    /\ request[r].pc = "new"
    /\ Goto(r, IF switch = "halted" /\ \A q \in Requests : request[q].pc \notin PastSwitch
               THEN "answered" ELSE "limiter")
    /\ UNCHANGED <<switch, bucket, hits, clock, day, gatehistory>>

\* Method, body and perimeter token, which may turn the request away, then the kill switch.
gatingPreamble(r) ==
    /\ request[r].pc = "new"
    /\ \/ Goto(r, "answered")
       \/ switch = "trading" /\ Goto(r, "limiter")
    /\ UNCHANGED <<switch, bucket, hits, clock, day, gatehistory>>

\* What the bucket holds at this moment.
Refilled ==
    LET now == bucket.tokens + (clock - bucket.last)
    IN IF bucket = NoBucket \/ now > Burst THEN Burst ELSE now

\* Under the limiter's lock. A new bucket is full.
allow(r) ==
    /\ request[r].pc = "limiter"
    /\ \/ /\ Refilled >= 1
          /\ bucket' = [tokens |-> Refilled - 1, last |-> clock]
          /\ allowed' = allowed + 1
          /\ Goto(r, "checks")
       \/ /\ Refilled < 1
          /\ bucket' = [tokens |-> Refilled, last |-> clock]
          /\ Goto(r, "answered")
          /\ UNCHANGED allowed
    /\ UNCHANGED <<switch, hits, clock, day, granted, cleaned, late, past, sent>>

\* Allowed networks, timestamp, parsing, licence, secret and signature; then the time is
\* read for the quota, before the counter's lock is taken.
authenticate(r) ==
    /\ request[r].pc = "checks"
    /\ \/ Goto(r, "answered")
       \/ request' = [request EXCEPT ![r] = [pc |-> "quota", day |-> day]]
    /\ UNCHANGED <<switch, bucket, hits, clock, day, gatehistory>>

\* Mutant: the count is compared before this request is added.
Increment_before(r) ==
    LET d == request[r].day
    IN /\ request[r].pc = "quota"
       /\ hits' = [hits EXCEPT ![d] = @ + 1]
       /\ late' = IF d \in cleaned THEN [late EXCEPT ![d] = @ + 1] ELSE late
       /\ \/ /\ hits[d] <= MaxPerDay
             /\ granted' = [granted EXCEPT ![d] = @ + 1]
             /\ Goto(r, "exposure")
          \/ /\ hits[d] > MaxPerDay
             /\ Goto(r, "answered")
             /\ UNCHANGED granted
       /\ UNCHANGED <<switch, bucket, clock, day, allowed, cleaned, past, sent>>

\* One step under the counter's lock; the count that comes back is compared afterwards,
\* which no other request can notice.
Increment(r) ==
    LET d == request[r].day
    IN /\ request[r].pc = "quota"
       /\ hits' = [hits EXCEPT ![d] = @ + 1]
       /\ late' = IF d \in cleaned THEN [late EXCEPT ![d] = @ + 1] ELSE late
       /\ \/ /\ hits[d] + 1 <= MaxPerDay
             /\ granted' = [granted EXCEPT ![d] = @ + 1]
             /\ Goto(r, "exposure")
          \/ /\ hits[d] + 1 > MaxPerDay
             /\ Goto(r, "answered")
             /\ UNCHANGED granted
       /\ UNCHANGED <<switch, bucket, clock, day, allowed, cleaned, past, sent>>

\* Two queries on tables ingress does not write. A query that fails lets the signal pass.
checkExposureLimits(r) ==
    /\ request[r].pc = "exposure"
    /\ \E pc \in {"publish", "answered"} : Goto(r, pc)
    /\ UNCHANGED <<switch, bucket, hits, clock, day, gatehistory>>

\* publisher.Publish may fail, which is answered 503: neither the token nor the count is
\* given back.
webhook(r) ==
    /\ request[r].pc = "publish"
    /\ Goto(r, "answered")
    /\ sent' \in {sent, sent \cup {r}}
    /\ UNCHANGED <<switch, bucket, hits, clock, day, allowed, granted, cleaned, late, past>>

\* POST /admin/kill-switch: one atomic swap.
killSwitch ==
    /\ \/ /\ switch' = "halted"
          /\ past' = IF switch = "halted" THEN past
                     ELSE {r \in Requests : request[r].pc \in PastSwitch}
          /\ sent' = IF switch = "halted" THEN sent ELSE {}
       \/ switch' = "trading" /\ UNCHANGED <<past, sent>>
    /\ UNCHANGED <<request, bucket, hits, clock, day, allowed, granted, cleaned, late>>

\* Mutant: the last use is not looked at.
BucketCleanup_all ==
    /\ bucket' = NoBucket
    /\ UNCHANGED <<switch, request, hits, clock, day, gatehistory>>

\* ipRateLimiter.cleanupLoop.
BucketCleanup ==
    /\ bucket # NoBucket
    /\ bucket.last < clock - IdleExpiry
    /\ bucket' = NoBucket
    /\ UNCHANGED <<switch, request, hits, clock, day, gatehistory>>

\* dailyCounter.cleanupLoop: every day that is not today is forgotten.
CounterCleanup ==
    /\ hits' = [d \in Days |-> IF d = day THEN hits[d] ELSE 0]
    /\ cleaned' = cleaned \cup {d \in Days : d < day}
    /\ UNCHANGED <<switch, request, bucket, clock, day, allowed, granted, late, past, sent>>

Tick ==
    /\ clock < MaxClock
    /\ clock' = clock + 1
    /\ UNCHANGED <<switch, request, bucket, hits, day, gatehistory>>

Midnight ==
    /\ day < LastDay
    /\ day' = day + 1
    /\ UNCHANGED <<switch, request, bucket, hits, clock, gatehistory>>

GatesNext ==
    \/ \E r \in Requests :
        \/ gatingPreamble(r) \/ allow(r) \/ authenticate(r) \/ Increment(r)
        \/ checkExposureLimits(r) \/ webhook(r)
    \/ killSwitch \/ BucketCleanup \/ CounterCleanup \/ Tick \/ Midnight

GatesSpec == GatesInit /\ [][GatesNext]_gatevars

-----------------------------------------------------------------------------
(* Properties. *)

\* Whatever the order of requests, waiting times and cleanups, an address gets no more
\* than a full bucket and one request per unit of time through: forgetting an idle bucket
\* gives no token that waiting would not have given (allow, cleanupLoop).
RateIsBounded == allowed <= Burst + clock

\* The quota of a day holds however many requests are counted at once, and over midnight,
\* except for requests that read the time before midnight and are counted only after the
\* hourly cleanup deleted that day's counter: each of those may pass once more
\* (authenticate, dailyCounter.Increment, dailyCounter.cleanupLoop).
QuotaIsKept == \A d \in Days : granted[d] <= MaxPerDay + late[d]

\* After a halt, only signals of requests that were already past the kill switch are
\* published, and nothing else until trading is resumed (killSwitch, gatingPreamble).
HaltHolds == switch = "halted" => sent \subseteq past
=============================================================================
