------------------------------- MODULE DXTrade -------------------------------
(***************************************************************************)
(* The DXTrade connector (apps/dxtrade/internal/dxtrade): a subscription   *)
(* that handles one signal at a time, and the client that carries it out   *)
(* over the broker's REST API with a session token, a retry loop and a     *)
(* circuit breaker (gobreaker). The stream and the broker are external.    *)
(*                                                                         *)
(* "open" stands for the six commands that place an order, "close" for the *)
(* three that close positions and for cancelorder: both list what matches  *)
(* and delete it piece by piece. "malformed" signals cannot be decoded or  *)
(* parsed, "unrouted" ones name an instance without a client.              *)
(***************************************************************************)
EXTENDS Integers, Sequences, FiniteSets

CONSTANTS
    DXSignals,
    Tickets,       \* positions of the account that match a close
    MaxRetries,    \* maxRetries
    TripAt,        \* consecutive failures at which the breaker opens
    MaxDeliver,    \* maxDeliverBeforeTerm
    MaxDXFaults    \* lost answers and fills, expired ack waits, restarts

ASSUME DXAssumption ==
    /\ MaxRetries \in Nat /\ TripAt \in Nat \ {0}
    /\ MaxDeliver \in Nat /\ MaxDXFaults \in Nat
    /\ "none" \notin DXSignals

VARIABLES
    action,      \* action[s]: what the signal asks for
    message,     \* message[s]: the signal's place in the durable consumer, and its deliveries
    inbox,       \* deliveries the connector holds, each with its number
    job,         \* the delivery in dispatch
    token,       \* the client's token: "none", "valid" or "stale" (the broker has dropped it)
    breaker,     \* gobreaker: its state and its consecutive failures
    placed,      \* placed[s]: orders at the broker for s
    positions,   \* tickets open at the broker
    reports,     \* reports[s]: the fills published for s
    closedBy,    \* history: closedBy[s] tickets were closed for s
    reasons,     \* history: reasons[s] for which s may be carried out once more
    failing,     \* history: executions that failed in a row, counted by the breaker or not
    dxfaults

dxvars == <<action, message, inbox, job, token, breaker, placed, positions, reports, closedBy,
            reasons, failing, dxfaults>>

NoJob == [pc |-> "idle", sig |-> "none", attempt |-> 0, via |-> "none", left |-> {}, count |-> 0]

\* The delivery in dispatch at another place, with none of its locals.
JobAt(pc) == [NoJob EXCEPT !.pc = pc, !.sig = job.sig]

Closed(fails) == [state |-> "closed", fails |-> fails]
Open == [state |-> "open", fails |-> 0]
HalfOpen == [state |-> "half", fails |-> 0]

DXInit ==
    /\ action \in [DXSignals -> {"open", "close", "malformed", "unrouted"}]
    /\ message = [s \in DXSignals |-> [state |-> "waiting", n |-> 0]]
    /\ inbox = << >> /\ job = NoJob
    /\ token = "none" /\ breaker = Closed(0)
    /\ placed = [s \in DXSignals |-> 0]
    /\ positions = Tickets
    /\ reports = [s \in DXSignals |-> {}]
    /\ closedBy = [s \in DXSignals |-> 0]
    /\ reasons = [s \in DXSignals |-> 0]
    /\ failing = 0 /\ dxfaults = 0

DXFault ==
    /\ dxfaults < MaxDXFaults
    /\ dxfaults' = dxfaults + 1

Settled(s) == message[s].state \in {"acked", "termed"}

\* An answer to the stream after which the signal is done with, or comes again.
Answer(s, state) ==
    message' = IF Settled(s) THEN message ELSE [message EXCEPT ![s].state = state]

-----------------------------------------------------------------------------
(* The stream. *)

Redeliver(s) ==
    /\ message' = [message EXCEPT ![s] = [state |-> "flight", n |-> @.n + 1]]
    /\ inbox' = Append(inbox, <<s, message[s].n + 1>>)
    /\ UNCHANGED <<action, job, token, breaker, placed, positions, reports, closedBy, failing>>

Deliver(s) ==
    /\ message[s].state = "waiting"
    /\ Redeliver(s)
    /\ UNCHANGED <<reasons, dxfaults>>

\* The ack was lost, or dispatch takes longer than the consumer waits for it.
AckWaitExpires(s) ==
    /\ message[s].state = "flight"
    /\ DXFault
    /\ Redeliver(s)
    /\ reasons' = [reasons EXCEPT ![s] = @ + 1]

-----------------------------------------------------------------------------
(* Subscriber.dispatch. *)

DXDispatch ==
    /\ job.pc = "idle" /\ inbox # << >>
    /\ inbox' = Tail(inbox)
    /\ LET s == Head(inbox)[1]
           n == Head(inbox)[2]
       IN \/ /\ n > MaxDeliver \/ action[s] = "malformed"
             /\ Answer(s, "termed") /\ UNCHANGED job
          \/ /\ n <= MaxDeliver /\ action[s] = "unrouted"
             /\ Answer(s, "waiting") /\ UNCHANGED job
          \/ /\ n <= MaxDeliver /\ action[s] \in {"open", "close"}
             /\ job' = [NoJob EXCEPT !.pc = "attempt", !.sig = s]
             /\ UNCHANGED message
    /\ UNCHANGED <<action, token, breaker, placed, positions, reports, closedBy, reasons, failing, dxfaults>>

\* Execute's loop sends an attempt through the breaker, which lets none pass while it is
\* open: an attempt like any other.
Attempt ==
    /\ job.pc = "attempt"
    /\ \/ /\ breaker.state # "open"
          /\ job' = [job EXCEPT !.pc = "execute", !.via = "breaker"]
       \/ /\ breaker.state = "open" /\ job.attempt < MaxRetries
          /\ job' = [job EXCEPT !.attempt = @ + 1]
       \/ /\ breaker.state = "open" /\ job.attempt = MaxRetries
          /\ job' = JobAt("reject")
    /\ UNCHANGED <<action, message, inbox, token, breaker, placed, positions, reports, closedBy,
                   reasons, failing, dxfaults>>

\* The breaker's view of an execution that went through it.
Counted(ok) ==
    breaker' = IF job.via # "breaker" THEN breaker
               ELSE IF ok THEN Closed(0)
               ELSE IF breaker.state = "half" \/ breaker.fails + 1 >= TripAt THEN Open
               ELSE Closed(breaker.fails + 1)

Succeed(count) ==
    /\ Counted(TRUE)
    /\ failing' = 0
    /\ job' = [JobAt("fill") EXCEPT !.count = count]

\* Any error but a 401 is tried again, unless the command was sent directly.
Fail ==
    /\ Counted(FALSE)
    /\ failing' = failing + 1
    /\ job' = IF job.via = "direct" \/ job.attempt = MaxRetries
              THEN JobAt("reject")
              ELSE [JobAt("attempt") EXCEPT !.attempt = job.attempt + 1]

\* Mutant: a 401 is no failure to the breaker.
Unauthorized_success ==
    /\ Counted(TRUE)
    /\ failing' = failing + 1
    /\ job' = JobAt(IF job.via = "direct" THEN "reject" ELSE "login")

\* authError: a failure to the breaker too. The first time, log in and send directly.
Unauthorized ==
    /\ Counted(FALSE)
    /\ failing' = failing + 1
    /\ job' = JobAt(IF job.via = "direct" THEN "reject" ELSE "login")

\* execute logs in when there is no token.
LoginFirst ==
    /\ job.pc = "execute" /\ token = "none"
    /\ \/ token' = "valid" /\ UNCHANGED <<job, breaker, failing>>
       \/ Fail /\ UNCHANGED token
    /\ UNCHANGED <<action, message, inbox, placed, positions, reports, closedBy, reasons, dxfaults>>

\* Mutant: after the login the loop goes on, whatever came of the repetition.
LoginAgain_loop ==
    /\ job.pc = "login"
    /\ \/ token' = "valid"
          /\ placed' = [placed EXCEPT ![job.sig] = @ + 1]
          /\ job' = [JobAt("attempt") EXCEPT !.attempt = MaxRetries]
       \/ UNCHANGED <<token, placed>> /\ job' = JobAt("reject")
    /\ UNCHANGED <<action, message, inbox, breaker, positions, reports, closedBy, reasons, failing, dxfaults>>

\* After a 401 the command is repeated once, past the breaker.
LoginAgain ==
    /\ job.pc = "login"
    /\ \/ token' = "valid" /\ job' = [JobAt("execute") EXCEPT !.via = "direct"]
       \/ UNCHANGED token /\ job' = JobAt("reject")
    /\ UNCHANGED <<action, message, inbox, breaker, placed, positions, reports, closedBy,
                   reasons, failing, dxfaults>>

\* The request has no key by which the broker could know it again. It is refused, never
\* arrives, is answered, or its answer is lost.
placeOrder ==
    /\ job.pc = "execute" /\ token # "none" /\ action[job.sig] = "open"
    /\ \/ token = "stale" /\ Unauthorized /\ UNCHANGED <<placed, reasons, dxfaults>>
       \/ Fail /\ UNCHANGED <<placed, reasons, dxfaults>>
       \/ /\ token = "valid"
          /\ placed' = [placed EXCEPT ![job.sig] = @ + 1]
          /\ \/ Succeed(0) /\ UNCHANGED <<reasons, dxfaults>>
             \/ /\ Fail /\ DXFault
                /\ reasons' = [reasons EXCEPT ![job.sig] = @ + 1]
    /\ UNCHANGED <<action, message, inbox, token, positions, reports, closedBy>>

ListPositions ==
    /\ job.pc = "execute" /\ token # "none" /\ action[job.sig] = "close"
    /\ \/ token = "stale" /\ Unauthorized
       \/ Fail
       \/ /\ token = "valid"
          /\ job' = [job EXCEPT !.pc = "walk", !.left = positions]
          /\ UNCHANGED <<breaker, failing>>
    /\ UNCHANGED <<action, message, inbox, token, placed, positions, reports, closedBy, reasons, dxfaults>>

\* A delete that fails, or that a stale token does not allow, is passed over.
DeleteNext ==
    /\ job.pc = "walk" /\ job.left # {}
    /\ \E t \in job.left :
        \/ /\ token = "valid" /\ t \in positions
           /\ positions' = positions \ {t}
           /\ closedBy' = [closedBy EXCEPT ![job.sig] = @ + 1]
           /\ \E counted \in {0, 1} :
                job' = [job EXCEPT !.left = @ \ {t}, !.count = @ + counted]
        \/ /\ job' = [job EXCEPT !.left = @ \ {t}]
           /\ UNCHANGED <<positions, closedBy>>
    /\ UNCHANGED <<action, message, inbox, token, breaker, placed, reports, reasons, failing, dxfaults>>

DeletedAll ==
    /\ job.pc = "walk" /\ job.left = {}
    /\ Succeed(job.count)
    /\ UNCHANGED <<action, message, inbox, token, placed, positions, reports, closedBy, reasons, dxfaults>>

Report(status, count) == [status |-> status, count |-> count]

\* publishFill's error is ignored. The answer to the stream is a message of its own.
publishFill ==
    /\ job.pc \in {"fill", "reject"}
    /\ LET fill == IF job.pc = "fill" THEN Report("filled", job.count) ELSE Report("rejected", 0)
       IN \/ reports' = [reports EXCEPT ![job.sig] = @ \cup {fill}] /\ UNCHANGED dxfaults
          \/ DXFault /\ UNCHANGED reports
    /\ job' = JobAt(IF job.pc = "fill" THEN "ack" ELSE "nak")
    /\ UNCHANGED <<action, message, inbox, token, breaker, placed, positions, closedBy, reasons,
                   failing>>

\* The ack may be lost.
AckOrNak ==
    /\ job.pc \in {"ack", "nak"}
    /\ \/ Answer(job.sig, IF job.pc = "ack" THEN "acked" ELSE "waiting")
       \/ UNCHANGED message
    /\ job' = NoJob
    /\ UNCHANGED <<action, inbox, token, breaker, placed, positions, reports, closedBy, reasons,
                   failing, dxfaults>>

-----------------------------------------------------------------------------
(* Time, and the world around the connector. *)

\* At any time, and as often as the broker likes.
SessionExpires ==
    /\ token = "valid"
    /\ token' = "stale"
    /\ UNCHANGED <<action, message, inbox, job, breaker, placed, positions, reports, closedBy,
                   reasons, failing, dxfaults>>

\* The breaker's Timeout, after which one execution may try, and its Interval, after which
\* failures are forgotten, and with them the execution that is under way.
BreakerTimer ==
    /\ \/ breaker.state = "open" /\ breaker' = HalfOpen /\ UNCHANGED job
       \/ /\ breaker.state = "closed" /\ breaker' = Closed(0)
          /\ job' = IF job.pc \in {"execute", "walk"} /\ job.via = "breaker"
                    THEN [job EXCEPT !.via = "uncounted"] ELSE job
    /\ failing' = 0
    /\ UNCHANGED <<action, message, inbox, token, placed, positions, reports, closedBy,
                   reasons, dxfaults>>

DXRestarts ==
    /\ DXFault
    /\ inbox' = << >> /\ job' = NoJob /\ token' = "none" /\ breaker' = Closed(0) /\ failing' = 0
    /\ message' = [s \in DXSignals |-> IF message[s].state = "flight"
                                       THEN [message[s] EXCEPT !.state = "waiting"] ELSE message[s]]
    /\ reasons' = [s \in DXSignals |-> IF message[s].state = "flight"
                                       THEN reasons[s] + 1 ELSE reasons[s]]
    /\ UNCHANGED <<action, placed, positions, reports, closedBy>>

DXNext ==
    \/ \E s \in DXSignals : Deliver(s) \/ AckWaitExpires(s)
    \/ DXDispatch \/ Attempt \/ LoginFirst \/ LoginAgain
    \/ placeOrder \/ ListPositions \/ DeleteNext \/ DeletedAll
    \/ publishFill \/ AckOrNak
    \/ SessionExpires \/ BreakerTimer \/ DXRestarts

DXSpec == DXInit /\ [][DXNext]_dxvars

-----------------------------------------------------------------------------
(* Properties. *)

\* A fill that says filled is never ahead of the broker: the order was placed, or at least
\* as many positions were closed as it says.
FillsAreBacked ==
    \A s \in DXSignals : \A fill \in reports[s] :
        fill.status = "filled" =>
            IF action[s] = "open" THEN placed[s] >= 1 ELSE fill.count <= closedBy[s]

\* However retries, logins, redeliveries and restarts fall, an order is placed again only
\* for a reason: an answer that was lost, an ack that did not arrive in time, or a restart
\* before it; one more order each. And no fill is reported without what it says (Execute,
\* placeOrder, closePositions, cancelOrders, dispatch).
OrdersAreAccountedFor ==
    /\ \A s \in DXSignals : placed[s] <= 1 + reasons[s]
    /\ FillsAreBacked

\* A broker that fails is left alone: since the breaker last started counting, no more
\* executions failed in a row than it counts and the one that was under way, each with its
\* repetition after a login, which bypasses the breaker (NewClient, Execute).
OutageIsShed == failing <= 2 * (TripAt + 1)
=============================================================================
