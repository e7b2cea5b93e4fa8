------------------------------ MODULE MCPortal ------------------------------
(***************************************************************************)
(* An instance of Portal and Sessions for TLC. Accounts, the licence's     *)
(* switch, its secrets with ingress, and replays share no state, so each   *)
(* behaviour exercises one of them, or the event log with the switch.      *)
(***************************************************************************)
EXTENDS Sessions, TLC

CONSTANTS s1, s2, s3

\* A full message, one with empty fields and an empty parameter, and a signal stored
\* before messages were kept.
RawOf ==
    (s1 :> [fields |-> [n \in 1 .. 9 |-> "x"],
            params |-> <<[key |-> "sl", value |-> "1"], [key |-> "tp", value |-> "2"]>>])
    @@ (s2 :> [fields |-> [n \in {1, 2, 4, 6, 8, 9} |-> "x"], params |-> <<[key |-> "be"]>>])
    @@ (s3 :> NoRaw)

VARIABLE panel

Panels == {"accounts", "switch", "secrets", "replays", "events"}

MCInit == Init /\ SInit /\ panel \in Panels

Idle == [r \in Requests |-> Free]

\* With the event log, the licence is made first and switched off once, audited at once.
MCNext ==
    /\ SNext
    /\ panel # "accounts" => accounts' = accounts /\ \A r \in Requests : req'[r].pc # "register"
    /\ panel \notin {"switch", "secrets", "events"} => licence' = licence
    /\ panel \in {"switch", "events"} => issued' <= 1
    /\ panel = "secrets" => Patching' = {}
    /\ panel # "secrets" => ingress' = ingress /\ inst' = inst
    /\ panel # "replays" => trades' = trades /\ \A r \in Requests : req'[r].pc # "replay"
    /\ panel # "events" => socket' = socket /\ events' = events
    /\ panel = "events" =>
        /\ events' # events => Made
        /\ Patching' \subseteq Patching \/ lic'.active # lic.active
        /\ req # Idle => req' = Idle
        /\ \A r \in Requests : \/ req'[r].pc = "free"
                               \/ req'[r].pc = "audit" /\ audited = "none"
    /\ UNCHANGED panel

MCSpec == MCInit /\ [][MCNext]_<<vars, svars, panel>>

Symmetry == Permutations(Requests) \cup Permutations(Instances) \cup Permutations(Emails)
            \cup Permutations(Conns)
=============================================================================
