---------------------------- MODULE MCDashboard ----------------------------
(***************************************************************************)
(* An instance of Dashboard for TLC. The migration ends before the first   *)
(* request; the dry-run switch with the requests that read it, the alias   *)
(* map and the journal share no state, and the test signals and the        *)
(* pipeline verdict only read what they share. So each behaviour exercises *)
(* one of five panels, and only the first meets a file that is not up to   *)
(* date. The pipeline's has one verdict and one change of the switch at a  *)
(* time, and one of the two services stops. Requests are interchangeable.  *)
(*                                                                         *)
(* The books of Ledger are two more panels: signals answered up to         *)
(* MaxAttempts times while at most one position opens, and positions       *)
(* opened and closed, this stack's with gains and in parts, those of       *)
(* others with a loss, while at most one signal is answered. Traces are    *)
(* interchangeable.                                                        *)
(***************************************************************************)
EXTENDS Dashboard, Ledger, TLC

MCProfits == {-1, 1}

VARIABLE panel

Verdict == {"pipeline", "pipeline-state", "pipeline-dry", "pipeline-done"}

Places ==
    [store |-> {},
     switch |-> {"dryrun", "dryrun-check", "test", "post"},
     pipeline |-> {"dryrun", "dryrun-check"} \cup Verdict,
     aliases |-> {"alias", "alias-check"},
     journal |-> {"journal", "journal-save"}]

MCInit ==
    /\ panel \in DOMAIN Places \cup {"signals", "trades"}
    /\ Init
    /\ LedgerInit
    /\ panel = "store" \/ version = 4

PanelNext ==
    /\ panel \in DOMAIN Places
    /\ Next
    /\ \A r \in Requests : req'[r].pc \in {"free"} \cup Places[panel]
    /\ panel # "pipeline" => pipe' = pipe
    /\ panel = "pipeline" =>
          /\ Cardinality({r \in Requests : req'[r].pc \in Verdict}) <= 1
          /\ Cardinality({r \in Requests : req'[r].pc \notin Verdict \cup {"free"}}) <= 1
          /\ "bridge" \in up'
    /\ UNCHANGED books

BooksNext ==
    /\ panel \in {"signals", "trades"}
    /\ LedgerNext
    /\ IF panel = "signals"
       THEN Len(deals') <= 1 /\ known' = {} /\ now' <= DayLen
       ELSE /\ Len(txn') <= 1
            /\ \A i \in DOMAIN txn' : txn'[i].id # {}
            /\ \A i \in DOMAIN deals' :
                 IF deals'[i].pos \in Ours THEN deals'[i].profit >= 0
                 ELSE deals'[i].volume = Lot /\ deals'[i].profit <= 0
    /\ UNCHANGED vars

MCNext == (PanelNext \/ BooksNext) /\ UNCHANGED panel

MCSpec == MCInit /\ [][MCNext]_<<vars, books, panel>>

MCSymmetry == Permutations(Requests) \cup Permutations(Traces)
=============================================================================
