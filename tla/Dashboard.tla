------------------------------ MODULE Dashboard ------------------------------
(***************************************************************************)
(* The operator's dashboard (scripts/trade_dashboard.py): the requests     *)
(* that change how the stack trades, each in a thread of its own           *)
(* (ThreadingHTTPServer), and the pipeline verdict, over the meta table of *)
(* the trade store and the journal file.                                   *)
(*                                                                         *)
(* A step is one call to the store, to the journal file, to ingress or to  *)
(* a health endpoint. The executor is here for its heartbeat only: the     *)
(* monitor thread of scripts/ea_shim.py writes a time stamp and then a     *)
(* state, in two transactions.                                             *)
(***************************************************************************)
EXTENDS TradeStore, Functions

CONSTANTS
    Requests,     \* request threads
    Aliases,      \* symbol names an operator maps
    Brokers,      \* broker symbols
    Trades,       \* closed positions an operator writes a journal entry for
    EnvDryRun,    \* DASHBOARD_DRY_RUN_DEFAULT, TRUE unless it is set otherwise
    HasLicence,   \* TRUE when DASHBOARD_LICENSE_ID is set
    BeatEvery,    \* ticks between two heartbeats of a running executor
    StaleAfter    \* _HB_STALE_AFTER_SEC in ticks

ASSUME DashboardAssumption ==
    /\ EnvDryRun \in BOOLEAN
    /\ HasLicence \in BOOLEAN
    /\ BeatEvery \in Nat \ {0}
    /\ StaleAfter \in Nat \ {0}
    /\ "free" \notin Requests

VARIABLES
    dryRun,    \* meta.dry_run: "unset", "on" or "off"
    aliasMap,  \* meta.symbol_map
    journal,   \* tickets with an entry in journal.json
    lock,      \* the holder of _journal_lock, or "free"
    req,       \* req[r]: place and locals of request r
    shim,      \* the executor: running, attached to the terminal, ticks to its next beat
    beat,      \* meta.hb_ea_shim (as an age) and meta.hb_ea_shim_state
    up,        \* which of ingress and bridge answer their health endpoint
    wanted,    \* the alias map had every change been applied alone
    overlap,   \* TRUE once two changes of the alias map ran at the same time
    saved,     \* tickets whose journal entry was answered as saved
    told,      \* the switch position last answered as in force, until it is written again
    posts      \* for each test signal posted: whether dry-run was off when it was checked

settings == <<dryRun, told>>
aliases == <<aliasMap, wanted, overlap>>
notes == <<journal, lock, saved>>
control == <<settings, aliases, notes, req, posts>>
pipe == <<shim, beat, up>>
vars == <<schema, faults, control, pipe>>

Free == [pc |-> "free"]

\* Ages are counted up to the first one that no longer matters.
OldAge == StaleAfter + 2 * BeatEvery + 1
Older(n) == IF n < OldAge THEN n + 1 ELSE n

Init ==
    /\ InitStore
    /\ dryRun = "unset"
    /\ aliasMap = << >>
    /\ journal = {}
    /\ lock = "free"
    /\ req = [r \in Requests |-> Free]
    /\ shim = [runs |-> TRUE, attached |-> TRUE, due |-> BeatEvery, since |-> 0]
    /\ beat = [age |-> OldAge, attached |-> FALSE, half |-> FALSE, seen |-> FALSE]
    /\ up = {"ingress", "bridge"}
    /\ wanted = << >>
    /\ overlap = FALSE
    /\ saved = {}
    /\ told = "none"
    /\ posts = {}

-----------------------------------------------------------------------------
(* The store's switches. *)

\* get_dry_run: the stored value, the environment's default when nothing is stored or
\* the store cannot be read.
Effective == IF dryRun = "unset" THEN EnvDryRun ELSE dryRun = "on"

OnOff(x) == IF x THEN "on" ELSE "off"

\* x is what a read of the dry-run switch returns.
ReadsDryRun(x) ==
    \/ x = Effective /\ UNCHANGED faults
    \/ x = EnvDryRun /\ Fault

\* get_symbol_map: an unreadable map reads as the empty one.
ReadsAliases(m) ==
    \/ m = aliasMap /\ UNCHANGED faults
    \/ m = << >> /\ Fault

\* m with alias a mapped to b, or without a.
Mapped(m, a, b) == [x \in DOMAIN m \cup {a} |-> IF x = a THEN b ELSE m[x]]
Unmapped(m, a) == [x \in DOMAIN m \ {a} |-> m[x]]

Begin(r, locals) ==
    /\ Opened
    /\ req[r].pc = "free"
    /\ req' = [req EXCEPT ![r] = locals]

Goto(r, locals) == req' = [req EXCEPT ![r] = locals]

Reply(r) == Goto(r, Free)

-----------------------------------------------------------------------------
(* POST /api/dryrun *)

\* The gates: going live needs the confirmation and the licence; the state before is
\* read for the audit log.
SetDryRunBegins(r) ==
    \E enabled, confirm \in BOOLEAN :
        /\ enabled \/ (confirm /\ HasLicence)
        /\ Begin(r, [pc |-> "dryrun", enabled |-> enabled])
        /\ UNCHANGED <<schema, faults, settings, aliases, notes, posts, pipe>>

\* set_dry_run; a failure of the store is swallowed.
SetDryRunWrites(r) ==
    /\ req[r].pc = "dryrun"
    /\ \/ /\ dryRun' = OnOff(req[r].enabled)
          /\ told' = "none"
          /\ UNCHANGED faults
       \/ Fault /\ UNCHANGED settings
    /\ Goto(r, [pc |-> "dryrun-check", enabled |-> req[r].enabled])
    /\ UNCHANGED <<schema, aliases, notes, posts, pipe>>

\* Mutant: the position asked for is answered without reading it back.
SetDryRunReplies_blind(r) ==
    /\ req[r].pc = "dryrun-check"
    /\ told' = OnOff(req[r].enabled)
    /\ Reply(r)
    /\ UNCHANGED <<schema, faults, dryRun, aliases, notes, posts, pipe>>

\* The answer says whether the state read back is the requested one.
SetDryRunReplies(r) ==
    /\ req[r].pc = "dryrun-check"
    /\ \E after \in BOOLEAN :
        /\ ReadsDryRun(after)
        /\ told' = IF after = req[r].enabled THEN OnOff(after) ELSE told
    /\ Reply(r)
    /\ UNCHANGED <<schema, dryRun, aliases, notes, posts, pipe>>

-----------------------------------------------------------------------------
(* POST /api/symbol-map *)

Changing == {r \in Requests : req[r].pc \in {"alias", "alias-check"}}

\* The whole map is read, changed and kept for the write; deleting a name that is not
\* in it answers 404.
AliasReads(r) ==
    \E a \in Aliases, b \in Brokers \cup {"delete"}, m \in {aliasMap, << >>} :
        /\ ReadsAliases(m)
        /\ b = "delete" => a \in DOMAIN m
        /\ Begin(r, [pc |-> "alias", alias |-> a, broker |-> b,
                     map |-> IF b = "delete" THEN Unmapped(m, a) ELSE Mapped(m, a, b)])
        /\ overlap' = (overlap \/ Changing # {})
        /\ UNCHANGED <<schema, settings, aliasMap, wanted, notes, posts, pipe>>

\* set_symbol_map writes the map kept; a failure is swallowed.
AliasWrites(r) ==
    /\ req[r].pc = "alias"
    /\ \/ /\ aliasMap' = req[r].map
          /\ wanted' = IF req[r].broker = "delete" THEN Unmapped(wanted, req[r].alias)
                       ELSE Mapped(wanted, req[r].alias, req[r].broker)
          /\ UNCHANGED faults
       \/ Fault /\ UNCHANGED <<aliasMap, wanted>>
    /\ Goto(r, [pc |-> "alias-check"])
    /\ UNCHANGED <<schema, settings, overlap, notes, posts, pipe>>

AliasReplies(r) ==
    /\ req[r].pc = "alias-check"
    /\ \E m \in {aliasMap, << >>} : ReadsAliases(m)
    /\ Reply(r)
    /\ UNCHANGED <<schema, settings, aliases, notes, posts, pipe>>

-----------------------------------------------------------------------------
(* POST /api/journal *)

\* Mutant: the entry is saved without the lock.
JournalLocks_free(r) ==
    \E t \in Trades :
        /\ lock' = r
        /\ Begin(r, [pc |-> "journal", ticket |-> t])
        /\ UNCHANGED <<schema, faults, settings, aliases, journal, saved, posts, pipe>>

\* save_journal_entry under _journal_lock: load the file (an unreadable one reads as
\* empty), add the entry, write a temporary file and put it in place. A write that
\* fails raises; the lock is released and no entry is answered as saved.
JournalLocks(r) ==
    \E t \in Trades :
        /\ lock = "free"
        /\ lock' = r
        /\ Begin(r, [pc |-> "journal", ticket |-> t])
        /\ UNCHANGED <<schema, faults, settings, aliases, journal, saved, posts, pipe>>

JournalLoads(r) ==
    /\ req[r].pc = "journal"
    /\ \E j \in {journal, {}} :
        /\ IF j = journal THEN UNCHANGED faults ELSE Fault
        /\ Goto(r, [pc |-> "journal-save", ticket |-> req[r].ticket,
                    entries |-> j \cup {req[r].ticket}])
    /\ UNCHANGED <<schema, settings, aliases, notes, posts, pipe>>

JournalSaves(r) ==
    /\ req[r].pc = "journal-save"
    /\ \/ /\ journal' = req[r].entries
          /\ saved' = saved \cup {req[r].ticket}
          /\ UNCHANGED faults
       \/ Fault /\ UNCHANGED <<journal, saved>>
    /\ lock' = "free"
    /\ Reply(r)
    /\ UNCHANGED <<schema, settings, aliases, posts, pipe>>

-----------------------------------------------------------------------------
(* POST /api/webhook-test/send *)

\* A well-formed and confirmed test signal; a preview changes nothing.
TestSignalBegins(r) ==
    /\ Begin(r, [pc |-> "test"])
    /\ UNCHANGED <<schema, faults, settings, aliases, notes, posts, pipe>>

\* In dry-run the test is refused.
TestSignalChecks(r) ==
    /\ req[r].pc = "test"
    /\ \E dry \in BOOLEAN :
        /\ ReadsDryRun(dry)
        /\ Goto(r, IF dry THEN Free ELSE [pc |-> "post", armed |-> ~ Effective])
    /\ UNCHANGED <<schema, settings, aliases, notes, posts, pipe>>

\* _post_to_ingress; a network failure is reported in the answer.
TestSignalPosts(r) ==
    /\ req[r].pc = "post"
    /\ posts' = posts \cup {req[r].armed}
    /\ Reply(r)
    /\ UNCHANGED <<schema, faults, settings, aliases, notes, pipe>>

-----------------------------------------------------------------------------
(* GET /api/pipeline *)

\* The two health probes.
PipelineProbes(r) ==
    /\ Begin(r, [pc |-> "pipeline", ok |-> up = {"ingress", "bridge"}, green |-> FALSE])
    /\ UNCHANGED <<schema, faults, settings, aliases, notes, posts, pipe>>

\* Mutant: a heartbeat of any age will do.
PipelineReadsAge_any(r) ==
    /\ req[r].pc = "pipeline"
    /\ Goto(r, [pc |-> "pipeline-state", ok |-> req[r].ok, green |-> FALSE])
    /\ UNCHANGED <<schema, faults, settings, aliases, notes, posts, pipe>>

\* The age of the heartbeat; an unreadable store reads as no heartbeat.
PipelineReadsAge(r) ==
    /\ req[r].pc = "pipeline"
    /\ \E fresh \in {beat.age < StaleAfter, FALSE} :
        /\ IF fresh = (beat.age < StaleAfter) THEN UNCHANGED faults ELSE Fault
        /\ Goto(r, [pc |-> "pipeline-state", ok |-> req[r].ok /\ fresh, green |-> FALSE])
    /\ UNCHANGED <<schema, settings, aliases, notes, posts, pipe>>

PipelineReadsState(r) ==
    /\ req[r].pc = "pipeline-state"
    /\ \E attached \in {beat.attached, FALSE} :
        /\ IF attached = beat.attached THEN UNCHANGED faults ELSE Fault
        /\ Goto(r, [pc |-> "pipeline-dry", ok |-> req[r].ok /\ attached, green |-> FALSE])
    /\ UNCHANGED <<schema, settings, aliases, notes, posts, pipe>>

\* Green when nothing is down and dry-run is off, red otherwise.
PipelineVerdict(r) ==
    /\ req[r].pc = "pipeline-dry"
    /\ \E dry \in BOOLEAN :
        /\ ReadsDryRun(dry)
        /\ Goto(r, [pc |-> "pipeline-done", ok |-> req[r].ok, green |-> req[r].ok /\ ~ dry])
    /\ UNCHANGED <<schema, settings, aliases, notes, posts, pipe>>

PipelineReplies(r) ==
    /\ req[r].pc = "pipeline-done"
    /\ Reply(r)
    /\ UNCHANGED <<schema, faults, settings, aliases, notes, posts, pipe>>

-----------------------------------------------------------------------------
(* The executor's heartbeat and the clock. *)

\* Every sixth poll the monitor looks at the terminal and writes the time stamp; the
\* store may fail to take it.
BeatStamp ==
    /\ Opened
    /\ shim.runs /\ shim.due = 0 /\ ~ beat.half
    /\ \/ /\ beat' = [beat EXCEPT !.age = 0, !.half = TRUE, !.seen = shim.attached]
          /\ UNCHANGED faults
       \/ /\ Fault
          /\ beat' = [beat EXCEPT !.half = TRUE, !.seen = shim.attached]
    /\ UNCHANGED <<schema, control, shim, up>>

\* Then the state it saw, with the same reservation.
BeatState ==
    /\ shim.runs /\ beat.half
    /\ \/ /\ beat' = [beat EXCEPT !.attached = beat.seen, !.half = FALSE, !.seen = FALSE]
          /\ UNCHANGED faults
       \/ /\ Fault
          /\ beat' = [beat EXCEPT !.half = FALSE, !.seen = FALSE]
    /\ shim' = [shim EXCEPT !.due = BeatEvery]
    /\ UNCHANGED <<schema, control, up>>

\* Time passes; a running executor is never late for its beat, and a pipeline request
\* is quick (its probes time out after 1.5 s).
Tick ==
    /\ Opened
    /\ shim.runs => shim.due > 0 /\ ~ beat.half
    /\ \A r \in Requests : req[r].pc \notin {"pipeline", "pipeline-state", "pipeline-dry", "pipeline-done"}
    /\ beat' = [beat EXCEPT !.age = Older(@)]
    /\ shim' = [shim EXCEPT !.due = IF shim.runs THEN @ - 1 ELSE @,
                            !.since = IF shim.attached /\ shim.runs THEN 0 ELSE Older(@)]
    /\ UNCHANGED <<schema, faults, control, up>>

\* The executor stops, or its terminal is closed.
ShimStops ==
    /\ Opened
    /\ shim.runs
    /\ \/ shim' = [shim EXCEPT !.runs = FALSE]
       \/ shim.attached /\ shim' = [shim EXCEPT !.attached = FALSE]
    /\ UNCHANGED <<schema, faults, control, beat, up>>

\* The executor is started again, with the terminal: it attaches before it polls.
ShimStarts ==
    /\ ~ (shim.runs /\ shim.attached)
    /\ shim' = [runs |-> TRUE, attached |-> TRUE, due |-> BeatEvery, since |-> 0]
    /\ beat' = [beat EXCEPT !.half = FALSE, !.seen = FALSE]
    /\ UNCHANGED <<schema, faults, control, up>>

\* A Go service stops answering.
ServiceStops ==
    /\ Opened
    /\ \E s \in up : up' = up \ {s}
    /\ UNCHANGED <<schema, faults, control, shim, beat>>

-----------------------------------------------------------------------------
Handle(r) ==
    \/ SetDryRunBegins(r) \/ SetDryRunWrites(r) \/ SetDryRunReplies(r)
    \/ AliasReads(r) \/ AliasWrites(r) \/ AliasReplies(r)
    \/ JournalLocks(r) \/ JournalLoads(r) \/ JournalSaves(r)
    \/ TestSignalBegins(r) \/ TestSignalChecks(r) \/ TestSignalPosts(r)
    \/ PipelineProbes(r) \/ PipelineReadsAge(r) \/ PipelineReadsState(r)
    \/ PipelineVerdict(r) \/ PipelineReplies(r)

Next ==
    \/ \E o \in Openers : Migrate(o) /\ UNCHANGED <<control, pipe>>
    \/ \E r \in Requests : Handle(r)
    \/ BeatStamp \/ BeatState \/ Tick \/ ShimStops \/ ShimStarts \/ ServiceStops

Spec == Init /\ [][Next]_vars

-----------------------------------------------------------------------------
(* Properties. *)

\* A test signal reaches ingress only when dry-run was off in the store at the moment
\* it was checked, even when the store cannot be read; with the default the
\* environment has unless it is set otherwise (send_test_signal, get_dry_run:
\* "A broken store can therefore only ever leave the stack in dry-run").
TestSignalWasArmed == EnvDryRun => FALSE \notin posts

\* The switch position last answered as in force stays in force until it is written
\* again, whatever other requests do meanwhile. When a call fails this is lost: the
\* default read back can pass for the position asked for (set_dry_run_mode).
SwitchAnsweredIsInForce ==
    told # "none" /\ faults = 0 => OnOff(Effective) = told

\* Changes of the alias map that do not run at the same time are all kept, and a
\* change touches no other alias. Two that overlap can undo each other, for the
\* whole map is read and written back without a lock (update_symbol_map).
AliasesAreKept ==
    ~ overlap /\ faults = 0 => aliasMap = wanted

\* A journal entry answered as saved is never lost to another request's save, for
\* they exclude each other; a file that cannot be read is replaced by the one new
\* entry (save_journal_entry).
SavedEntriesAreKept ==
    faults = 0 => saved \subseteq journal

\* The dry-run switch is obeyed: what was answered as in force is in force, and no test
\* signal passes it (set_dry_run_mode, send_test_signal).
DryRunIsObeyed == SwitchAnsweredIsInForce /\ TestSignalWasArmed

\* No change that was answered as made is lost to another request: of the alias map unless
\* two changes overlap, of the journal at all (update_symbol_map, save_journal_entry).
AnsweredChangesAreKept == AliasesAreKept /\ SavedEntriesAreKept

\* A green verdict is recent: the executor was running and attached to its terminal
\* within the staleness limit and one heartbeat, although the time stamp is written
\* before the state (pipeline_status, position_monitor).
GreenIsRecent ==
    faults = 0 =>
        \A r \in Requests :
            req[r].pc = "pipeline-done" /\ req[r].green => shim.since < StaleAfter + BeatEvery
==============================================================================
