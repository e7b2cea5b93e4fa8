--------------------------- MODULE DashboardProofs ---------------------------
(***************************************************************************)
(* The trade store and the dashboard, for any number of openers, requests, *)
(* aliases, brokers and trades, any default of the switch, and any period  *)
(* and staleness limit of the heartbeat.                                   *)
(*                                                                         *)
(* MigrationIsComplete is not inductive: an opener that loses the race for *)
(* the first flag column skips the second, so completeness rests on the    *)
(* winner still being on its way. Underway says where that opener is.      *)
(*                                                                         *)
(* GreenIsRecent rests on how old the two halves of a heartbeat can be:    *)
(* the state that is stored belongs to the time stamp that is stored, or   *)
(* to the one before it while a beat is half written. HeartbeatAges.       *)
(***************************************************************************)
EXTENDS Dashboard, TLAPS

Stages == {"closed", "seed", "three", "look", "four", "ready"} \cup Flags
OpenerState == [pc : Stages, cols : SUBSET Flags]

StoreTyped ==
    /\ version \in 1 .. 4
    /\ columns \in SUBSET Flags
    /\ registry \in {"empty", "seeded"}
    /\ opener \in [Openers -> OpenerState]
    /\ faults \in Nat

\* While nothing has failed: what an opener saw of the columns is still there; the
\* columns appear in order; whoever is past the first column has it; if only the first
\* is there, an opener is about to add the second; the version is current unless an
\* opener is on its way; and nobody is past an unseeded registry.
Underway ==
    /\ \A o \in Openers : opener[o].cols \subseteq columns
    /\ "breakeven" \in columns => "partial_book" \in columns
    /\ "partial_book" \notin columns =>
        /\ version # 4
        /\ \A o \in Openers : opener[o].pc \notin {"breakeven", "four", "ready"}
    /\ "partial_book" \in columns /\ "breakeven" \notin columns =>
        \E o \in Openers : opener[o].pc = "breakeven"
    /\ version # 4 => \E o \in Openers : opener[o].pc # "ready"
    /\ registry = "empty" =>
        /\ version = 1
        /\ \A o \in Openers : opener[o].pc \in {"closed", "seed"}

StoreInv ==
    /\ StoreTyped
    /\ faults = 0 => Underway

\* Where an opening goes on: only a file at the current version needs nothing
\* (_ensure_schema).
LEMMA StageOf ==
    ASSUME version \in 1 .. 4
    PROVE  /\ Stage(version) \in {"seed", "three", "look", "ready"}
           /\ Stage(version) = "ready" <=> version = 4
           /\ Stage(version) = "seed" <=> version = 1
<1>1. version = 1 \/ version = 2 \/ version = 3 \/ version = 4
  OBVIOUS
<1> QED
  BY <1>1 DEF Stage

\* Every opening step changes one opener and keeps the types, and only a failure
\* raises the count of faults (_ensure_schema).
LEMMA MigrateTyped ==
    ASSUME StoreTyped, NEW o \in Openers, Migrate(o)
    PROVE  StoreTyped' /\ (faults' = 0 => faults = 0 /\ faults' = faults)
<1> USE StoreAssumption DEF StoreTyped, OpenerState, Stages, Flags, At, Fault, Unopened
<1>1. CASE Open(o)
  BY <1>1, StageOf, Zenon DEF Open
<1>2. CASE Seed(o)
  BY <1>2 DEF Seed
<1>3. CASE RaiseToThree(o)
  BY <1>3 DEF RaiseToThree
<1>4. CASE LookAtColumns(o)
  BY <1>4, Zenon DEF LookAtColumns
<1>5. CASE AddColumn(o, "partial_book", "breakeven")
  BY <1>5 DEF AddColumn
<1>6. CASE AddColumn(o, "breakeven", "four")
  BY <1>6 DEF AddColumn
<1>7. CASE RaiseToFour(o)
  BY <1>7 DEF RaiseToFour
<1>8. CASE Killed(o)
  BY <1>8 DEF Killed
<1> QED
  BY <1>1, <1>2, <1>3, <1>4, <1>5, <1>6, <1>7, <1>8, Zenon DEF Migrate

\* An opening step that does not fail leaves the migration done or under way
\* (_ensure_schema).
LEMMA MigrateUnderway ==
    ASSUME StoreTyped, Underway, NEW o \in Openers, Migrate(o), faults = 0, faults' = 0
    PROVE  Underway'
<1> USE DEF StoreTyped, OpenerState, Stages, Flags, At, Fault, Unopened, Underway
<1>1. CASE Open(o)
  BY <1>1, StageOf, ZenonT(40) DEF Open
<1>2. CASE Seed(o)
  BY <1>2 DEF Seed
<1>3. CASE RaiseToThree(o)
  BY <1>3 DEF RaiseToThree
<1>4. CASE LookAtColumns(o)
  BY <1>4, Zenon DEF LookAtColumns
<1>5. CASE AddColumn(o, "partial_book", "breakeven")
  BY <1>5 DEF AddColumn
<1>6. CASE AddColumn(o, "breakeven", "four")
  BY <1>6 DEF AddColumn
<1>7. CASE RaiseToFour(o)
  BY <1>7, ZenonT(40) DEF RaiseToFour
<1>8. CASE Killed(o)
  BY <1>8 DEF Killed
<1> QED
  BY <1>1, <1>2, <1>3, <1>4, <1>5, <1>6, <1>7, <1>8, Zenon DEF Migrate

-----------------------------------------------------------------------------
(* The invariant of the dashboard. *)

DashTyped ==
    /\ DOMAIN req = Requests
    /\ beat \in [age : Nat, attached : BOOLEAN, half : BOOLEAN, seen : BOOLEAN]
    /\ shim \in [runs : BOOLEAN, attached : BOOLEAN, due : Nat, since : Nat]

\* While nothing has failed: since is 0 as long as the executor runs attached, and when a
\* beat half written has seen it so; a state "attached" is no older than its time stamp, or
\* than a beat longer while the next one is half written; and a running executor has not
\* been detached for longer than it is from its last beat.
HeartbeatAges ==
    /\ shim.runs /\ shim.attached => shim.since = 0
    /\ shim.runs /\ beat.half => shim.due = 0 /\ (beat.seen => shim.since = 0)
    /\ beat.attached =>
        /\ ~ beat.half => shim.since <= beat.age
        /\ beat.half => shim.since <= beat.age + BeatEvery
        /\ shim.runs => shim.since + shim.due <= BeatEvery

\* What a verdict under way has read still holds, for no time passes meanwhile.
VerdictHolds ==
    \A r \in Requests :
        /\ req[r].pc = "pipeline-state" /\ req[r].ok => beat.age < StaleAfter
        /\ req[r].pc = "pipeline-dry" /\ req[r].ok => shim.since < StaleAfter + BeatEvery
        /\ req[r].pc = "pipeline-done" /\ req[r].green => shim.since < StaleAfter + BeatEvery

\* A test signal on its way was checked against the switch.
Armed ==
    EnvDryRun => \A r \in Requests : req[r].pc = "post" => req[r].armed

\* As long as no two changes of the alias map overlapped there is one at a time, and the
\* map it will write is the stored one with its change.
Change(m, l) == IF l.broker = "delete" THEN Unmapped(m, l.alias) ELSE Mapped(m, l.alias, l.broker)

OneChange ==
    ~ overlap =>
        /\ \A r, q \in Changing : r = q
        /\ faults = 0 =>
            \A r \in Requests : req[r].pc = "alias" => req[r].map = Change(aliasMap, req[r])

\* Whoever is saving a journal entry holds the lock, and has what is in the file.
Saving(r) == req[r].pc \in {"journal", "journal-save"}

JournalHeld ==
    /\ \A r \in Requests : Saving(r) => lock = r
    /\ faults = 0 =>
        \A r \in Requests :
            req[r].pc = "journal-save" => req[r].entries = journal \cup {req[r].ticket}

DashInv ==
    /\ StoreInv
    /\ DashTyped
    /\ faults = 0 => HeartbeatAges /\ VerdictHolds
    /\ Armed /\ OneChange /\ JournalHeld
    /\ DryRunIsObeyed /\ AnsweredChangesAreKept

-----------------------------------------------------------------------------
(* One request at a time moves, within its own panel. *)

SwitchPanel(r) ==
    \/ SetDryRunBegins(r) \/ SetDryRunWrites(r) \/ SetDryRunReplies(r)
    \/ TestSignalBegins(r) \/ TestSignalChecks(r) \/ TestSignalPosts(r)
AliasPanel(r) == AliasReads(r) \/ AliasWrites(r) \/ AliasReplies(r)
JournalPanel(r) == JournalLocks(r) \/ JournalLoads(r) \/ JournalSaves(r)
PipelinePanel(r) ==
    \/ PipelineProbes(r) \/ PipelineReadsAge(r) \/ PipelineReadsState(r)
    \/ PipelineVerdict(r) \/ PipelineReplies(r)

SwitchPcs == {"dryrun", "dryrun-check", "test", "post"}
AliasPcs == {"alias", "alias-check"}
JournalPcs == {"journal", "journal-save"}
PipelinePcs == {"pipeline", "pipeline-state", "pipeline-dry", "pipeline-done"}

\* Request r goes from a place among pcs to another, or from or to none.
Within(r, pcs) ==
    /\ DOMAIN req' = Requests
    /\ \A q \in Requests \ {r} : req'[q] = req[q]
    /\ req[r].pc \in pcs \cup {"free"} /\ req'[r].pc \in pcs \cup {"free"}
    /\ UNCHANGED <<schema, pipe>>

\* A request that goes on changes its own entry and no other (Handler).
LEMMA Goes ==
    ASSUME DashTyped, NEW r \in Requests, NEW x, req' = [req EXCEPT ![r] = x]
    PROVE  DOMAIN req' = Requests /\ req'[r] = x /\ \A q \in Requests \ {r} : req'[q] = req[q]
<1> QED
  BY Zenon DEF DashTyped

\* The requests about the switch and the test signal (set_dry_run_mode,
\* send_test_signal).
LEMMA SwitchMoves ==
    ASSUME DashTyped, NEW r \in Requests, SwitchPanel(r)
    PROVE  Within(r, SwitchPcs) /\ UNCHANGED <<aliases, notes>>
<1> USE DEF Within, SwitchPcs, Begin, Goto, Reply, Free
<1>1. CASE SetDryRunBegins(r)
  <2>1. PICK enabled \in BOOLEAN : Begin(r, [pc |-> "dryrun", enabled |-> enabled])
    BY <1>1, Zenon DEF SetDryRunBegins
  <2>2. req[r].pc = "free" /\ req' = [req EXCEPT ![r] = [pc |-> "dryrun", enabled |-> enabled]]
    BY <2>1, Zenon
  <2>3. [pc |-> "dryrun", enabled |-> enabled].pc = "dryrun"
    BY Zenon
  <2> QED
    BY <1>1, <2>2, <2>3, Goes, Zenon DEF SetDryRunBegins
<1>2. CASE SetDryRunWrites(r)
  BY <1>2, Goes, Zenon DEF SetDryRunWrites
<1>3. CASE SetDryRunReplies(r)
  BY <1>3, Goes, Zenon DEF SetDryRunReplies
<1>4. CASE TestSignalBegins(r)
  BY <1>4, Goes, Zenon DEF TestSignalBegins
<1>5. CASE TestSignalChecks(r)
  <2>1. PICK dry \in BOOLEAN : req' = [req EXCEPT ![r] = IF dry THEN Free ELSE [pc |-> "post", armed |-> ~ Effective]]
    BY <1>5, Zenon DEF TestSignalChecks
  <2>2. (IF dry THEN Free ELSE [pc |-> "post", armed |-> ~ Effective]).pc \in {"post", "free"}
    BY Zenon
  <2> QED
    BY <1>5, <2>1, <2>2, Goes, Zenon DEF TestSignalChecks
<1>6. CASE TestSignalPosts(r)
  BY <1>6, Goes, Zenon DEF TestSignalPosts
<1> QED
  BY <1>1, <1>2, <1>3, <1>4, <1>5, <1>6, Zenon DEF SwitchPanel

\* The requests about the alias map (update_symbol_map).
LEMMA AliasMoves ==
    ASSUME DashTyped, NEW r \in Requests, AliasPanel(r)
    PROVE  Within(r, AliasPcs) /\ UNCHANGED <<settings, notes, posts>>
<1> USE DEF Within, AliasPcs, Begin, Goto, Reply, Free
<1>1. CASE AliasReads(r)
  <2>1. PICK a \in Aliases, b \in Brokers \cup {"delete"}, m \in {aliasMap, << >>} :
          Begin(r, [pc |-> "alias", alias |-> a, broker |-> b,
                    map |-> IF b = "delete" THEN Unmapped(m, a) ELSE Mapped(m, a, b)])
    BY <1>1, Zenon DEF AliasReads
  <2> DEFINE x == [pc |-> "alias", alias |-> a, broker |-> b,
                   map |-> IF b = "delete" THEN Unmapped(m, a) ELSE Mapped(m, a, b)]
  <2>2. req[r].pc = "free" /\ req' = [req EXCEPT ![r] = x]
    BY <2>1, Zenon
  <2>3. x.pc = "alias"
    BY Zenon
  <2>4. UNCHANGED <<schema, pipe, settings, notes, posts>>
    BY <1>1, Zenon DEF AliasReads
  <2> HIDE DEF x
  <2> QED
    BY <2>2, <2>3, <2>4, Goes, Zenon
<1>2. CASE AliasWrites(r)
  BY <1>2, Goes, Zenon DEF AliasWrites
<1>3. CASE AliasReplies(r)
  BY <1>3, Goes, Zenon DEF AliasReplies
<1> QED
  BY <1>1, <1>2, <1>3, Zenon DEF AliasPanel

\* The requests about the journal (save_journal_entry).
LEMMA JournalMoves ==
    ASSUME DashTyped, NEW r \in Requests, JournalPanel(r)
    PROVE  Within(r, JournalPcs) /\ UNCHANGED <<settings, aliases, posts>>
<1> USE DEF Within, JournalPcs, Begin, Goto, Reply, Free
<1>1. CASE JournalLocks(r)
  <2>1. PICK t \in Trades : Begin(r, [pc |-> "journal", ticket |-> t])
    BY <1>1, Zenon DEF JournalLocks
  <2>2. req[r].pc = "free" /\ req' = [req EXCEPT ![r] = [pc |-> "journal", ticket |-> t]]
    BY <2>1, Zenon
  <2>3. [pc |-> "journal", ticket |-> t].pc = "journal"
    BY Zenon
  <2> QED
    BY <1>1, <2>2, <2>3, Goes, Zenon DEF JournalLocks
<1>2. CASE JournalLoads(r)
  <2>1. PICK j \in {journal, {}} :
          req' = [req EXCEPT ![r] = [pc |-> "journal-save", ticket |-> req[r].ticket,
                                     entries |-> j \cup {req[r].ticket}]]
    BY <1>2, Zenon DEF JournalLoads
  <2>2. [pc |-> "journal-save", ticket |-> req[r].ticket,
         entries |-> j \cup {req[r].ticket}].pc = "journal-save"
    BY Zenon
  <2> QED
    BY <1>2, <2>1, <2>2, Goes, Zenon DEF JournalLoads
<1>3. CASE JournalSaves(r)
  BY <1>3, Goes, Zenon DEF JournalSaves
<1> QED
  BY <1>1, <1>2, <1>3, Zenon DEF JournalPanel

\* The requests for a verdict (pipeline_status).
LEMMA PipelineMoves ==
    ASSUME DashTyped, NEW r \in Requests, PipelinePanel(r)
    PROVE  Within(r, PipelinePcs) /\ UNCHANGED <<settings, aliases, notes, posts>>
<1> USE DEF Within, PipelinePcs, Begin, Goto, Reply, Free
<1>1. CASE PipelineProbes(r)
  BY <1>1, Goes, Zenon DEF PipelineProbes
<1>2. CASE PipelineReadsAge(r)
  <2>1. PICK fresh \in {beat.age < StaleAfter, FALSE} :
          req' = [req EXCEPT ![r] = [pc |-> "pipeline-state", ok |-> req[r].ok /\ fresh, green |-> FALSE]]
    BY <1>2, Zenon DEF PipelineReadsAge
  <2> DEFINE x == [pc |-> "pipeline-state", ok |-> req[r].ok /\ fresh, green |-> FALSE]
  <2>2. x.pc = "pipeline-state" /\ req' = [req EXCEPT ![r] = x]
    BY <2>1, Zenon
  <2>3. req[r].pc = "pipeline" /\ UNCHANGED <<schema, pipe, settings, aliases, notes, posts>>
    BY <1>2, Zenon DEF PipelineReadsAge
  <2> HIDE DEF x
  <2> QED
    BY <2>2, <2>3, Goes, Zenon
<1>3. CASE PipelineReadsState(r)
  <2>1. PICK attached \in {beat.attached, FALSE} :
          req' = [req EXCEPT ![r] = [pc |-> "pipeline-dry", ok |-> req[r].ok /\ attached, green |-> FALSE]]
    BY <1>3, Zenon DEF PipelineReadsState
  <2> DEFINE x == [pc |-> "pipeline-dry", ok |-> req[r].ok /\ attached, green |-> FALSE]
  <2>2. x.pc = "pipeline-dry" /\ req' = [req EXCEPT ![r] = x]
    BY <2>1, Zenon
  <2>3. req[r].pc = "pipeline-state" /\ UNCHANGED <<schema, pipe, settings, aliases, notes, posts>>
    BY <1>3, Zenon DEF PipelineReadsState
  <2> HIDE DEF x
  <2> QED
    BY <2>2, <2>3, Goes, Zenon
<1>4. CASE PipelineVerdict(r)
  <2>1. PICK dry \in BOOLEAN :
          req' = [req EXCEPT ![r] = [pc |-> "pipeline-done", ok |-> req[r].ok, green |-> req[r].ok /\ ~ dry]]
    BY <1>4, Zenon DEF PipelineVerdict
  <2> DEFINE x == [pc |-> "pipeline-done", ok |-> req[r].ok, green |-> req[r].ok /\ ~ dry]
  <2>2. x.pc = "pipeline-done" /\ req' = [req EXCEPT ![r] = x]
    BY <2>1, Zenon
  <2>3. req[r].pc = "pipeline-dry" /\ UNCHANGED <<schema, pipe, settings, aliases, notes, posts>>
    BY <1>4, Zenon DEF PipelineVerdict
  <2> HIDE DEF x
  <2> QED
    BY <2>2, <2>3, Goes, Zenon
<1>5. CASE PipelineReplies(r)
  BY <1>5, Goes, Zenon DEF PipelineReplies
<1> QED
  BY <1>1, <1>2, <1>3, <1>4, <1>5, Zenon DEF PipelinePanel

\* Only a failure raises the count of faults, and it never falls.
Counting == faults' \in Nat /\ (faults' = 0 => faults = 0 /\ faults' = faults)

\* What every step does to the count of faults (_ensure_schema, Handler,
\* position_monitor).
LEMMA FaultsCount ==
    ASSUME StoreTyped, Next
    PROVE  Counting
<1>0. faults \in Nat
  BY Zenon DEF StoreTyped
<1>1. ASSUME NEW o \in Openers, Migrate(o)
      PROVE  Counting
  BY <1>1, MigrateTyped, Zenon DEF StoreTyped, Counting
<1>2. (Fault \/ faults' = faults) => Counting
  BY <1>0 DEF Fault, Counting
<1>3. ASSUME NEW r \in Requests, Handle(r)
      PROVE  Fault \/ faults' = faults
  BY <1>3, Zenon
  DEF Handle, SetDryRunBegins, SetDryRunWrites, SetDryRunReplies, AliasReads, AliasWrites,
      AliasReplies, JournalLocks, JournalLoads, JournalSaves, TestSignalBegins, TestSignalChecks,
      TestSignalPosts, PipelineProbes, PipelineReadsAge, PipelineReadsState, PipelineVerdict,
      PipelineReplies, ReadsDryRun, ReadsAliases
<1>4. ASSUME BeatStamp \/ BeatState \/ Tick \/ ShimStops \/ ShimStarts \/ ServiceStops
      PROVE  Fault \/ faults' = faults
  BY <1>4, Zenon DEF BeatStamp, BeatState, Tick, ShimStops, ShimStarts, ServiceStops
<1> QED
  BY <1>1, <1>2, <1>3, <1>4, Zenon DEF Next

-----------------------------------------------------------------------------
(* The switch and the test signal. *)

\* The requests about the switch obey it: a position is answered as in force only when it
\* was read back, and a test signal is posted only past the check (set_dry_run_mode,
\* send_test_signal).
LEMMA SwitchObeyed ==
    ASSUME DashTyped, Counting, Armed, DryRunIsObeyed, NEW r \in Requests, SwitchPanel(r)
    PROVE  Armed' /\ DryRunIsObeyed'
<1>0. Within(r, SwitchPcs)
  BY SwitchMoves, Zenon
<1>1. ASSUME req'[r].pc # "post"
      PROVE  Armed'
  BY <1>0, <1>1, Zenon DEF Within, Armed
<1>2. ASSUME UNCHANGED <<dryRun, told>>
      PROVE  SwitchAnsweredIsInForce'
  BY <1>2, Zenon DEF Counting, DryRunIsObeyed, SwitchAnsweredIsInForce, Effective
<1>3. ASSUME UNCHANGED posts
      PROVE  TestSignalWasArmed'
  BY <1>3, Zenon DEF DryRunIsObeyed, TestSignalWasArmed
<1>4. CASE SetDryRunBegins(r)
  <2>1. req'[r].pc = "dryrun" /\ UNCHANGED <<dryRun, told, posts>>
    <3>1. PICK enabled \in BOOLEAN : req' = [req EXCEPT ![r] = [pc |-> "dryrun", enabled |-> enabled]]
      BY <1>4, Zenon DEF SetDryRunBegins, Begin
    <3>2. req'[r] = [pc |-> "dryrun", enabled |-> enabled]
      BY <3>1, Goes, Zenon
    <3> QED
      BY <1>4, <3>2 DEF SetDryRunBegins, settings
  <2> QED
    BY <1>1, <1>2, <1>3, <2>1, Zenon DEF DryRunIsObeyed
<1>5. CASE SetDryRunWrites(r)
  <2>1. req'[r].pc = "dryrun-check" /\ UNCHANGED posts
    BY <1>5, Goes, Zenon DEF SetDryRunWrites, Goto
  <2>2. SwitchAnsweredIsInForce'
    BY <1>2, <1>5, Zenon DEF SetDryRunWrites, SwitchAnsweredIsInForce, settings
  <2> QED
    BY <1>1, <1>3, <2>1, <2>2, Zenon DEF DryRunIsObeyed
<1>6. CASE SetDryRunReplies(r)
  <2>1. req'[r].pc = "free" /\ UNCHANGED <<dryRun, posts>>
    BY <1>6, Goes, Zenon DEF SetDryRunReplies, Reply, Goto, Free
  <2>2. PICK after \in BOOLEAN : /\ ReadsDryRun(after)
                                 /\ told' = IF after = req[r].enabled THEN OnOff(after) ELSE told
    BY <1>6, Zenon DEF SetDryRunReplies
  <2>3. ASSUME faults' # 0
        PROVE  SwitchAnsweredIsInForce'
    BY <2>3, Zenon DEF SwitchAnsweredIsInForce
  <2>4. ASSUME faults' = 0
        PROVE  SwitchAnsweredIsInForce'
    <3>1. after = Effective /\ faults = 0
      BY <2>2, <2>4 DEF Counting, ReadsDryRun, Fault
    <3>2. told' = OnOff(Effective) \/ told' = told
      BY <2>2, <3>1, Zenon
    <3>3. Effective' = Effective
      BY <2>1, Zenon DEF Effective
    <3> QED
      BY <3>1, <3>2, <3>3, Zenon DEF SwitchAnsweredIsInForce, DryRunIsObeyed
  <2>5. SwitchAnsweredIsInForce'
    BY <2>3, <2>4, Zenon
  <2> QED
    BY <1>1, <1>3, <2>1, <2>5, Zenon DEF DryRunIsObeyed
<1>7. CASE TestSignalBegins(r)
  <2>1. req'[r].pc = "test" /\ UNCHANGED <<dryRun, told, posts>>
    BY <1>7, Goes, Zenon DEF TestSignalBegins, Begin, settings
  <2> QED
    BY <1>1, <1>2, <1>3, <2>1, Zenon DEF DryRunIsObeyed
<1>8. CASE TestSignalChecks(r)
  <2>1. UNCHANGED <<dryRun, told, posts>>
    BY <1>8, Zenon DEF TestSignalChecks, settings
  <2>2. PICK dry \in BOOLEAN :
          /\ ReadsDryRun(dry)
          /\ req' = [req EXCEPT ![r] = IF dry THEN Free ELSE [pc |-> "post", armed |-> ~ Effective]]
    BY <1>8, Zenon DEF TestSignalChecks, Goto
  <2>3. req'[r] = IF dry THEN Free ELSE [pc |-> "post", armed |-> ~ Effective]
    BY <2>2, Goes, Zenon
  <2>4. CASE dry
    <3>1. req'[r].pc = "free"
      BY <2>3, <2>4 DEF Free
    <3> QED
      BY <1>1, <1>2, <1>3, <2>1, <3>1, Zenon DEF DryRunIsObeyed
  <2>5. CASE ~ dry
    <3>1. EnvDryRun => ~ Effective
      BY <2>2, <2>5, DashboardAssumption, Zenon DEF ReadsDryRun
    <3>2. req'[r] = [pc |-> "post", armed |-> ~ Effective]
      BY <2>3, <2>5, Zenon
    <3> DEFINE x == ~ Effective
    <3>x. req'[r] = [pc |-> "post", armed |-> x] /\ (x => ~ Effective) /\ (~ Effective => x)
      BY <3>2, Zenon
    <3> HIDE DEF x
    <3>2a. req'[r].armed = x
      BY <3>x
    <3>3. EnvDryRun => req'[r].armed
      BY <3>1, <3>2a, <3>x, Zenon
    <3>4. Armed'
      BY <1>0, <3>3, Zenon DEF Within, Armed
    <3> QED
      BY <1>2, <1>3, <2>1, <3>4, Zenon DEF DryRunIsObeyed
  <2> QED
    BY <2>4, <2>5, Zenon
<1>9. CASE TestSignalPosts(r)
  <2>1. req'[r].pc = "free" /\ UNCHANGED <<dryRun, told>>
    BY <1>9, Goes, Zenon DEF TestSignalPosts, Reply, Goto, Free, settings
  <2>2. req[r].pc = "post" /\ posts' = posts \cup {req[r].armed}
    BY <1>9, Zenon DEF TestSignalPosts
  <2>3. EnvDryRun => req[r].armed # FALSE
    BY <2>2, Zenon DEF Armed
  <2>4. TestSignalWasArmed'
    BY <2>2, <2>3, Zenon DEF TestSignalWasArmed, DryRunIsObeyed
  <2> QED
    BY <1>1, <1>2, <2>1, <2>4, Zenon DEF DryRunIsObeyed
<1> QED
  BY <1>4, <1>5, <1>6, <1>7, <1>8, <1>9, Zenon DEF SwitchPanel

\* The other requests do not come near the switch (Handler).
LEMMA SwitchKept ==
    ASSUME DashTyped, Counting, Armed, DryRunIsObeyed, UNCHANGED <<settings, posts>>,
           \A q \in Requests : req'[q].pc = "post" => req'[q] = req[q]
    PROVE  Armed' /\ DryRunIsObeyed'
<1>1. Armed'
  BY Zenon DEF Armed
<1>2. SwitchAnsweredIsInForce'
  BY Zenon DEF Counting, DryRunIsObeyed, SwitchAnsweredIsInForce, Effective, settings
<1>3. TestSignalWasArmed'
  BY Zenon DEF DryRunIsObeyed, TestSignalWasArmed
<1> QED
  BY <1>1, <1>2, <1>3, Zenon DEF DryRunIsObeyed

-----------------------------------------------------------------------------
(* The alias map. *)

\* A change that overlaps no other writes what the map would be had it run alone
\* (update_symbol_map).
LEMMA AliasChanges ==
    ASSUME DashTyped, Counting, OneChange, AliasesAreKept, NEW r \in Requests, AliasPanel(r)
    PROVE  OneChange' /\ AliasesAreKept'
<1>0. Within(r, AliasPcs)
  BY AliasMoves, Zenon
<1>1. \A q \in Requests \ {r} : (q \in Changing') = (q \in Changing)
  BY <1>0 DEF Within, Changing
<1>2. CASE AliasReads(r)
  <2>1. PICK a \in Aliases, b \in Brokers \cup {"delete"}, m \in {aliasMap, << >>} :
          /\ ReadsAliases(m)
          /\ Begin(r, [pc |-> "alias", alias |-> a, broker |-> b,
                       map |-> IF b = "delete" THEN Unmapped(m, a) ELSE Mapped(m, a, b)])
    BY <1>2, Zenon DEF AliasReads
  <2>1a. UNCHANGED <<aliasMap, wanted>> /\ overlap' = (overlap \/ Changing # {})
    BY <1>2, Zenon DEF AliasReads
  <2>2. req'[r] = [pc |-> "alias", alias |-> a, broker |-> b,
                   map |-> IF b = "delete" THEN Unmapped(m, a) ELSE Mapped(m, a, b)]
    BY <2>1, Goes, Zenon DEF Begin
  <2>3. ASSUME ~ overlap'
        PROVE  Changing = {} /\ Changing' = {r}
    <3>1. Changing = {} /\ ~ overlap
      BY <2>1a, <2>3, Zenon
    <3>2. r \in Changing' /\ Changing' \subseteq Requests
      BY <2>2 DEF Changing
    <3> QED
      BY <1>1, <3>1, <3>2, Zenon
  <2>4. faults' = 0 => m = aliasMap
    BY <2>1 DEF Counting, ReadsAliases, Fault
  <2>5. faults' = 0 => req'[r].map = Change(aliasMap, req'[r])
    BY <2>2, <2>4 DEF Change
  <2>6. OneChange'
    <3> SUFFICES ASSUME ~ overlap'
                 PROVE  /\ \A x, q \in Changing' : x = q
                        /\ faults' = 0 => \A q \in Requests : req'[q].pc = "alias" =>
                                              req'[q].map = Change(aliasMap', req'[q])
      BY Zenon DEF OneChange
    <3>1. Changing' = {r} /\ aliasMap' = aliasMap
      BY <2>1a, <2>3, Zenon
    <3>2. \A q \in Requests : req'[q].pc = "alias" => q = r
      BY <3>1, Zenon DEF Changing
    <3> QED
      BY <2>5, <3>1, <3>2, Zenon
  <2>7. AliasesAreKept'
    BY <2>1, <2>1a, Zenon DEF Counting, AliasesAreKept
  <2> QED
    BY <2>6, <2>7, Zenon
<1>3. CASE AliasWrites(r)
  <2>1. r \in Changing /\ UNCHANGED overlap /\ req[r].pc = "alias"
    BY <1>3, Zenon DEF AliasWrites, Changing
  <2>2. req'[r] = [pc |-> "alias-check"]
    BY <1>3, Goes, Zenon DEF AliasWrites, Goto
  <2>3. Changing' = Changing
    BY <1>1, <2>1, <2>2 DEF Changing
  <2>4. ASSUME ~ overlap, NEW q \in Requests, req'[q].pc = "alias"
        PROVE  FALSE
    <3>1. q # r /\ q \in Changing'
      BY <2>2, <2>4 DEF Changing
    <3> QED
      BY <2>1, <2>3, <2>4, <3>1, Zenon DEF OneChange
  <2>5. OneChange'
    BY <2>1, <2>3, <2>4, Zenon DEF OneChange
  <2>6. ASSUME ~ overlap, faults' = 0
        PROVE  aliasMap' = wanted'
    <3>1. faults = 0 /\ aliasMap = wanted /\ req[r].map = Change(aliasMap, req[r])
      BY <2>1, <2>6, Zenon DEF Counting, AliasesAreKept, OneChange
    <3>2. \/ aliasMap' = req[r].map /\ wanted' = Change(wanted, req[r])
          \/ UNCHANGED <<aliasMap, wanted>>
      BY <1>3, Zenon DEF AliasWrites, Change
    <3> QED
      BY <3>1, <3>2, Zenon
  <2> QED
    BY <2>1, <2>5, <2>6, Zenon DEF AliasesAreKept
<1>4. CASE AliasReplies(r)
  <2>1. req'[r].pc = "free" /\ UNCHANGED <<aliasMap, wanted, overlap>>
    BY <1>4, Goes, Zenon DEF AliasReplies, Reply, Goto, Free, aliases
  <2>2. Changing' \subseteq Changing
    BY <1>1, <2>1, Zenon DEF Changing
  <2>3. \A q \in Requests : req'[q].pc = "alias" => req'[q] = req[q]
    BY <1>0, <2>1, Zenon DEF Within
  <2> QED
    BY <2>1, <2>2, <2>3, Zenon DEF Counting, OneChange, AliasesAreKept
<1> QED
  BY <1>2, <1>3, <1>4, Zenon DEF AliasPanel

\* The other requests do not change the map (Handler).
LEMMA AliasKept ==
    ASSUME DashTyped, Counting, OneChange, AliasesAreKept, UNCHANGED aliases,
           \A q \in Requests : req'[q].pc \in AliasPcs => req'[q] = req[q]
    PROVE  OneChange' /\ AliasesAreKept'
<1>1. Changing' \subseteq Changing
  BY Zenon DEF Changing, AliasPcs
<1>2. \A q \in Requests : req'[q].pc = "alias" => req'[q] = req[q]
  BY Zenon DEF AliasPcs
<1> QED
  BY <1>1, <1>2, Zenon DEF aliases, Counting, OneChange, AliasesAreKept

-----------------------------------------------------------------------------
(* The journal. *)

\* Saves exclude each other, so each writes back what is in the file and its entry
\* (save_journal_entry).
LEMMA JournalSaved ==
    ASSUME DashTyped, Counting, JournalHeld, SavedEntriesAreKept, NEW r \in Requests,
           JournalPanel(r)
    PROVE  JournalHeld' /\ SavedEntriesAreKept'
<1>0. Within(r, JournalPcs)
  BY JournalMoves, Zenon
<1>1. ASSUME NEW q \in Requests, q # r, Saving(q)'
      PROVE  Saving(q) /\ lock = q /\ req'[q] = req[q]
  BY <1>0, <1>1, Zenon DEF Within, Saving, JournalHeld
<1>2. CASE JournalLocks(r)
  <2>1. lock = "free" /\ lock' = r /\ UNCHANGED <<journal, saved>> /\ req'[r].pc = "journal"
    <3>1. PICK t \in Trades : req' = [req EXCEPT ![r] = [pc |-> "journal", ticket |-> t]]
      BY <1>2, Zenon DEF JournalLocks, Begin
    <3>2. req'[r] = [pc |-> "journal", ticket |-> t]
      BY <3>1, Goes, Zenon
    <3> QED
      BY <1>2, <3>2 DEF JournalLocks
  <2>2. ASSUME NEW q \in Requests, Saving(q)'
        PROVE  q = r
    BY <1>1, <2>1, <2>2, DashboardAssumption, Zenon
  <2>3. JournalHeld'
    BY <2>1, <2>2, Zenon DEF JournalHeld, Saving
  <2> QED
    BY <2>1, <2>3, Zenon DEF SavedEntriesAreKept, Counting
<1>3. CASE JournalLoads(r)
  <2>1. req[r].pc = "journal" /\ UNCHANGED <<journal, lock, saved>>
    BY <1>3, Zenon DEF JournalLoads, notes
  <2>2. PICK j \in {journal, {}} :
          /\ IF j = journal THEN UNCHANGED faults ELSE Fault
          /\ req' = [req EXCEPT ![r] = [pc |-> "journal-save", ticket |-> req[r].ticket,
                                        entries |-> j \cup {req[r].ticket}]]
    BY <1>3, Zenon DEF JournalLoads, Goto
  <2>3. req'[r] = [pc |-> "journal-save", ticket |-> req[r].ticket, entries |-> j \cup {req[r].ticket}]
    BY <2>2, Goes, Zenon
  <2>4. faults' = 0 => j = journal
    BY <2>2 DEF Counting, Fault
  <2>5. lock = r
    BY <2>1, Zenon DEF JournalHeld, Saving
  <2>6. ASSUME NEW q \in Requests, Saving(q)'
        PROVE  q = r
    BY <1>1, <2>5, <2>6, Zenon
  <2>7. JournalHeld'
    BY <2>1, <2>3, <2>4, <2>5, <2>6 DEF JournalHeld, Saving
  <2> QED
    BY <2>1, <2>7, Zenon DEF SavedEntriesAreKept, Counting
<1>4. CASE JournalSaves(r)
  <2>1. req[r].pc = "journal-save" /\ lock' = "free" /\ req'[r].pc = "free"
    BY <1>4, Goes, Zenon DEF JournalSaves, Reply, Goto, Free
  <2>2. lock = r
    BY <2>1, Zenon DEF JournalHeld, Saving
  <2>3. ASSUME NEW q \in Requests, Saving(q)'
        PROVE  FALSE
    BY <1>1, <2>1, <2>2, <2>3, Zenon DEF Saving
  <2>4. JournalHeld'
    BY <2>3, Zenon DEF JournalHeld, Saving
  <2>5. ASSUME faults' = 0
        PROVE  saved' \subseteq journal'
    <3>1. faults = 0 /\ saved \subseteq journal /\ req[r].entries = journal \cup {req[r].ticket}
      BY <2>1, <2>5, Zenon DEF Counting, SavedEntriesAreKept, JournalHeld
    <3>2. \/ journal' = req[r].entries /\ saved' = saved \cup {req[r].ticket}
          \/ UNCHANGED <<journal, saved>>
      BY <1>4, Zenon DEF JournalSaves
    <3> QED
      BY <3>1, <3>2, Zenon
  <2> QED
    BY <2>4, <2>5, Zenon DEF SavedEntriesAreKept
<1> QED
  BY <1>2, <1>3, <1>4, Zenon DEF JournalPanel

\* The other requests leave the file and its lock alone (Handler).
LEMMA JournalKept ==
    ASSUME DashTyped, Counting, JournalHeld, SavedEntriesAreKept, UNCHANGED notes,
           \A q \in Requests : req'[q].pc \in JournalPcs => req'[q] = req[q]
    PROVE  JournalHeld' /\ SavedEntriesAreKept'
<1>1. \A q \in Requests : Saving(q)' => Saving(q) /\ req'[q] = req[q]
  BY Zenon DEF Saving, JournalPcs
<1>2. \A q \in Requests : req'[q].pc = "journal-save" => req'[q] = req[q]
  BY Zenon DEF JournalPcs
<1> QED
  BY <1>1, <1>2, Zenon DEF notes, JournalHeld, SavedEntriesAreKept, Counting

-----------------------------------------------------------------------------
(* The heartbeat and the verdict. *)

\* The age of what a verdict reads (position_monitor).
LEMMA StoredIsRecent ==
    ASSUME DashTyped, HeartbeatAges, beat.attached
    PROVE  shim.since <= beat.age + BeatEvery
<1>1. beat.age \in Nat /\ shim.since \in Nat /\ BeatEvery \in Nat
  BY DashboardAssumption, Zenon DEF DashTyped
<1>2. shim.since <= beat.age \/ shim.since <= beat.age + BeatEvery
  BY Zenon DEF HeartbeatAges
<1> QED
  BY <1>1, <1>2

\* A verdict is green only on a time stamp and a state that are recent together
\* (pipeline_status).
LEMMA VerdictReads ==
    ASSUME DashTyped, faults' = 0, Counting, HeartbeatAges, VerdictHolds, NEW r \in Requests,
           PipelinePanel(r)
    PROVE  VerdictHolds'
<1>0. Within(r, PipelinePcs) /\ beat' = beat /\ shim' = shim /\ faults = 0
  BY PipelineMoves, Zenon DEF Within, pipe, Counting
<1>1. /\ beat.age \in Nat /\ shim.since \in Nat
      /\ BeatEvery \in Nat /\ StaleAfter \in Nat
  BY DashboardAssumption, Zenon DEF DashTyped
<1>2. ASSUME /\ req'[r].pc = "pipeline-state" /\ req'[r].ok => beat.age < StaleAfter
             /\ req'[r].pc = "pipeline-dry" /\ req'[r].ok => shim.since < StaleAfter + BeatEvery
             /\ req'[r].pc = "pipeline-done" /\ req'[r].green => shim.since < StaleAfter + BeatEvery
      PROVE  VerdictHolds'
  BY <1>0, <1>2, Zenon DEF Within, VerdictHolds
<1>3. CASE PipelineProbes(r)
  <2>1. req'[r].pc = "pipeline"
    BY <1>3, Goes, Zenon DEF PipelineProbes, Begin
  <2> QED
    BY <1>2, <2>1, Zenon
<1>4. CASE PipelineReadsAge(r)
  <2>1. PICK fresh \in {beat.age < StaleAfter, FALSE} :
          req' = [req EXCEPT ![r] = [pc |-> "pipeline-state", ok |-> req[r].ok /\ fresh, green |-> FALSE]]
    BY <1>4, Zenon DEF PipelineReadsAge, Goto
  <2>2. req'[r] = [pc |-> "pipeline-state", ok |-> req[r].ok /\ fresh, green |-> FALSE]
    BY <2>1, Goes, Zenon
  <2>3. req'[r].pc = "pipeline-state" /\ (req'[r].ok => fresh)
    <3>1. req'[r].pc = "pipeline-state"
      BY <2>2
    <3> DEFINE x == req[r].ok /\ fresh
    <3>x. req'[r] = [pc |-> "pipeline-state", ok |-> x, green |-> FALSE] /\ (x => req[r].ok /\ fresh)
      BY <2>2, Zenon
    <3> HIDE DEF x
    <3>2. req'[r].ok = x
      BY <3>x
    <3> QED
      BY <3>1, <3>2, <3>x, Zenon
  <2>4. fresh => beat.age < StaleAfter
    BY <2>1, Zenon
  <2>5. req'[r].ok => beat.age < StaleAfter
    BY <2>3, <2>4, Zenon
  <2> QED
    BY <1>2, <2>3, <2>5, Zenon
<1>5. CASE PipelineReadsState(r)
  <2>1. PICK attached \in {beat.attached, FALSE} :
          req' = [req EXCEPT ![r] = [pc |-> "pipeline-dry", ok |-> req[r].ok /\ attached, green |-> FALSE]]
    BY <1>5, Zenon DEF PipelineReadsState, Goto
  <2>2. req'[r] = [pc |-> "pipeline-dry", ok |-> req[r].ok /\ attached, green |-> FALSE]
    BY <2>1, Goes, Zenon
  <2>3. req'[r].pc = "pipeline-dry" /\ (req'[r].ok => req[r].ok /\ beat.attached)
    <3>1. req'[r].pc = "pipeline-dry"
      BY <2>2
    <3> DEFINE x == req[r].ok /\ attached
    <3>x. req'[r] = [pc |-> "pipeline-dry", ok |-> x, green |-> FALSE] /\ (x => req[r].ok /\ attached)
      BY <2>2, Zenon
    <3> HIDE DEF x
    <3>2. req'[r].ok = x
      BY <3>x
    <3>3. attached => beat.attached
      BY <2>1, Zenon
    <3> QED
      BY <3>1, <3>2, <3>3, <3>x, Zenon
  <2>4. req[r].ok => beat.age < StaleAfter
    BY <1>5, Zenon DEF PipelineReadsState, VerdictHolds
  <2>5. req'[r].ok => beat.age < StaleAfter /\ shim.since <= beat.age + BeatEvery
    BY <2>3, <2>4, StoredIsRecent, Zenon
  <2>6. req'[r].ok => shim.since < StaleAfter + BeatEvery
    BY <1>1, <2>5
  <2> QED
    BY <1>2, <2>3, <2>6, Zenon
<1>6. CASE PipelineVerdict(r)
  <2>1. PICK dry \in BOOLEAN :
          req' = [req EXCEPT ![r] = [pc |-> "pipeline-done", ok |-> req[r].ok, green |-> req[r].ok /\ ~ dry]]
    BY <1>6, Zenon DEF PipelineVerdict, Goto
  <2>2. req'[r] = [pc |-> "pipeline-done", ok |-> req[r].ok, green |-> req[r].ok /\ ~ dry]
    BY <2>1, Goes, Zenon
  <2>3. req'[r].pc = "pipeline-done" /\ (req'[r].green => req[r].ok)
    <3>1. req'[r].pc = "pipeline-done"
      BY <2>2
    <3> DEFINE x == req[r].ok /\ ~ dry
    <3>x. req'[r] = [pc |-> "pipeline-done", ok |-> req[r].ok, green |-> x] /\ (x => req[r].ok /\ ~ dry)
      BY <2>2, Zenon
    <3> HIDE DEF x
    <3>2. req'[r].green = x
      BY <3>x
    <3> QED
      BY <3>1, <3>2, <3>x, Zenon
  <2>4. req'[r].green => shim.since < StaleAfter + BeatEvery
    BY <1>6, <2>3, Zenon DEF PipelineVerdict, VerdictHolds
  <2> QED
    BY <1>2, <2>3, <2>4, Zenon
<1>7. CASE PipelineReplies(r)
  <2>1. req'[r].pc = "free"
    BY <1>7, Goes, Zenon DEF PipelineReplies, Reply, Goto, Free
  <2> QED
    BY <1>2, <2>1, Zenon
<1> QED
  BY <1>3, <1>4, <1>5, <1>6, <1>7, Zenon DEF PipelinePanel

\* The steps of the executor and of the clock.
Beats == BeatStamp \/ BeatState \/ Tick \/ ShimStops \/ ShimStarts \/ ServiceStops

\* They keep the types (position_monitor).
LEMMA BeatsTyped ==
    ASSUME DashTyped, HeartbeatAges \/ faults # 0, Beats
    PROVE  DashTyped' /\ UNCHANGED <<schema, control>>
<1> USE DashboardAssumption DEF DashTyped
<1>0. req' = req /\ UNCHANGED <<schema, control>>
  BY Zenon DEF Beats, BeatStamp, BeatState, Tick, ShimStops, ShimStarts, ServiceStops, control
<1>1. CASE BeatStamp
  BY <1>0, <1>1, Zenon DEF BeatStamp
<1>2. CASE BeatState
  BY <1>0, <1>2, Zenon DEF BeatState
<1>3. CASE Tick
  <2>1. Older(beat.age) \in Nat /\ Older(shim.since) \in Nat
    BY DEF Older
  <2>2. shim.runs => shim.due - 1 \in Nat
    BY <1>3 DEF Tick
  <2> QED
    BY <1>0, <1>3, <2>1, <2>2, Zenon DEF Tick
<1>4. CASE ShimStops
  BY <1>0, <1>4, Zenon DEF ShimStops
<1>5. CASE ShimStarts
  BY <1>0, <1>5, Zenon DEF ShimStarts
<1>6. CASE ServiceStops
  BY <1>0, <1>6, Zenon DEF ServiceStops
<1> QED
  BY <1>0, <1>1, <1>2, <1>3, <1>4, <1>5, <1>6, Zenon DEF Beats

\* They keep the two halves of a heartbeat together, unless one could not be written
\* (position_monitor).
LEMMA BeatsAges ==
    ASSUME DashTyped, HeartbeatAges, Beats, ~ Fault
    PROVE  HeartbeatAges'
<1>0. /\ beat.age \in Nat /\ shim.since \in Nat /\ shim.due \in Nat
      /\ BeatEvery \in Nat \ {0} /\ StaleAfter \in Nat
  BY DashboardAssumption, Zenon DEF DashTyped
<1>1. CASE BeatStamp
  <2>1. /\ shim.runs /\ shim.due = 0 /\ ~ beat.half
        /\ beat'.age = 0 /\ beat'.half = TRUE /\ beat'.seen = shim.attached
        /\ beat'.attached = beat.attached /\ shim' = shim
    BY <1>1, Zenon DEF BeatStamp, DashTyped
  <2> QED
    BY <1>0, <2>1 DEF HeartbeatAges
<1>2. CASE BeatState
  <2>1. /\ shim.runs /\ beat.half
        /\ beat'.age = beat.age /\ beat'.half = FALSE /\ beat'.seen = FALSE
        /\ beat'.attached = beat.seen
        /\ shim'.runs = shim.runs /\ shim'.attached = shim.attached
        /\ shim'.since = shim.since /\ shim'.due = BeatEvery
    BY <1>2, Zenon DEF BeatState, DashTyped
  <2> QED
    BY <1>0, <2>1 DEF HeartbeatAges
<1>3. CASE Tick
  <2>1. /\ shim.runs => shim.due > 0 /\ ~ beat.half
        /\ beat'.age = Older(beat.age) /\ beat'.half = beat.half /\ beat'.seen = beat.seen
        /\ beat'.attached = beat.attached
        /\ shim'.runs = shim.runs /\ shim'.attached = shim.attached
        /\ shim'.due = IF shim.runs THEN shim.due - 1 ELSE shim.due
        /\ shim'.since = IF shim.attached /\ shim.runs THEN 0 ELSE Older(shim.since)
    BY <1>3, Zenon DEF Tick, DashTyped
  <2>2. /\ Older(shim.since) \in Nat /\ Older(beat.age) \in Nat
        /\ Older(shim.since) <= shim.since + 1
        /\ shim.since <= beat.age => Older(shim.since) <= Older(beat.age)
        /\ shim.since <= beat.age + BeatEvery => Older(shim.since) <= Older(beat.age) + BeatEvery
    BY <1>0 DEF Older, OldAge
  <2> QED
    BY <1>0, <2>1, <2>2 DEF HeartbeatAges
<1>4. CASE ShimStops
  <2>1. /\ beat' = beat /\ shim'.since = shim.since /\ shim'.due = shim.due
        /\ shim'.runs => shim.runs
        /\ shim'.attached => shim.attached
    BY <1>4, Zenon DEF ShimStops, DashTyped
  <2> QED
    BY <1>0, <2>1, Zenon DEF HeartbeatAges
<1>5. CASE ShimStarts
  <2>1. /\ beat'.age = beat.age /\ beat'.half = FALSE /\ shim'.since = 0 /\ shim'.due = BeatEvery
    BY <1>5, Zenon DEF ShimStarts, DashTyped
  <2> QED
    BY <1>0, <2>1 DEF HeartbeatAges
<1>6. CASE ServiceStops
  BY <1>6, Zenon DEF ServiceStops, HeartbeatAges
<1> QED
  BY <1>1, <1>2, <1>3, <1>4, <1>5, <1>6, Zenon DEF Beats

\* They do not let what a verdict has read grow old before it is answered
\* (pipeline_status).
LEMMA BeatsVerdict ==
    ASSUME DashTyped, DashTyped', VerdictHolds, Beats
    PROVE  VerdictHolds'
<1>0. /\ beat.age \in Nat /\ shim.since \in Nat /\ beat'.age \in Nat /\ shim'.since \in Nat
      /\ BeatEvery \in Nat /\ StaleAfter \in Nat
  BY DashboardAssumption, Zenon DEF DashTyped
<1>1. req' = req
  BY Zenon DEF Beats, BeatStamp, BeatState, Tick, ShimStops, ShimStarts, ServiceStops, control
<1>2. CASE Tick
  <2>1. \A r \in Requests : req'[r].pc \notin PipelinePcs
    BY <1>1, <1>2, Zenon DEF Tick, PipelinePcs
  <2> QED
    BY <2>1, Zenon DEF VerdictHolds, PipelinePcs
<1>3. CASE ~ Tick
  <2>1. beat'.age <= beat.age /\ shim'.since <= shim.since
    <3>1. CASE BeatStamp
      <4>1. (beat'.age = 0 \/ beat'.age = beat.age) /\ shim' = shim
        BY <3>1, Zenon DEF BeatStamp, DashTyped
      <4> QED
        BY <1>0, <4>1
    <3>2. CASE BeatState
      <4>1. beat'.age = beat.age /\ shim'.since = shim.since
        BY <3>2, Zenon DEF BeatState, DashTyped
      <4> QED
        BY <1>0, <4>1
    <3>3. CASE ShimStops
      BY <1>0, <3>3 DEF ShimStops, DashTyped
    <3>4. CASE ShimStarts
      BY <1>0, <3>4 DEF ShimStarts, DashTyped
    <3>5. CASE ServiceStops
      BY <1>0, <3>5 DEF ServiceStops
    <3> QED
      BY <1>3, <3>1, <3>2, <3>3, <3>4, <3>5, Zenon DEF Beats
  <2>2. /\ beat.age < StaleAfter => beat'.age < StaleAfter
        /\ shim.since < StaleAfter + BeatEvery => shim'.since < StaleAfter + BeatEvery
    BY <1>0, <2>1
  <2> QED
    BY <1>1, <2>2, Zenon DEF VerdictHolds
<1> QED
  BY <1>2, <1>3, Zenon

\* The other requests have no part in a verdict (Handler).
LEMMA VerdictKept ==
    ASSUME VerdictHolds, UNCHANGED pipe,
           \A q \in Requests : req'[q].pc \in PipelinePcs => req'[q] = req[q]
    PROVE  VerdictHolds'
<1> QED
  BY Zenon DEF VerdictHolds, PipelinePcs, pipe

-----------------------------------------------------------------------------
(* The theorems. *)

\* Whoever is at one of pcs after the step has not moved.
Others(pcs) == \A q \in Requests : req'[q].pc \in pcs => req'[q] = req[q]

\* A step within one panel leaves the requests of the others where they are (Handler).
LEMMA Elsewhere ==
    ASSUME DashTyped, NEW r \in Requests, NEW pcs, Within(r, pcs),
           NEW others, "free" \notin others, pcs \cap others = {}
    PROVE  Others(others)
<1> QED
  BY Zenon DEF Within, Others

\* A request keeps the invariant of the dashboard (Handler).
LEMMA RequestStep ==
    ASSUME DashInv, Counting, NEW r \in Requests, Handle(r)
    PROVE  /\ DashTyped'
           /\ faults' = 0 => HeartbeatAges' /\ VerdictHolds'
           /\ Armed' /\ OneChange' /\ JournalHeld'
           /\ DryRunIsObeyed' /\ AnsweredChangesAreKept'
<1> USE DEF DashInv
<1>0. SwitchPanel(r) \/ AliasPanel(r) \/ JournalPanel(r) \/ PipelinePanel(r)
  BY Zenon DEF Handle, SwitchPanel, AliasPanel, JournalPanel, PipelinePanel
<1>1. ASSUME NEW pcs, Within(r, pcs)
      PROVE  DashTyped' /\ (faults' = 0 => faults = 0 /\ HeartbeatAges /\ VerdictHolds /\ HeartbeatAges')
  BY <1>1, Zenon DEF Within, pipe, DashTyped, Counting, HeartbeatAges
<1>2. CASE SwitchPanel(r)
  <2>1. Within(r, SwitchPcs) /\ UNCHANGED <<aliases, notes>>
    BY <1>2, SwitchMoves, Zenon
  <2>0. Others(AliasPcs) /\ Others(JournalPcs) /\ Others(PipelinePcs)
    BY <2>1, Elsewhere DEF SwitchPcs, AliasPcs, JournalPcs, PipelinePcs
  <2>2. Armed' /\ DryRunIsObeyed'
    BY <1>2, SwitchObeyed, Zenon
  <2>3. OneChange' /\ AliasesAreKept'
    BY <2>0, <2>1, AliasKept, Zenon DEF Others, AnsweredChangesAreKept
  <2>4. JournalHeld' /\ SavedEntriesAreKept'
    BY <2>0, <2>1, JournalKept, Zenon DEF Others, AnsweredChangesAreKept
  <2>5. VerdictHolds => VerdictHolds'
    BY <2>0, <2>1, VerdictKept, Zenon DEF Others, Within
  <2> QED
    BY <1>1, <2>1, <2>2, <2>3, <2>4, <2>5, Zenon DEF AnsweredChangesAreKept
<1>3. CASE AliasPanel(r)
  <2>1. Within(r, AliasPcs) /\ UNCHANGED <<settings, notes, posts>>
    BY <1>3, AliasMoves, Zenon
  <2>0. Others(SwitchPcs) /\ Others(JournalPcs) /\ Others(PipelinePcs)
    BY <2>1, Elsewhere DEF SwitchPcs, AliasPcs, JournalPcs, PipelinePcs
  <2>2. Armed' /\ DryRunIsObeyed'
    BY <2>0, <2>1, SwitchKept, Zenon DEF Others, SwitchPcs
  <2>3. OneChange' /\ AliasesAreKept'
    BY <1>3, AliasChanges, Zenon DEF AnsweredChangesAreKept
  <2>4. JournalHeld' /\ SavedEntriesAreKept'
    BY <2>0, <2>1, JournalKept, Zenon DEF Others, AnsweredChangesAreKept
  <2>5. VerdictHolds => VerdictHolds'
    BY <2>0, <2>1, VerdictKept, Zenon DEF Others, Within
  <2> QED
    BY <1>1, <2>1, <2>2, <2>3, <2>4, <2>5, Zenon DEF AnsweredChangesAreKept
<1>4. CASE JournalPanel(r)
  <2>1. Within(r, JournalPcs) /\ UNCHANGED <<settings, aliases, posts>>
    BY <1>4, JournalMoves, Zenon
  <2>0. Others(SwitchPcs) /\ Others(AliasPcs) /\ Others(PipelinePcs)
    BY <2>1, Elsewhere, SMTT(30) DEF SwitchPcs, AliasPcs, JournalPcs, PipelinePcs
  <2>2. Armed' /\ DryRunIsObeyed'
    BY <2>0, <2>1, SwitchKept, Zenon DEF Others, SwitchPcs
  <2>3. OneChange' /\ AliasesAreKept'
    BY <2>0, <2>1, AliasKept, Zenon DEF Others, AnsweredChangesAreKept
  <2>4. JournalHeld' /\ SavedEntriesAreKept'
    BY <1>4, JournalSaved, Zenon DEF AnsweredChangesAreKept
  <2>5. VerdictHolds => VerdictHolds'
    BY <2>0, <2>1, VerdictKept, Zenon DEF Others, Within
  <2> QED
    BY <1>1, <2>1, <2>2, <2>3, <2>4, <2>5, Zenon DEF AnsweredChangesAreKept
<1>5. CASE PipelinePanel(r)
  <2>1. Within(r, PipelinePcs) /\ UNCHANGED <<settings, aliases, notes, posts>>
    BY <1>5, PipelineMoves, Zenon
  <2>0. Others(SwitchPcs) /\ Others(AliasPcs) /\ Others(JournalPcs)
    BY <2>1, Elsewhere DEF SwitchPcs, AliasPcs, JournalPcs, PipelinePcs
  <2>2. Armed' /\ DryRunIsObeyed'
    BY <2>0, <2>1, SwitchKept, Zenon DEF Others, SwitchPcs
  <2>3. OneChange' /\ AliasesAreKept'
    BY <2>0, <2>1, AliasKept, Zenon DEF Others, AnsweredChangesAreKept
  <2>4. JournalHeld' /\ SavedEntriesAreKept'
    BY <2>0, <2>1, JournalKept, Zenon DEF Others, AnsweredChangesAreKept
  <2>5. faults' = 0 => VerdictHolds'
    BY <1>1, <1>5, <2>1, VerdictReads, Zenon
  <2> QED
    BY <1>1, <2>1, <2>2, <2>3, <2>4, <2>5, Zenon DEF AnsweredChangesAreKept
<1> QED
  BY <1>0, <1>2, <1>3, <1>4, <1>5, Zenon

\* A step in which no request moves keeps the invariant of the dashboard
\* (_ensure_schema, position_monitor).
LEMMA QuietStep ==
    ASSUME DashInv, Counting, UNCHANGED control
    PROVE  Armed' /\ OneChange' /\ JournalHeld' /\ DryRunIsObeyed' /\ AnsweredChangesAreKept'
<1> USE DEF DashInv
<1>0. req' = req /\ UNCHANGED <<settings, posts, aliases, notes>>
  BY Zenon DEF control
<1>1. Armed' /\ DryRunIsObeyed'
  BY <1>0, SwitchKept, Zenon
<1>2. OneChange' /\ AliasesAreKept'
  BY <1>0, AliasKept, Zenon DEF AnsweredChangesAreKept
<1>3. JournalHeld' /\ SavedEntriesAreKept'
  BY <1>0, JournalKept, Zenon DEF AnsweredChangesAreKept
<1> QED
  BY <1>1, <1>2, <1>3, Zenon DEF AnsweredChangesAreKept

\* The store keeps its invariant while the dashboard and the executor use it
\* (_ensure_schema).
LEMMA StoreStep ==
    ASSUME StoreInv, Counting, Next
    PROVE  StoreInv'
<1>1. ASSUME NEW o \in Openers, Migrate(o)
      PROVE  StoreInv'
  BY <1>1, MigrateTyped, MigrateUnderway, Zenon DEF StoreInv
<1>2. ASSUME UNCHANGED schema
      PROVE  StoreInv'
  BY <1>2, Zenon DEF schema, Counting, StoreInv, StoreTyped, Underway
<1>3. ASSUME NEW r \in Requests, Handle(r)
      PROVE  UNCHANGED schema
  BY <1>3, Zenon
  DEF Handle, SetDryRunBegins, SetDryRunWrites, SetDryRunReplies, AliasReads, AliasWrites,
      AliasReplies, JournalLocks, JournalLoads, JournalSaves, TestSignalBegins, TestSignalChecks,
      TestSignalPosts, PipelineProbes, PipelineReadsAge, PipelineReadsState, PipelineVerdict,
      PipelineReplies
<1>4. ASSUME Beats
      PROVE  UNCHANGED schema
  BY <1>4, Zenon DEF Beats, BeatStamp, BeatState, Tick, ShimStops, ShimStarts, ServiceStops
<1> QED
  BY <1>1, <1>2, <1>3, <1>4, Zenon DEF Next, Beats

\* The invariant of the store and the dashboard (_tradestore.py, trade_dashboard.py).
THEOREM DashInvariant == Spec => []DashInv
<1>1. Init => DashInv
  <2> SUFFICES ASSUME Init PROVE DashInv
    BY Zenon
  <2>1. StoreInv
    BY StoreAssumption
    DEF Init, InitStore, StoreInv, StoreTyped, Underway, OpenerState, Stages, Flags, Unopened
  <2>2. OldAge \in Nat
    BY DashboardAssumption DEF OldAge
  <2>3. DashTyped
    BY <2>2, DashboardAssumption, Zenon DEF Init, DashTyped
  <2>4. \A r \in Requests : req[r].pc = "free"
    BY Zenon DEF Init, Free
  <2>5. HeartbeatAges
    BY Zenon DEF Init, HeartbeatAges
  <2>6. VerdictHolds /\ Armed /\ OneChange /\ JournalHeld
    BY <2>4, Zenon DEF VerdictHolds, Armed, OneChange, Changing, JournalHeld, Saving
  <2>7. DryRunIsObeyed /\ AnsweredChangesAreKept
    BY Zenon DEF Init, DryRunIsObeyed, SwitchAnsweredIsInForce, TestSignalWasArmed,
           AnsweredChangesAreKept, AliasesAreKept, SavedEntriesAreKept
  <2> QED
    BY <2>1, <2>3, <2>5, <2>6, <2>7, Zenon DEF DashInv
<1>2. DashInv /\ [Next]_vars => DashInv'
  <2> SUFFICES ASSUME DashInv, [Next]_vars
               PROVE  DashInv'
    BY Zenon
  <2>1. CASE Next
    <3>1. Counting
      BY <2>1, FaultsCount, Zenon DEF DashInv, StoreInv
    <3>2. StoreInv'
      BY <2>1, <3>1, StoreStep, Zenon DEF DashInv
    <3>3. ASSUME NEW o \in Openers, Migrate(o), UNCHANGED <<control, pipe>>
          PROVE  DashInv'
      <4>1. DashTyped' /\ (HeartbeatAges => HeartbeatAges') /\ (VerdictHolds => VerdictHolds')
        BY <3>3, Zenon DEF control, pipe, DashInv, DashTyped, HeartbeatAges, VerdictHolds
      <4> QED
        BY <3>1, <3>2, <3>3, <4>1, QuietStep, Zenon DEF DashInv, Counting
    <3>4. ASSUME NEW r \in Requests, Handle(r)
          PROVE  DashInv'
      BY <3>1, <3>2, <3>4, RequestStep, Zenon DEF DashInv
    <3>5. ASSUME Beats
          PROVE  DashInv'
      <4>1. DashTyped' /\ UNCHANGED control
        BY <3>5, BeatsTyped, Zenon DEF DashInv
      <4>2. faults' = 0 => HeartbeatAges' /\ VerdictHolds'
        <5>1. faults' = 0 => faults = 0 /\ ~ Fault
          BY <3>1 DEF Counting, Fault
        <5> QED
          BY <3>5, <4>1, <5>1, BeatsAges, BeatsVerdict, Zenon DEF DashInv
      <4> QED
        BY <3>1, <3>2, <4>1, <4>2, QuietStep, Zenon DEF DashInv
    <3> QED
      BY <2>1, <3>3, <3>4, <3>5, Zenon DEF Next, Beats
  <2>2. CASE UNCHANGED vars
    <3>1. UNCHANGED <<schema, faults, control, pipe>>
      BY <2>2, Zenon DEF vars
    <3>2. Counting
      BY <3>1, Zenon DEF Counting, DashInv, StoreInv, StoreTyped
    <3>3. StoreInv'
      BY <3>1, Zenon DEF schema, DashInv, StoreInv, StoreTyped, Underway
    <3>4. DashTyped' /\ (HeartbeatAges => HeartbeatAges') /\ (VerdictHolds => VerdictHolds')
      BY <3>1, Zenon DEF control, pipe, DashInv, DashTyped, HeartbeatAges, VerdictHolds
    <3> QED
      BY <3>1, <3>2, <3>3, <3>4, QuietStep, Zenon DEF DashInv, Counting
  <2> QED
    BY <2>1, <2>2, Zenon
<1> QED
  BY <1>1, <1>2, PTL DEF Spec

\* However many connections open the store at once and however their statements
\* interleave, the schema is complete when the last of them is through, unless a
\* statement failed or a process was killed (_ensure_schema).
THEOREM StoreMigrates == Spec => []MigrationIsComplete
<1>1. DashInv => MigrationIsComplete
  BY StoreAssumption, Zenon
  DEF DashInv, StoreInv, StoreTyped, Underway, MigrationIsComplete, Opened, Flags
<1> QED
  BY <1>1, DashInvariant, PTL

\* What was answered as the position of the switch is in force, and no test signal passes
\* it, for any requests at once (set_dry_run_mode, send_test_signal).
THEOREM DryRunObeyed == Spec => []DryRunIsObeyed
<1>1. DashInv => DryRunIsObeyed
  BY Zenon DEF DashInv
<1> QED
  BY <1>1, DashInvariant, PTL

\* No change that was answered as made is lost to another request, of the alias map unless
\* two changes overlap, of the journal at all (update_symbol_map, save_journal_entry).
THEOREM ChangesKept == Spec => []AnsweredChangesAreKept
<1>1. DashInv => AnsweredChangesAreKept
  BY Zenon DEF DashInv
<1> QED
  BY <1>1, DashInvariant, PTL

\* A green verdict is recent, for any period of the heartbeat and any staleness limit,
\* although a heartbeat is written in two halves (pipeline_status, position_monitor).
THEOREM GreenRecent == Spec => []GreenIsRecent
<1>1. DashInv => GreenIsRecent
  BY Zenon DEF DashInv, VerdictHolds, GreenIsRecent
<1> QED
  BY <1>1, DashInvariant, PTL
=============================================================================
