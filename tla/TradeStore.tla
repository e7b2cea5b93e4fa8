----------------------------- MODULE TradeStore -----------------------------
(***************************************************************************)
(* Opening the SQLite trade store (scripts/_tradestore.py, get_conn and    *)
(* _ensure_schema). Every helper of the store opens a connection of its    *)
(* own, and every opening brings the schema up to date, so the executor,   *)
(* the dashboard and the command line migrate the same file at once.       *)
(*                                                                         *)
(* A step is one committed statement: the seed of the channel registry     *)
(* commits with its version, every ALTER TABLE commits by itself. An       *)
(* opener keeps the version and the columns it read in its own variables.  *)
(***************************************************************************)
EXTENDS Integers, FiniteSets

CONSTANTS
    Openers,      \* connections being opened, each in a thread or process of its own
    MaxFaults     \* how many store, file and HTTP calls may fail, crashes included

ASSUME StoreAssumption == Openers # {} /\ MaxFaults \in Nat

Flags == {"partial_book", "breakeven"}

VARIABLES
    version,   \* meta.schema_version on disk
    columns,   \* the flag columns the channels table has
    registry,  \* the channels table: "empty" or "seeded"
    opener,    \* opener[o]: place and locals of the opening of o
    faults     \* failed calls so far

schema == <<version, columns, registry, opener>>

Unopened == [pc |-> "closed", cols |-> {}]

\* A new file, whose tables are created whole with the version row; a file of an
\* earlier release, whose channels table lacks the flags; one that is up to date.
InitStore ==
    /\ \/ version = 1 /\ columns = Flags /\ registry = "empty"
       \/ version \in {2, 3} /\ columns = {} /\ registry = "seeded"
       \/ version = 4 /\ columns = Flags /\ registry = "seeded"
    /\ opener = [o \in Openers |-> Unopened]
    /\ faults = 0

\* A call may fail while the budget of faults lasts.
Fault ==
    /\ faults < MaxFaults
    /\ faults' = faults + 1

\* Mutant: the last migration is skipped by an off-by-one in its version test.
Stage_off_by_one(v) == <<"seed", "three", "ready", "ready">>[v]

\* Where an opener goes on, given the version it holds.
Stage(v) == <<"seed", "three", "look", "ready">>[v]

At(o, pc) == opener' = [opener EXCEPT ![o].pc = pc]

\* CREATE ... IF NOT EXISTS on every table, then the version is read.
Open(o) ==
    /\ opener[o].pc = "closed"
    /\ opener' = [opener EXCEPT ![o] = [pc |-> Stage(version), cols |-> {}]]
    /\ UNCHANGED <<version, columns, registry, faults>>

\* The registry is seeded and the version raised to 2 in one transaction; a seed that
\* fails is only logged.
Seed(o) ==
    /\ opener[o].pc = "seed"
    /\ version' = 2
    /\ \/ /\ registry' = "seeded"
          /\ UNCHANGED faults
       \/ /\ Fault
          /\ UNCHANGED registry
    /\ At(o, "three")
    /\ UNCHANGED columns

RaiseToThree(o) ==
    /\ opener[o].pc = "three"
    /\ version' = 3
    /\ At(o, "look")
    /\ UNCHANGED <<columns, registry, faults>>

\* PRAGMA table_info.
LookAtColumns(o) ==
    /\ opener[o].pc = "look"
    /\ opener' = [opener EXCEPT ![o] = [pc |-> "partial_book", cols |-> columns]]
    /\ UNCHANGED <<version, columns, registry, faults>>

\* ALTER TABLE ADD COLUMN for a flag that was missing when the opener looked. It
\* raises when another opener has added the column meanwhile, or when the statement
\* fails; either way the rest of the block is skipped and the version still raised.
AddColumn(o, flag, next) ==
    /\ opener[o].pc = flag
    /\ \/ /\ flag \in opener[o].cols
          /\ At(o, next)
          /\ UNCHANGED <<columns, faults>>
       \/ /\ flag \notin opener[o].cols
          /\ flag \notin columns
          /\ columns' = columns \cup {flag}
          /\ At(o, next)
          /\ UNCHANGED faults
       \/ /\ flag \notin opener[o].cols
          /\ IF flag \in columns THEN UNCHANGED faults ELSE Fault
          /\ At(o, "four")
          /\ UNCHANGED columns
    /\ UNCHANGED <<version, registry>>

RaiseToFour(o) ==
    /\ opener[o].pc = "four"
    /\ version' = 4
    /\ At(o, "ready")
    /\ UNCHANGED <<columns, registry, faults>>

\* The process is killed while it migrates, and opens the store again later.
Killed(o) ==
    /\ opener[o].pc \notin {"closed", "ready"}
    /\ Fault
    /\ At(o, "closed")
    /\ UNCHANGED <<version, columns, registry>>

Migrate(o) ==
    \/ Open(o)
    \/ Seed(o)
    \/ RaiseToThree(o)
    \/ LookAtColumns(o)
    \/ AddColumn(o, "partial_book", "breakeven")
    \/ AddColumn(o, "breakeven", "four")
    \/ RaiseToFour(o)
    \/ Killed(o)

Opened == \A o \in Openers : opener[o].pc = "ready"

-----------------------------------------------------------------------------
(* Properties. *)

\* However the openings interleave, the migration is complete when the last of them
\* is through, unless a statement failed or a process was killed: the file is at the
\* current version, seeded, and has both flag columns, although an opener that
\* loses the race for a column skips the columns after it (_ensure_schema).
MigrationIsComplete ==
    Opened /\ faults = 0 => version = 4 /\ registry = "seeded" /\ columns = Flags
=============================================================================
