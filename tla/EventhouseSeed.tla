--------------------------- MODULE EventhouseSeed ---------------------------
(***************************************************************************)
(* The demo telemetry in Fabric's Eventhouse: create_eventhouse.py creates *)
(* or finds the Eventhouse, waits for its default database, records both   *)
(* in .env and seeds three tables through Kusto's queued ingestion;        *)
(* replay_monitor_anomaly.py appends one synthetic incident to the same    *)
(* tables, whose IncidentEvents row is what the monitor triggers on.       *)
(* Either script may end at any call (an error, a time-out, Ctrl-C) and be *)
(* run again; what it had queued lands all the same.                       *)
(***************************************************************************)
EXTENDS Naturals

CONSTANTS
  CsvRows,      \* rows of each CSV file
  MaxSeeds,     \* bound: runs of create_eventhouse
  MaxReplays    \* bound: runs of replay_monitor_anomaly --execute

ASSUME SeedAssumption == CsvRows \in Nat \ {0} /\ MaxSeeds \in Nat /\ MaxReplays \in Nat

\* TABLE_SPECS in its order: OpticalTelemetry, NetworkAlerts, IncidentEvents.
KqlTable == 1 .. 3
IncidentEvents == 3

VARIABLES
  house,       \* the Eventhouse: none, creating (no database yet), ready
  kqlEnv,      \* .env names Eventhouse and database
  tabled,      \* IncidentEvents exists, the last table to be created
  batches,     \* batches[t]: how often the CSV of t lies in the table
  queued,      \* queued[t]: ingestions of it that have not landed
  replayed,    \* replayed[t]: replays whose rows lie in t
  seeder,      \* create_eventhouse: [pc, table, reseed]
  replayer,    \* replay_monitor_anomaly: the table it appends to next, 0: not running
  seeds, replays,
  seedCut      \* history: tables whose seeding stopped waiting for a file still queued

runBounds == <<seeds, replays>>
seedVars == <<house, kqlEnv, tabled, batches, queued, replayed, seeder, replayer,
              runBounds, seedCut>>

SeedInit ==
  /\ house = "none" /\ kqlEnv = FALSE /\ tabled = FALSE
  /\ batches = [t \in KqlTable |-> 0]
  /\ queued = [t \in KqlTable |-> 0]
  /\ replayed = [t \in KqlTable |-> 0]
  /\ seeder = [pc |-> "idle", table |-> 1, reseed |-> FALSE]
  /\ replayer = 0
  /\ seeds = 0 /\ replays = 0
  /\ seedCut = {}

\* A replay appends two telemetry rows, one alert and one event.
ReplayRows(t) == IF t = 1 THEN 2 ELSE 1
GetTableRowCount(t) == batches[t] * CsvRows + replayed[t] * ReplayRows(t)

SeederGoes(pc) == seeder' = [seeder EXCEPT !.pc = pc]
NextTable ==
  IF seeder.table = IncidentEvents
  THEN SeederGoes("done")
  ELSE seeder' = [seeder EXCEPT !.pc = "count", !.table = @ + 1]

StopsWaiting ==
  seedCut' = IF seeder.pc = "poll" /\ queued[seeder.table] > 0
             THEN seedCut \cup {seeder.table} ELSE seedCut

-----------------------------------------------------------------------------
(* create_eventhouse.py                                                    *)

StartSeeding ==
  /\ seeder.pc \in {"idle", "done", "failed"} /\ seeds < MaxSeeds
  /\ seeds' = seeds + 1
  /\ \E reseed \in BOOLEAN :
       seeder' = [pc |-> "house", table |-> 1, reseed |-> reseed]
  /\ UNCHANGED <<house, kqlEnv, tabled, batches, queued, replayed, replayer,
                 replays, seedCut>>

\* By the id in .env, else by its name, else a new one.
CreateOrGetEventhouse ==
  /\ seeder.pc = "house"
  /\ house' = IF house = "none" THEN "creating" ELSE house
  /\ SeederGoes("database")
  /\ UNCHANGED <<kqlEnv, tabled, batches, queued, replayed, replayer, seedCut, runBounds>>

DatabaseAppears ==
  /\ house = "creating"
  /\ house' = "ready"
  /\ UNCHANGED <<kqlEnv, tabled, batches, queued, replayed, seeder, replayer,
                 seedCut, runBounds>>

\* The default database is polled for; .env is written before any seeding.
ResolveDefaultKqlDatabase ==
  /\ seeder.pc = "database" /\ house = "ready"
  /\ kqlEnv' = TRUE
  /\ SeederGoes("count")
  /\ UNCHANGED <<house, tabled, batches, queued, replayed, replayer, seedCut, runBounds>>

(* Mutant of CountRows: rows that lie in the table do not stop the ingest. *)
CountRowsIngesting ==
  /\ seeder.pc = "count"
  /\ tabled' = (tabled \/ seeder.table = IncidentEvents)
  /\ IF seeder.reseed THEN SeederGoes("clear") ELSE SeederGoes("ingest")
  /\ UNCHANGED <<house, kqlEnv, batches, queued, replayed, replayer, seedCut, runBounds>>

\* Table and mapping are made if missing; rows are preserved unless RESEED is set.
CountRows ==
  /\ seeder.pc = "count"
  /\ tabled' = (tabled \/ seeder.table = IncidentEvents)
  /\ LET rows == GetTableRowCount(seeder.table)
     IN \/ rows > 0 /\ ~seeder.reseed /\ NextTable
        \/ rows > 0 /\ seeder.reseed /\ SeederGoes("clear")
        \/ rows = 0 /\ SeederGoes("ingest")
  /\ UNCHANGED <<house, kqlEnv, batches, queued, replayed, replayer, seedCut, runBounds>>

ClearTable ==
  /\ seeder.pc = "clear"
  /\ batches' = [batches EXCEPT ![seeder.table] = 0]
  /\ replayed' = [replayed EXCEPT ![seeder.table] = 0]
  /\ SeederGoes("ingest")
  /\ UNCHANGED <<house, kqlEnv, tabled, queued, replayer, seedCut,
                 runBounds>>

IngestFromFile ==
  /\ seeder.pc = "ingest"
  /\ queued' = [queued EXCEPT ![seeder.table] = @ + 1]
  /\ SeederGoes("poll")
  /\ UNCHANGED <<house, kqlEnv, tabled, batches, replayed, replayer, seedCut, runBounds>>

IngestionLands(t) ==
  /\ queued[t] > 0
  /\ queued' = [queued EXCEPT ![t] = @ - 1]
  /\ batches' = [batches EXCEPT ![t] = @ + 1]
  /\ UNCHANGED <<house, kqlEnv, tabled, replayed, seeder, replayer, seedCut, runBounds>>

\* As many rows as the file has, replayed ones among them; any other count
\* is polled again.
CountReached ==
  /\ seeder.pc = "poll" /\ GetTableRowCount(seeder.table) = CsvRows
  /\ NextTable
  /\ StopsWaiting
  /\ UNCHANGED <<house, kqlEnv, tabled, batches, queued, replayed, replayer, runBounds>>

\* Any call fails, a deadline passes or the operator interrupts the script.
SeedingEnds ==
  /\ seeder.pc \notin {"idle", "done", "failed"}
  /\ SeederGoes("failed")
  /\ StopsWaiting
  /\ UNCHANGED <<house, kqlEnv, tabled, batches, queued, replayed, replayer, runBounds>>

-----------------------------------------------------------------------------
(* replay_monitor_anomaly.py, with an incident id not used before.         *)

\* Its first query needs IncidentEvents to exist.
StartReplay ==
  /\ replayer = 0 /\ replays < MaxReplays
  /\ kqlEnv /\ tabled
  /\ replayer' = 1 /\ replays' = replays + 1
  /\ UNCHANGED <<house, kqlEnv, tabled, batches, queued, replayed, seeder, seeds,
                 seedCut>>

\* build_commands in their order: telemetry, alert, and the trigger last.
AppendRows ==
  /\ replayer > 0
  /\ replayed' = [replayed EXCEPT ![replayer] = @ + 1]
  /\ replayer' = (replayer + 1) % 4
  /\ UNCHANGED <<house, kqlEnv, tabled, batches, queued, seeder, seedCut,
                 runBounds>>

ReplayEnds ==
  /\ replayer > 0
  /\ replayer' = 0
  /\ UNCHANGED <<house, kqlEnv, tabled, batches, queued, replayed, seeder, seedCut, runBounds>>

SeedNext ==
  \/ StartSeeding \/ CreateOrGetEventhouse \/ DatabaseAppears \/ ResolveDefaultKqlDatabase
  \/ CountRows \/ ClearTable \/ IngestFromFile \/ CountReached \/ SeedingEnds
  \/ \E t \in KqlTable : IngestionLands(t)
  \/ StartReplay \/ AppendRows \/ ReplayEnds

SeedSpec == SeedInit /\ [][SeedNext]_seedVars

-----------------------------------------------------------------------------
(* Properties.                                                             *)

(* The CSV lies in a table, or is on its way there, a second time only     *)
(* after a run stopped waiting for it while it was still queued: the run   *)
(* ended, or replayed rows made up the count it waited for.  After a run   *)
(* that reported success the CSV lies in every table, except where         *)
(* replayed rows made the run take the table for a seeded one.             *)
SeedingIsExact ==
  /\ \A t \in KqlTable : batches[t] + queued[t] > 1 => t \in seedCut
  /\ seeder.pc = "done" => \A t \in KqlTable : batches[t] > 0 \/ replayed[t] > 0

(* docs/DEPLOYMENT.md:361-363: "create_eventhouse.py is idempotent ... so  *)
(* reruns don't duplicate rows".                                           *)
RerunsKeepOneBatch == \A t \in KqlTable : batches[t] <= 1
=============================================================================
