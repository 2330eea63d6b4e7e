--------------------------- MODULE StoreMigration ---------------------------
(***************************************************************************)
(* telemetry.Open and its schema migration, run by one process after the    *)
(* other on the same SQLite file.  Exec runs the statements of its text one *)
(* by one, each of them durable on its own: a crash or an error can fall    *)
(* between any two.                                                         *)
(***************************************************************************)
EXTENDS Naturals, Sequences

CONSTANT MaxStops   \* bound: stops

Tables == {"samples", "power", "snapshots", "meta"}

\* The statements of the two scripts: a table, or the table of an index.
Drops == <<"samples", "power", "snapshots", "meta">>
Creates == <<
    [what |-> "table", on |-> "samples"],
    [what |-> "index", on |-> "samples"],
    [what |-> "index2", on |-> "samples"],
    [what |-> "table", on |-> "power"],
    [what |-> "index", on |-> "power"],
    [what |-> "table", on |-> "meta"],
    [what |-> "table", on |-> "snapshots"]>>
Indexes == {[what |-> "index", on |-> "samples"], [what |-> "index2", on |-> "samples"],
            [what |-> "index", on |-> "power"]}

VARIABLES
    columns,  \* the tables of the file: absent, without or with host_id
    indexes,  \* the indexes of the file
    version,  \* schema_version: no table, no row, or version 1
    pc,       \* where Open is
    next,     \* the next statement of the script Open is in
    stops,    \* crashes and failed statements since the file was last open
    half      \* history: a stop fell between the DROPs

file == <<columns, indexes, version>>
vars == <<columns, indexes, version, pc, next, stops, half>>

\* The type of the file and of Open's progress.
TypeOK ==
    /\ columns \in [Tables -> {"absent", "legacy", "v1"}]
    /\ indexes \subseteq Indexes
    /\ version \in {"none", "empty", "1"}
    /\ pc \in {"start", "read", "detect", "drop", "create", "delete", "insert",
               "open", "down"}
    /\ next \in 1..Len(Creates)
    /\ stops \in 0..MaxStops
    /\ half \in BOOLEAN

\* A new data directory, or one that a release without host_id has used.
Init ==
    /\ columns \in {[t \in Tables |-> "absent"], [t \in Tables |-> "legacy"]}
    /\ indexes = {}
    /\ version = "none"
    /\ pc = "start" /\ next = 1 /\ stops = 0 /\ half = FALSE

\* Mutant: a new schema_version starts with its row.
CreateVersionSet ==
    /\ pc = "start"
    /\ version' = IF version = "none" THEN "1" ELSE version
    /\ pc' = "read"
    /\ UNCHANGED <<columns, indexes, next, stops, half>>

\* CREATE TABLE IF NOT EXISTS schema_version.
CreateVersion ==
    /\ pc = "start"
    /\ version' = IF version = "none" THEN "empty" ELSE version
    /\ pc' = "read"
    /\ UNCHANGED <<columns, indexes, next, stops, half>>

\* SELECT COALESCE(MAX(version), 0).
ReadVersion ==
    /\ pc = "read"
    /\ IF version = "1" THEN pc' = "open" /\ stops' = 0
                        ELSE pc' = "detect" /\ UNCHANGED stops
    /\ UNCHANGED <<file, next, half>>

\* Mutant: a file that has any samples table is dropped, the new one too.
DetectAny ==
    /\ pc = "detect"
    /\ pc' = IF columns["samples"] # "absent" THEN "drop" ELSE "create"
    /\ next' = 1
    /\ UNCHANGED <<file, stops, half>>

\* Mutant: the old tables are not looked for.
DetectNothing ==
    /\ pc = "detect"
    /\ pc' = "create"
    /\ next' = 1
    /\ UNCHANGED <<file, stops, half>>

\* The samples table exists and its text does not name host_id.
Detect ==
    /\ pc = "detect"
    /\ pc' = IF columns["samples"] = "legacy" THEN "drop" ELSE "create"
    /\ next' = 1
    /\ UNCHANGED <<file, stops, half>>

\* DROP TABLE IF EXISTS, with the indexes of the table.
Drop ==
    /\ pc = "drop"
    /\ columns' = [columns EXCEPT ![Drops[next]] = "absent"]
    /\ indexes' = {i \in indexes : i.on # Drops[next]}
    /\ IF next < Len(Drops)
       THEN next' = next + 1 /\ UNCHANGED pc
       ELSE next' = 1 /\ pc' = "create"
    /\ UNCHANGED <<version, stops, half>>

\* Whether SQLite executes a statement: an index needs its column host_id.
Valid(c) == c.what # "table" => columns[c.on] = "v1"

\* One statement of the CREATE script; an error fails Open.
Create ==
    /\ pc = "create"
    /\ LET c == Creates[next] IN
        IF ~Valid(c)
        THEN pc' = "down" /\ UNCHANGED <<columns, indexes, next>>
        ELSE
        /\ IF c.what = "table"
           THEN /\ columns' = [columns EXCEPT ![c.on] = IF @ = "absent" THEN "v1" ELSE @]
                /\ UNCHANGED indexes
           ELSE indexes' = indexes \cup {c} /\ UNCHANGED columns
        /\ IF next < Len(Creates)
           THEN next' = next + 1 /\ UNCHANGED pc
           ELSE next' = 1 /\ pc' = "delete"
    /\ UNCHANGED <<version, stops, half>>

\* DELETE FROM schema_version.
DeleteVersion ==
    /\ pc = "delete"
    /\ version' = "empty"
    /\ pc' = "insert"
    /\ UNCHANGED <<columns, indexes, next, stops, half>>

\* INSERT INTO schema_version.
InsertVersion ==
    /\ pc = "insert"
    /\ version' = "1"
    /\ pc' = "open"
    /\ stops' = 0
    /\ UNCHANGED <<columns, indexes, next, half>>

\* Half of the DROPs are done: samples is gone, another old table is not.
HalfDropped == pc = "drop" /\ next > 1

\* A statement fails, or the process dies.  Open ignores an error of the
\* DROPs and goes on; any other ends the process.
Stop ==
    /\ stops < MaxStops /\ pc # "down"
    /\ stops' = stops + 1
    /\ half' = (half \/ HalfDropped)
    /\ pc' \in {"down"} \cup (IF pc = "drop" THEN {"create"} ELSE {})
    /\ next' = 1
    /\ UNCHANGED file

\* The service manager starts the program again.
Restart ==
    /\ pc = "down"
    /\ pc' = "start" /\ next' = 1
    /\ UNCHANGED <<file, stops, half>>

Open ==
    \/ CreateVersion \/ ReadVersion \/ Detect \/ Drop \/ Create
    \/ DeleteVersion \/ InsertVersion

Next == Open \/ Stop \/ Restart

Spec == Init /\ [][Next]_vars

\* Open runs on, and a stopped program is started again.
FairSpec == Spec /\ WF_vars(Open) /\ WF_vars(Restart)

-----------------------------------------------------------------------------
(* Properties                                                               *)

\* "Detect legacy tables without host_id and drop them" (migrateToV1): a store
\* that is open, or says so in schema_version, has every table with its host_id
\* column and every index.
LegacyDropped ==
    pc = "open" \/ version = "1"
        => /\ \A t \in Tables : columns[t] = "v1"
           /\ indexes = Indexes
           /\ version = "1"

\* That holds wherever earlier attempts of migrateToV1 were cut off, but for
\* the DROPs: with samples gone the other old tables are taken for new ones.
SchemaComplete == ~half => LegacyDropped

\* A table that has its host_id column is never dropped again, so no row
\* written by this release is lost to a later attempt.
HistoryKept ==
    [][\A t \in Tables : columns[t] = "v1" => columns'[t] = "v1"]_vars

\* However often it is cut off, the migration is completed in the end.
EventuallyOpen == <>[](pc = "open") \/ <>half
=============================================================================
