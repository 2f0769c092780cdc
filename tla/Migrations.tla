----------------------------- MODULE Migrations -----------------------------
(***************************************************************************)
(* The upgrade of the extension's database: LNbits runs the migrations of  *)
(* migrations.py one after the other and notes the number of each when it  *)
(* is done.  The server may stop between any two statements, also between  *)
(* a migration and the note; the next start goes on from the number noted. *)
(*                                                                         *)
(* A schema is the set of what the migrations make: tables, indexes,       *)
(* columns, the scheduler's row, converted time stamps.                    *)
(***************************************************************************)
EXTENDS Naturals, SequencesExt

CONSTANTS
    Databases,  \* the kinds of database to consider
    MaxStops    \* bound: how often the server stops

ASSUME MigrationsAssumption ==
    Databases \subseteq {"sqlite", "postgres", "cockroach"} /\ MaxStops \in Nat

VARIABLES
    database,  \* which kind it is
    version,   \* the number LNbits noted
    schema,    \* what is committed
    work,      \* what the running migration sees: schema and its own changes
    server,    \* [pc, next]: what the server does, its next statement
    stops      \* how often it stopped

vars == <<database, version, schema, work, server, stops>>

(* CREATE TABLE and ADD COLUMN fail if x exists, IF NOT EXISTS, ON CONFLICT *)
(* DO NOTHING and UPDATE do not; SET SCHEMA moves x unless it is there.    *)
Create(x) == [makes |-> x, again |-> FALSE, takes |-> {}]
Ensure(x) == [makes |-> x, again |-> TRUE, takes |-> {}]
Move(x, y) == [makes |-> y, again |-> TRUE, takes |-> {x}]

m001_initial(type) ==
    <<Create(IF type = "sqlite" THEN "maintable" ELSE "public.maintable")>>

m002_namespace_postgres_table(type) ==
    IF type = "postgres" THEN <<Move("public.maintable", "maintable")>> ELSE <<>>

m003_namespace_cockroach_table(type) ==
    IF type = "cockroach" THEN <<Move("public.maintable", "maintable")>> ELSE <<>>

m004_pending_payment == <<Create("pending_payment_hash")>>

m005_allowance_revision == <<Create("revision")>>

(* Variant: the scheduler's row is inserted without ON CONFLICT.           *)
HistoryInsertedTwice ==
    <<Ensure("payment_history"), Ensure("allowance_history_lookup"),
      Ensure("scheduler_health"), Create("worker")>>

m006_operational_history ==
    <<Ensure("payment_history"), Ensure("allowance_history_lookup"),
      Ensure("scheduler_health"), Ensure("worker")>>

(* Times are cut to whole seconds, on SQLite also converted from text.     *)
m007_retry_and_local_schedule(type) ==
    IF type = "sqlite"
      THEN <<Create("wallet_limits"), Create("timezone_name"), Create("retry_count"),
             Create("retry_after"), Create("retry_deadline"),
             Ensure("start_datetime_seconds"), Ensure("start_datetime_epoch"),
             Ensure("next_payment_date_seconds"), Ensure("next_payment_date_epoch")>>
      ELSE <<Create("wallet_limits"), Create("timezone_name"), Create("retry_count"),
             Create("retry_after"), Create("retry_deadline"),
             Ensure("start_datetime_seconds"), Ensure("next_payment_date_seconds")>>

m008_payment_logs == <<Ensure("payment_logs"), Ensure("allowance_logs_lookup")>>

m009_occurrence_retries == <<Create("retry_resume_date"), Create("retry_snapshot")>>

Migration(type) ==
    <<m001_initial(type), m002_namespace_postgres_table(type),
      m003_namespace_cockroach_table(type), m004_pending_payment,
      m005_allowance_revision, m006_operational_history,
      m007_retry_and_local_schedule(type), m008_payment_logs,
      m009_occurrence_retries>>

Newest == 9

(* Variant: SQLite commits each statement, as its driver does by itself.   *)
AtomicButSqlite(type, k) == k >= 6 /\ type # "sqlite"

(* _migration_transaction; the others commit each statement.               *)
Atomic(type, k) == k >= 6

(* The statements of the first k migrations, and the schema they make: a   *)
(* database that is given statements never gets back what one has moved.   *)
Done(type, k) ==
    UNION {Range(Migration(type)[j]) : j \in {j \in 1..Newest : j <= k}}
SchemaOf(statements) ==
    {s.makes : s \in statements} \ UNION {s.takes : s \in statements}
Complete(type, k) == SchemaOf(Done(type, k))

Servers == [pc : {"stopped", "run", "note", "failed", "up"}, next : Nat]

TypeOK ==
    /\ database \in Databases
    /\ version \in 0..Newest
    /\ schema \subseteq Complete(database, Newest) \cup {"public.maintable"}
    /\ work \subseteq Complete(database, Newest) \cup {"public.maintable"}
    /\ ~({"maintable", "public.maintable"} \subseteq work)
    /\ server \in Servers
    /\ stops \in 0..MaxStops

(* A new installation, or one by any earlier release.                      *)
Init ==
    /\ database \in Databases
    /\ version \in 0..Newest
    /\ schema = Complete(database, version)
    /\ work = schema
    /\ server = [pc |-> "stopped", next |-> 1]
    /\ stops = 0

Start ==
    /\ server.pc = "stopped"
    /\ server' = [pc |-> IF version = Newest THEN "up" ELSE "run", next |-> 1]
    /\ work' = schema
    /\ UNCHANGED <<database, version, schema, stops>>

Statements == Migration(database)[version + 1]
Statement == Statements[server.next]

(* The database rejects the statement, or m002 finds no table to move.     *)
Rejected ==
    IF Statement.makes \in work THEN ~Statement.again ELSE ~(Statement.takes \subseteq work)

(* Variant: the table is copied, not moved.                                *)
ChangedCopying == work \cup {Statement.makes}

Changed ==
    IF Statement.makes \in work THEN work
    ELSE (work \ Statement.takes) \cup {Statement.makes}

Execute ==
    /\ server.pc = "run" /\ server.next <= Len(Statements)
    /\ ~Rejected
    /\ work' = Changed
    /\ schema' = IF Atomic(database, version + 1) THEN schema ELSE Changed
    /\ server' = [server EXCEPT !.next = @ + 1]
    /\ UNCHANGED <<database, version, stops>>

(* The exception rolls back; the extension stays off until a restart.      *)
Reject ==
    /\ server.pc = "run" /\ server.next <= Len(Statements)
    /\ Rejected
    /\ server' = [server EXCEPT !.pc = "failed"]
    /\ work' = schema
    /\ UNCHANGED <<database, version, schema, stops>>

Commit ==
    /\ server.pc = "run" /\ server.next > Len(Statements)
    /\ schema' = work
    /\ server' = [server EXCEPT !.pc = "note"]
    /\ UNCHANGED <<database, version, work, stops>>

(* LNbits notes the version, and goes on.                                  *)
Note ==
    /\ server.pc = "note"
    /\ version' = version + 1
    /\ server' = [pc |-> IF version' = Newest THEN "up" ELSE "run", next |-> 1]
    /\ UNCHANGED <<database, schema, work, stops>>

(* A crash, or an operator who restarts the server.                        *)
Stop ==
    /\ server.pc # "stopped" /\ stops < MaxStops
    /\ server' = [pc |-> "stopped", next |-> 1]
    /\ work' = schema
    /\ stops' = stops + 1
    /\ UNCHANGED <<database, version, schema>>

Next == Start \/ Execute \/ Reject \/ Commit \/ Note \/ Stop

Spec == Init /\ [][Next]_vars

(* A started server goes on, a stopped one is started again.               *)
FairSpec == Spec /\ WF_vars(Start \/ Execute \/ Reject \/ Commit \/ Note)

-----------------------------------------------------------------------------
(* Properties                                                              *)

(* Wherever the server stops, the database is never left with a part of a   *)
(* migration: it has all of those noted, and all or nothing of the next    *)
(* (migrations.py:20-37, 162-223).                                         *)
NeverHalfMigrated == schema \in {Complete(database, version), Complete(database, version + 1)}

(* Migrations that are written to be repeated.                             *)
Repeatable == {2, 3, 6, 8}

(* A database whose next migration is committed but not noted, and is one  *)
(* of the five that create without IF NOT EXISTS.                          *)
Unnoted ==
    /\ version < Newest /\ schema = Complete(database, version + 1)
    /\ version + 1 \notin Repeatable

(* A migration fails only where the server had stopped between its commit  *)
(* and the note of it, and it does not allow to be repeated; no other      *)
(* stop leaves anything a later statement trips over (migrations.py:46-223).*)
FailsOnlyUnnoted == server.pc = "failed" => Unnoted

(* The schema of the version noted with the statements executed since.     *)
Progress ==
    SchemaOf(Done(database, version)
             \cup {Statements[i] : i \in 1..(server.next - 1)})

(* What the running migration sees: the statements so far added to the     *)
(* version noted, or a schema that has them all from a run before, which   *)
(* it leaves alone.                                                        *)
RunInv ==
    server.pc = "run" =>
        /\ version < Newest
        /\ server.next \in 1..(Len(Statements) + 1)
        /\ \/ /\ work = Progress
              /\ schema = IF Atomic(database, version + 1)
                            THEN Complete(database, version) ELSE work
           \/ /\ work = Complete(database, version + 1)
              /\ schema = work
              /\ server.next = 1 \/ version + 1 \in Repeatable

(* Otherwise nothing is uncommitted.                                       *)
RestInv ==
    /\ server.pc # "run" => work = schema
    /\ server.pc = "note" =>
        version < Newest /\ schema = Complete(database, version + 1)
    /\ server.pc = "up" => version = Newest

(* An upgrade is at a point from which it goes on as if never interrupted, *)
(* or fails as described: the inductive invariant of the proofs.           *)
UpgradeInv ==
    TypeOK /\ NeverHalfMigrated /\ FailsOnlyUnnoted /\ RunInv /\ RestInv

(* An upgrade completes in the end, whatever interrupts it; but one that    *)
(* stops Unnoted fails on every start from then on (migrations.py:46-223). *)
UpgradeCompletes == <>[](server.pc = "up" \/ Unnoted)
=============================================================================
