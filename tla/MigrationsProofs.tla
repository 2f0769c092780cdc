-------------------------- MODULE MigrationsProofs --------------------------
(***************************************************************************)
(* Proofs about Migrations, for any number of stops: an upgrade is never   *)
(* left with a part of a migration, and fails only at one that was         *)
(* committed and not noted.  First what holds of the statements written in *)
(* migrations.py, then UpgradeInv.                                         *)
(***************************************************************************)
EXTENDS Migrations, TLAPS

-----------------------------------------------------------------------------
(* The statements                                                          *)

Types == {"sqlite", "postgres", "cockroach"}

(* The migration and the place in it that makes x.                         *)
Home(type, x) ==
    CASE x = "public.maintable" -> <<1, 1>>
      [] x = "maintable" ->
           <<IF type = "sqlite" THEN 1 ELSE IF type = "postgres" THEN 2 ELSE 3, 1>>
      [] x = "pending_payment_hash" -> <<4, 1>>
      [] x = "revision" -> <<5, 1>>
      [] x = "payment_history" -> <<6, 1>>
      [] x = "allowance_history_lookup" -> <<6, 2>>
      [] x = "scheduler_health" -> <<6, 3>>
      [] x = "worker" -> <<6, 4>>
      [] x = "wallet_limits" -> <<7, 1>>
      [] x = "timezone_name" -> <<7, 2>>
      [] x = "retry_count" -> <<7, 3>>
      [] x = "retry_after" -> <<7, 4>>
      [] x = "retry_deadline" -> <<7, 5>>
      [] x = "start_datetime_seconds" -> <<7, 6>>
      [] x = "start_datetime_epoch" -> <<7, 7>>
      [] x = "next_payment_date_seconds" -> <<7, IF type = "sqlite" THEN 8 ELSE 7>>
      [] x = "next_payment_date_epoch" -> <<7, 9>>
      [] x = "payment_logs" -> <<8, 1>>
      [] x = "allowance_logs_lookup" -> <<8, 2>>
      [] x = "retry_resume_date" -> <<9, 1>>
      [] OTHER -> <<9, 2>>

(* A statement that moves something moves the table out of the schema      *)
(* "public", where only m001 can have made it.                             *)
SoundStatement(type, k, s) ==
    /\ s.again \in BOOLEAN
    /\ s.makes = "public.maintable" => k = 1 /\ s.takes = {}
    /\ s.makes = "maintable" =>
        type = "sqlite" \/ s.takes = {"public.maintable"}
    /\ type = "sqlite" => s.makes # "public.maintable"
    /\ \/ s.takes = {}
       \/ /\ s.takes = {"public.maintable"}
          /\ s.makes = "maintable" /\ s.again
          /\ Home(type, "maintable") = <<k, 1>> /\ k # 1 /\ type # "sqlite"

SoundMigration(type, k, m) ==
    /\ Len(m) \in Nat /\ DOMAIN m = 1..Len(m)
    /\ \A i \in 1..Len(m) :
        /\ SoundStatement(type, k, m[i])
        /\ Home(type, m[i].makes) = <<k, i>>
        /\ k \in Repeatable => m[i].again
    /\ k \notin Repeatable => Len(m) >= 1 /\ ~m[1].again /\ m[1].takes = {}
    /\ ~Atomic(type, k) => Len(m) <= 1

(* A statement that makes anything but the table.                          *)
LEMMA SoundCreate ==
    ASSUME NEW type, NEW k, NEW x, x \notin {"maintable", "public.maintable"}
    PROVE  /\ SoundStatement(type, k, Create(x))
           /\ Create(x).makes = x /\ ~Create(x).again
           /\ Create(x).takes = {}
  BY DEF SoundStatement, Create

LEMMA SoundEnsure ==
    ASSUME NEW type, NEW k, NEW x, x \notin {"maintable", "public.maintable"}
    PROVE  /\ SoundStatement(type, k, Ensure(x))
           /\ Ensure(x).makes = x /\ Ensure(x).again
           /\ Ensure(x).takes = {}
  BY DEF SoundStatement, Ensure

LEMMA SoundFirst ==
    ASSUME NEW type \in Types
    PROVE  SoundMigration(type, 1, m001_initial(type))
<1> DEFINE m == m001_initial(type)
           x == IF type = "sqlite" THEN "maintable" ELSE "public.maintable"
<1>1. Len(m) = 1 /\ DOMAIN m = 1..1 /\ m[1] = Create(x)
  BY DEF m001_initial
<1>2. /\ Create(x).makes = x /\ ~Create(x).again
      /\ Create(x).takes = {}
  BY DEF Create
<1>3. Home(type, x) = <<1, 1>>
  BY DEF Home
<1>4. SoundStatement(type, 1, Create(x))
  <2>1. type = "sqlite" => x = "maintable"
    OBVIOUS
  <2>2. type # "sqlite" => x = "public.maintable"
    OBVIOUS
  <2>3. Create(x).again \in BOOLEAN
    BY DEF Create
  <2> HIDE DEF x
  <2>4. Create(x).makes = "maintable" => type = "sqlite"
    BY <1>2, <2>2
  <2>5. type = "sqlite" => Create(x).makes # "public.maintable"
    BY <1>2, <2>1
  <2> QED
    BY <1>2, <2>3, <2>4, <2>5 DEF SoundStatement
<1> QED
  BY <1>1, <1>2, <1>3, <1>4 DEF SoundMigration, Repeatable, Atomic

LEMMA SoundMove ==
    ASSUME NEW type \in {"postgres", "cockroach"},
           NEW k, Home(type, "maintable") = <<k, 1>>, k \in {2, 3}
    PROVE  SoundMigration(type, k, <<Move("public.maintable", "maintable")>>)
<1> DEFINE s == Move("public.maintable", "maintable")
           m == <<s>>
<1>1. s.makes = "maintable" /\ s.again = TRUE /\ s.takes = {"public.maintable"}
  BY DEF Move
<1> HIDE DEF s
<1>2. SoundStatement(type, k, s)
  <2>1. type # "sqlite" /\ k # 1
    OBVIOUS
  <2> QED
    BY <1>1, <2>1 DEF SoundStatement
<1>3. Len(m) = 1 /\ DOMAIN m = 1..1 /\ m[1] = s
  OBVIOUS
<1> QED
  BY <1>1, <1>2, <1>3 DEF SoundMigration, Repeatable, s

LEMMA SoundNothing ==
    ASSUME NEW type, NEW k \in {2, 3}
    PROVE  SoundMigration(type, k, <<>>)
  BY DEF SoundMigration, Repeatable

LEMMA SoundMoves ==
    ASSUME NEW type \in Types
    PROVE  /\ SoundMigration(type, 2, m002_namespace_postgres_table(type))
           /\ SoundMigration(type, 3, m003_namespace_cockroach_table(type))
<1>1. /\ Home("postgres", "maintable") = <<2, 1>>
      /\ Home("cockroach", "maintable") = <<3, 1>>
  BY DEF Home
<1> QED
  BY <1>1, SoundMove, SoundNothing
     DEF Types, m002_namespace_postgres_table, m003_namespace_cockroach_table

LEMMA SoundPending ==
    ASSUME NEW type \in Types
    PROVE  SoundMigration(type, 4, m004_pending_payment)
<1> DEFINE m == m004_pending_payment
<1>1. /\ Len(m) = 1 /\ DOMAIN m = 1..1
      /\ m[1] = Create("pending_payment_hash")
  BY DEF m004_pending_payment
<1>2. /\ Home(type, "pending_payment_hash") = <<4, 1>>
  BY DEF Home
<1> HIDE DEF m
<1>3. /\ SoundStatement(type, 4, m[1])
      /\ Home(type, m[1].makes) = <<4, 1>>
      /\ ~m[1].again /\ m[1].takes = {}
  BY <1>1, <1>2, SoundCreate
<1> QED
  BY <1>1, <1>3 DEF SoundMigration, Repeatable, Atomic, m

LEMMA SoundRevision ==
    ASSUME NEW type \in Types
    PROVE  SoundMigration(type, 5, m005_allowance_revision)
<1> DEFINE m == m005_allowance_revision
<1>1. /\ Len(m) = 1 /\ DOMAIN m = 1..1
      /\ m[1] = Create("revision")
  BY DEF m005_allowance_revision
<1>2. /\ Home(type, "revision") = <<5, 1>>
  BY DEF Home
<1> HIDE DEF m
<1>3. /\ SoundStatement(type, 5, m[1])
      /\ Home(type, m[1].makes) = <<5, 1>>
      /\ ~m[1].again /\ m[1].takes = {}
  BY <1>1, <1>2, SoundCreate
<1> QED
  BY <1>1, <1>3 DEF SoundMigration, Repeatable, Atomic, m

LEMMA SoundHistory ==
    ASSUME NEW type \in Types
    PROVE  SoundMigration(type, 6, m006_operational_history)
<1> DEFINE m == m006_operational_history
<1>1. /\ Len(m) = 4 /\ DOMAIN m = 1..4
      /\ m[1] = Ensure("payment_history")
      /\ m[2] = Ensure("allowance_history_lookup")
      /\ m[3] = Ensure("scheduler_health")
      /\ m[4] = Ensure("worker")
  BY DEF m006_operational_history
<1>2. /\ Home(type, "payment_history") = <<6, 1>>
      /\ Home(type, "allowance_history_lookup") = <<6, 2>>
      /\ Home(type, "scheduler_health") = <<6, 3>>
      /\ Home(type, "worker") = <<6, 4>>
  BY DEF Home
<1> HIDE DEF m
<1>3. /\ SoundStatement(type, 6, m[1])
      /\ Home(type, m[1].makes) = <<6, 1>>
      /\ m[1].again /\ m[1].takes = {}
  BY <1>1, <1>2, SoundEnsure
<1>4. /\ SoundStatement(type, 6, m[2])
      /\ Home(type, m[2].makes) = <<6, 2>>
      /\ m[2].again /\ m[2].takes = {}
  BY <1>1, <1>2, SoundEnsure
<1>5. /\ SoundStatement(type, 6, m[3])
      /\ Home(type, m[3].makes) = <<6, 3>>
      /\ m[3].again /\ m[3].takes = {}
  BY <1>1, <1>2, SoundEnsure
<1>6. /\ SoundStatement(type, 6, m[4])
      /\ Home(type, m[4].makes) = <<6, 4>>
      /\ m[4].again /\ m[4].takes = {}
  BY <1>1, <1>2, SoundEnsure
<1> QED
  BY <1>1, <1>3, <1>4, <1>5, <1>6 DEF SoundMigration, Repeatable, Atomic, m

LEMMA SoundRetrySqlite ==
    ASSUME NEW type \in Types, type = "sqlite"
    PROVE  SoundMigration(type, 7, m007_retry_and_local_schedule(type))
<1> DEFINE m == m007_retry_and_local_schedule(type)
<1>1. /\ Len(m) = 9 /\ DOMAIN m = 1..9
      /\ m[1] = Create("wallet_limits")
      /\ m[2] = Create("timezone_name")
      /\ m[3] = Create("retry_count")
      /\ m[4] = Create("retry_after")
      /\ m[5] = Create("retry_deadline")
      /\ m[6] = Ensure("start_datetime_seconds")
      /\ m[7] = Ensure("start_datetime_epoch")
      /\ m[8] = Ensure("next_payment_date_seconds")
      /\ m[9] = Ensure("next_payment_date_epoch")
  BY DEF m007_retry_and_local_schedule
<1>2. /\ Home(type, "wallet_limits") = <<7, 1>>
      /\ Home(type, "timezone_name") = <<7, 2>>
      /\ Home(type, "retry_count") = <<7, 3>>
      /\ Home(type, "retry_after") = <<7, 4>>
      /\ Home(type, "retry_deadline") = <<7, 5>>
      /\ Home(type, "start_datetime_seconds") = <<7, 6>>
      /\ Home(type, "start_datetime_epoch") = <<7, 7>>
      /\ Home(type, "next_payment_date_seconds") = <<7, 8>>
      /\ Home(type, "next_payment_date_epoch") = <<7, 9>>
  BY DEF Home
<1> HIDE DEF m
<1>3. /\ SoundStatement(type, 7, m[1])
      /\ Home(type, m[1].makes) = <<7, 1>>
      /\ ~m[1].again /\ m[1].takes = {}
  BY <1>1, <1>2, SoundCreate
<1>4. /\ SoundStatement(type, 7, m[2])
      /\ Home(type, m[2].makes) = <<7, 2>>
      /\ ~m[2].again /\ m[2].takes = {}
  BY <1>1, <1>2, SoundCreate
<1>5. /\ SoundStatement(type, 7, m[3])
      /\ Home(type, m[3].makes) = <<7, 3>>
      /\ ~m[3].again /\ m[3].takes = {}
  BY <1>1, <1>2, SoundCreate
<1>6. /\ SoundStatement(type, 7, m[4])
      /\ Home(type, m[4].makes) = <<7, 4>>
      /\ ~m[4].again /\ m[4].takes = {}
  BY <1>1, <1>2, SoundCreate
<1>7. /\ SoundStatement(type, 7, m[5])
      /\ Home(type, m[5].makes) = <<7, 5>>
      /\ ~m[5].again /\ m[5].takes = {}
  BY <1>1, <1>2, SoundCreate
<1>8. /\ SoundStatement(type, 7, m[6])
      /\ Home(type, m[6].makes) = <<7, 6>>
      /\ m[6].again /\ m[6].takes = {}
  BY <1>1, <1>2, SoundEnsure
<1>9. /\ SoundStatement(type, 7, m[7])
      /\ Home(type, m[7].makes) = <<7, 7>>
      /\ m[7].again /\ m[7].takes = {}
  BY <1>1, <1>2, SoundEnsure
<1>10. /\ SoundStatement(type, 7, m[8])
      /\ Home(type, m[8].makes) = <<7, 8>>
      /\ m[8].again /\ m[8].takes = {}
  BY <1>1, <1>2, SoundEnsure
<1>11. /\ SoundStatement(type, 7, m[9])
      /\ Home(type, m[9].makes) = <<7, 9>>
      /\ m[9].again /\ m[9].takes = {}
  BY <1>1, <1>2, SoundEnsure
<1> QED
  BY <1>1, <1>3, <1>4, <1>5, <1>6, <1>7, <1>8, <1>9, <1>10, <1>11, SMTT(60)
     DEF SoundMigration, Repeatable, Atomic, m

LEMMA SoundRetryOthers ==
    ASSUME NEW type \in Types, type # "sqlite"
    PROVE  SoundMigration(type, 7, m007_retry_and_local_schedule(type))
<1> DEFINE m == m007_retry_and_local_schedule(type)
<1>1. /\ Len(m) = 7 /\ DOMAIN m = 1..7
      /\ m[1] = Create("wallet_limits")
      /\ m[2] = Create("timezone_name")
      /\ m[3] = Create("retry_count")
      /\ m[4] = Create("retry_after")
      /\ m[5] = Create("retry_deadline")
      /\ m[6] = Ensure("start_datetime_seconds")
      /\ m[7] = Ensure("next_payment_date_seconds")
  BY DEF m007_retry_and_local_schedule
<1>2. /\ Home(type, "wallet_limits") = <<7, 1>>
      /\ Home(type, "timezone_name") = <<7, 2>>
      /\ Home(type, "retry_count") = <<7, 3>>
      /\ Home(type, "retry_after") = <<7, 4>>
      /\ Home(type, "retry_deadline") = <<7, 5>>
      /\ Home(type, "start_datetime_seconds") = <<7, 6>>
      /\ Home(type, "next_payment_date_seconds") = <<7, 7>>
  BY DEF Home
<1> HIDE DEF m
<1>3. /\ SoundStatement(type, 7, m[1])
      /\ Home(type, m[1].makes) = <<7, 1>>
      /\ ~m[1].again /\ m[1].takes = {}
  BY <1>1, <1>2, SoundCreate
<1>4. /\ SoundStatement(type, 7, m[2])
      /\ Home(type, m[2].makes) = <<7, 2>>
      /\ ~m[2].again /\ m[2].takes = {}
  BY <1>1, <1>2, SoundCreate
<1>5. /\ SoundStatement(type, 7, m[3])
      /\ Home(type, m[3].makes) = <<7, 3>>
      /\ ~m[3].again /\ m[3].takes = {}
  BY <1>1, <1>2, SoundCreate
<1>6. /\ SoundStatement(type, 7, m[4])
      /\ Home(type, m[4].makes) = <<7, 4>>
      /\ ~m[4].again /\ m[4].takes = {}
  BY <1>1, <1>2, SoundCreate
<1>7. /\ SoundStatement(type, 7, m[5])
      /\ Home(type, m[5].makes) = <<7, 5>>
      /\ ~m[5].again /\ m[5].takes = {}
  BY <1>1, <1>2, SoundCreate
<1>8. /\ SoundStatement(type, 7, m[6])
      /\ Home(type, m[6].makes) = <<7, 6>>
      /\ m[6].again /\ m[6].takes = {}
  BY <1>1, <1>2, SoundEnsure
<1>9. /\ SoundStatement(type, 7, m[7])
      /\ Home(type, m[7].makes) = <<7, 7>>
      /\ m[7].again /\ m[7].takes = {}
  BY <1>1, <1>2, SoundEnsure
<1> QED
  BY <1>1, <1>3, <1>4, <1>5, <1>6, <1>7, <1>8, <1>9 DEF SoundMigration, Repeatable, Atomic, m

LEMMA SoundLogs ==
    ASSUME NEW type \in Types
    PROVE  SoundMigration(type, 8, m008_payment_logs)
<1> DEFINE m == m008_payment_logs
<1>1. /\ Len(m) = 2 /\ DOMAIN m = 1..2
      /\ m[1] = Ensure("payment_logs")
      /\ m[2] = Ensure("allowance_logs_lookup")
  BY DEF m008_payment_logs
<1>2. /\ Home(type, "payment_logs") = <<8, 1>>
      /\ Home(type, "allowance_logs_lookup") = <<8, 2>>
  BY DEF Home
<1> HIDE DEF m
<1>3. /\ SoundStatement(type, 8, m[1])
      /\ Home(type, m[1].makes) = <<8, 1>>
      /\ m[1].again /\ m[1].takes = {}
  <2>1. SoundStatement(type, 8, Ensure("payment_logs"))
    BY SoundEnsure
  <2>2. /\ m[1].makes = "payment_logs"
        /\ m[1].again /\ m[1].takes = {}
    BY <1>1, SoundEnsure
  <2> QED
    BY <1>1, <1>2, <2>1, <2>2
<1>4. /\ SoundStatement(type, 8, m[2])
      /\ Home(type, m[2].makes) = <<8, 2>>
      /\ m[2].again /\ m[2].takes = {}
  <2>1. SoundStatement(type, 8, Ensure("allowance_logs_lookup"))
    BY SoundEnsure
  <2>2. /\ m[2].makes = "allowance_logs_lookup"
        /\ m[2].again /\ m[2].takes = {}
    BY <1>1, SoundEnsure
  <2> QED
    BY <1>1, <1>2, <2>1, <2>2
<1> QED
  BY <1>1, <1>3, <1>4 DEF SoundMigration, Repeatable, Atomic, m

LEMMA SoundOccurrences ==
    ASSUME NEW type \in Types
    PROVE  SoundMigration(type, 9, m009_occurrence_retries)
<1> DEFINE m == m009_occurrence_retries
<1>1. /\ Len(m) = 2 /\ DOMAIN m = 1..2
      /\ m[1] = Create("retry_resume_date")
      /\ m[2] = Create("retry_snapshot")
  BY DEF m009_occurrence_retries
<1>2. /\ Home(type, "retry_resume_date") = <<9, 1>>
      /\ Home(type, "retry_snapshot") = <<9, 2>>
  BY DEF Home
<1> HIDE DEF m
<1>3. /\ SoundStatement(type, 9, m[1])
      /\ Home(type, m[1].makes) = <<9, 1>>
      /\ ~m[1].again /\ m[1].takes = {}
  BY <1>1, <1>2, SoundCreate
<1>4. /\ SoundStatement(type, 9, m[2])
      /\ Home(type, m[2].makes) = <<9, 2>>
      /\ ~m[2].again /\ m[2].takes = {}
  BY <1>1, <1>2, SoundCreate
<1> QED
  BY <1>1, <1>3, <1>4 DEF SoundMigration, Repeatable, Atomic, m

LEMMA SoundMigrations ==
    ASSUME NEW type \in Types, NEW k \in 1..Newest
    PROVE  SoundMigration(type, k, Migration(type)[k])
<1> DEFINE m == Migration(type)
<1>1. /\ m[1] = m001_initial(type) /\ m[2] = m002_namespace_postgres_table(type)
      /\ m[3] = m003_namespace_cockroach_table(type) /\ m[4] = m004_pending_payment
      /\ m[5] = m005_allowance_revision /\ m[6] = m006_operational_history
      /\ m[7] = m007_retry_and_local_schedule(type) /\ m[8] = m008_payment_logs
      /\ m[9] = m009_occurrence_retries
  BY DEF Migration
<1>2. k \in {1, 2, 3, 4, 5, 6, 7, 8, 9}
  BY DEF Newest
<1> QED
  BY <1>1, <1>2, SoundFirst, SoundMoves, SoundPending, SoundRevision,
     SoundHistory, SoundRetrySqlite, SoundRetryOthers, SoundLogs, SoundOccurrences

-----------------------------------------------------------------------------
(* What statements make                                                    *)

(* The statements of a migration are numbered, and sound.                  *)
LEMMA StatementsSound ==
    ASSUME NEW type \in Types, NEW k \in 1..Newest
    PROVE  /\ Len(Migration(type)[k]) \in Nat
           /\ DOMAIN Migration(type)[k] = 1..Len(Migration(type)[k])
           /\ \A i \in 1..Len(Migration(type)[k]) :
                /\ SoundStatement(type, k, Migration(type)[k][i])
                /\ Home(type, Migration(type)[k][i].makes) = <<k, i>>
  BY SoundMigrations DEF SoundMigration

(* A statement executed before is one of an earlier migration, or an       *)
(* earlier one of this.                                                    *)
Applied(type, k, n) ==
    Done(type, k) \cup {Migration(type)[k + 1][i] : i \in 1..(n - 1)}

LEMMA DoneIsOfEarlier ==
    ASSUME NEW type \in Types, NEW k \in Nat
    PROVE  \A s : s \in Done(type, k) <=>
                \E j \in 1..Newest : \E i \in 1..Len(Migration(type)[j]) :
                    j <= k /\ s = Migration(type)[j][i]
<1>1. \A j \in 1..Newest :
        Range(Migration(type)[j]) =
            {Migration(type)[j][i] : i \in 1..Len(Migration(type)[j])}
  BY StatementsSound DEF Range
<1>2. ASSUME NEW s
      PROVE  s \in Done(type, k) <=>
                \E j \in 1..Newest : j <= k /\ s \in Range(Migration(type)[j])
  BY Zenon DEF Done
<1>3. ASSUME NEW s, NEW j \in 1..Newest
      PROVE  s \in Range(Migration(type)[j]) <=>
                \E i \in 1..Len(Migration(type)[j]) : s = Migration(type)[j][i]
  BY <1>1, Zenon
<1>4. ASSUME NEW s, s \in Done(type, k)
      PROVE  \E j \in 1..Newest : \E i \in 1..Len(Migration(type)[j]) :
                j <= k /\ s = Migration(type)[j][i]
  <2>1. PICK j \in 1..Newest : j <= k /\ s \in Range(Migration(type)[j])
    BY <1>2, <1>4
  <2>2. PICK i \in 1..Len(Migration(type)[j]) : s = Migration(type)[j][i]
    BY <1>3, <2>1
  <2> QED
    BY <2>1, <2>2
<1>5. ASSUME NEW j \in 1..Newest, NEW i \in 1..Len(Migration(type)[j]), j <= k
      PROVE  Migration(type)[j][i] \in Done(type, k)
  BY <1>2, <1>3, <1>5
<1> QED
  BY <1>4, <1>5

LEMMA NothingDoneFirst ==
    ASSUME NEW type \in Types
    PROVE  Done(type, 0) = {}
  BY DoneIsOfEarlier

LEMMA AppliedNone ==
    ASSUME NEW type \in Types, NEW k \in Nat
    PROVE  Applied(type, k, 1) = Done(type, k)
  BY DEF Applied

LEMMA AppliedNext ==
    ASSUME NEW type \in Types, NEW k \in Nat, NEW n \in Nat \ {0}
    PROVE  Applied(type, k, n + 1) =
                Applied(type, k, n) \cup {Migration(type)[k + 1][n]}
<1>1. 1..((n + 1) - 1) = (1..(n - 1)) \cup {n}
  OBVIOUS
<1> QED
  BY <1>1 DEF Applied

LEMMA AppliedAll ==
    ASSUME NEW type \in Types, NEW k \in 0..(Newest - 1)
    PROVE  Applied(type, k, Len(Migration(type)[k + 1]) + 1) = Done(type, k + 1)
<1> DEFINE m == Migration(type)[k + 1]
<1>1. k \in Nat /\ k + 1 \in Nat /\ k + 1 \in 1..Newest /\ Len(m) \in Nat
  BY StatementsSound DEF Newest
<1>2. \A j \in 1..Newest : j <= k + 1 <=> j <= k \/ j = k + 1
  BY DEF Newest
<1>3. 1..((Len(m) + 1) - 1) = 1..Len(m)
  BY <1>1
<1>4. ASSUME NEW s
      PROVE  s \in Done(type, k + 1) <=>
                s \in Done(type, k) \/ \E i \in 1..Len(m) : s = m[i]
  BY <1>1, <1>2, DoneIsOfEarlier
<1> QED
  BY <1>3, <1>4 DEF Applied

(* A schema: the names made that no statement has moved away.              *)
LEMMA MadeBy ==
    ASSUME NEW S, NEW x
    PROVE  x \in SchemaOf(S) <=>
            /\ \E s \in S : s.makes = x
            /\ \A s \in S : x \notin s.takes
  BY DEF SchemaOf

LEMMA AppliedSound ==
    ASSUME NEW type \in Types, NEW k \in 0..Newest, NEW n \in Nat \ {0},
           n = 1 \/ (k < Newest /\ n <= Len(Migration(type)[k + 1]) + 1),
           NEW s \in Applied(type, k, n)
    PROVE  \E j \in 1..Newest : \E i \in 1..Len(Migration(type)[j]) :
                /\ s = Migration(type)[j][i] /\ SoundStatement(type, j, s)
                /\ Home(type, s.makes) = <<j, i>>
                /\ j <= k \/ (j = k + 1 /\ i < n)
<1>1. CASE s \in Done(type, k)
  BY <1>1, DoneIsOfEarlier, StatementsSound
<1>2. CASE s \notin Done(type, k)
  <2>1. PICK i \in 1..(n - 1) : s = Migration(type)[k + 1][i]
    BY <1>2 DEF Applied
  <2>2. k < Newest /\ k + 1 \in 1..Newest /\ Len(Migration(type)[k + 1]) \in Nat
    BY <2>1, StatementsSound DEF Newest
  <2>3. i \in 1..Len(Migration(type)[k + 1]) /\ i < n
    BY <2>1, <2>2
  <2> QED
    BY <2>1, <2>2, <2>3, StatementsSound
<1> QED
  BY <1>1, <1>2

(* Where the table was made in another schema, m001 made it.               *)
LEMMA FirstMakesTable ==
    ASSUME NEW type \in Types, type # "sqlite", NEW k \in 1..Newest
    PROVE  \E s \in Done(type, k) : s.makes = "public.maintable"
<1> DEFINE s == Migration(type)[1][1]
<1>1. s = Create("public.maintable") /\ Len(Migration(type)[1]) = 1
  BY DEF Migration, m001_initial
<1>2. s.makes = "public.maintable"
  BY <1>1 DEF Create
<1>3. 1 \in 1..Newest /\ 1 \in 1..Len(Migration(type)[1]) /\ 1 <= k /\ k \in Nat
  BY <1>1 DEF Newest
<1>4. s \in Done(type, k)
  BY <1>3, DoneIsOfEarlier
<1> QED
  BY <1>2, <1>4

(* Executed at its turn, a statement makes something new, and finds what   *)
(* it moves; the schema has all of its predecessors' effects and its own.  *)
LEMMA NextStatement ==
    ASSUME NEW type \in Types, NEW k \in 0..(Newest - 1),
           NEW n \in 1..Len(Migration(type)[k + 1])
    PROVE  LET s == Migration(type)[k + 1][n]
               A == Applied(type, k, n)
           IN /\ s.makes \notin SchemaOf(A)
              /\ s.takes \subseteq SchemaOf(A)
              /\ SchemaOf(Applied(type, k, n + 1)) =
                    (SchemaOf(A) \ s.takes) \cup {s.makes}
<1> DEFINE s == Migration(type)[k + 1][n]
           A == Applied(type, k, n)
<1>1. /\ k \in 0..Newest /\ k < Newest /\ k + 1 \in 1..Newest /\ k \in Nat
      /\ Len(Migration(type)[k + 1]) \in Nat /\ n \in Nat \ {0}
      /\ n <= Len(Migration(type)[k + 1]) + 1
  BY StatementsSound DEF Newest
<1>2. SoundStatement(type, k + 1, s) /\ Home(type, s.makes) = <<k + 1, n>>
  BY <1>1, StatementsSound
<1>3. Applied(type, k, n + 1) = A \cup {s}
  BY <1>1, AppliedNext
<1>4. ASSUME NEW t \in A
      PROVE  \E j \in 1..Newest : \E i \in Nat :
                /\ SoundStatement(type, j, t) /\ Home(type, t.makes) = <<j, i>>
                /\ j <= k \/ (j = k + 1 /\ i < n)
  <2>1. PICK j \in 1..Newest : \E i \in 1..Len(Migration(type)[j]) :
            /\ SoundStatement(type, j, t) /\ Home(type, t.makes) = <<j, i>>
            /\ j <= k \/ (j = k + 1 /\ i < n)
    BY <1>1, AppliedSound
  <2>2. \A i \in 1..Len(Migration(type)[j]) : i \in Nat
    BY StatementsSound
  <2> QED
    BY <2>1, <2>2
<1>5. k = 0 => \A t \in A : t.takes = {}
  <2> SUFFICES ASSUME k = 0, NEW t \in A PROVE t.takes = {}
    OBVIOUS
  <2>1. PICK j \in 1..Newest, i \in Nat :
            SoundStatement(type, j, t) /\ (j <= k \/ (j = k + 1 /\ i < n))
    BY <1>4
  <2>2. j = 1
    BY <2>1
  <2> QED
    BY <2>1, <2>2 DEF SoundStatement
<1>6. \A t \in A : t.takes = {} \/ t.takes = {"public.maintable"}
  BY <1>4 DEF SoundStatement
<1>7. \A t \in A : s.makes \notin t.takes
  <2>1. s.makes = "public.maintable" => k = 0
    BY <1>1, <1>2 DEF SoundStatement
  <2> QED
    BY <2>1, <1>5, <1>6
<1>8. s.makes \notin s.takes
  BY <1>2 DEF SoundStatement
<1>9. \A t \in A : t.makes # s.makes
  <2> SUFFICES ASSUME NEW t \in A, t.makes = s.makes PROVE FALSE
    OBVIOUS
  <2>1. PICK j \in 1..Newest, i \in Nat :
            /\ Home(type, t.makes) = <<j, i>>
            /\ j <= k \/ (j = k + 1 /\ i < n)
    BY <1>4
  <2>2. j = k + 1 /\ i = n
    BY <1>2, <2>1
  <2> QED
    BY <1>1, <2>1, <2>2
<1>10. s.makes \notin SchemaOf(A)
  BY <1>9, MadeBy
<1>11. s.takes \subseteq SchemaOf(A)
  <2> SUFFICES ASSUME s.takes # {} PROVE "public.maintable" \in SchemaOf(A)
    BY <1>2 DEF SoundStatement
  <2>1. /\ type # "sqlite" /\ k >= 1 /\ s.makes = "maintable"
        /\ Home(type, "maintable") = <<k + 1, 1>>
    BY <1>1, <1>2 DEF SoundStatement
  <2>2. n = 1
    BY <1>2, <2>1
  <2>3. A = Done(type, k)
    BY <1>1, <2>2, AppliedNone
  <2>4. \E t \in A : t.makes = "public.maintable"
    BY <1>1, <2>1, <2>3, FirstMakesTable
  <2>5. ASSUME NEW t \in A PROVE "public.maintable" \notin t.takes
    <3>1. t.makes # "maintable"
      BY <1>9, <2>1
    <3>2. PICK j \in 1..Newest : SoundStatement(type, j, t)
      BY <1>4
    <3> QED
      BY <3>1, <3>2 DEF SoundStatement
  <2> QED
    BY <2>4, <2>5, MadeBy
<1>12. SchemaOf(A \cup {s}) = (SchemaOf(A) \ s.takes) \cup {s.makes}
  <2> SUFFICES ASSUME NEW x
               PROVE  x \in SchemaOf(A \cup {s}) <=>
                        (x \in SchemaOf(A) /\ x \notin s.takes) \/ x = s.makes
    BY Zenon
  <2>1. x \in SchemaOf(A \cup {s}) <=>
            /\ (\E t \in A : t.makes = x) \/ s.makes = x
            /\ \A t \in A : x \notin t.takes
            /\ x \notin s.takes
    BY DEF SchemaOf
  <2>2. x \in SchemaOf(A) <=>
            (\E t \in A : t.makes = x) /\ \A t \in A : x \notin t.takes
    BY DEF SchemaOf
  <2> QED
    BY <2>1, <2>2, <1>7, <1>8
<1> QED
  BY <1>3, <1>10, <1>11, <1>12

(* A whole migration has made what each of its statements makes.           *)
LEMMA WholeMakesAll ==
    ASSUME NEW type \in Types, NEW k \in 0..(Newest - 1),
           NEW n \in 1..Len(Migration(type)[k + 1])
    PROVE  Migration(type)[k + 1][n].makes \in Complete(type, k + 1)
<1> DEFINE s == Migration(type)[k + 1][n]
<1>1. /\ k \in Nat /\ k + 1 \in Nat /\ k + 1 \in 1..Newest /\ k + 1 <= k + 1
  BY DEF Newest
<1>2. SoundStatement(type, k + 1, s)
  BY <1>1, StatementsSound
<1>3. s \in Done(type, k + 1)
  BY <1>1, DoneIsOfEarlier
<1>4. ASSUME NEW t \in Done(type, k + 1) PROVE s.makes \notin t.takes
  <2>1. PICK j \in 1..Newest : SoundStatement(type, j, t) /\ j <= k + 1
    BY <1>1, DoneIsOfEarlier, StatementsSound
  <2> QED
    BY <1>1, <1>2, <2>1 DEF SoundStatement
<1> QED
  BY <1>3, <1>4, MadeBy DEF Complete

(* No schema has anything but what the newest has, and the table that is   *)
(* moved; nor has one the table twice.                                     *)
LEMMA SchemaTyped ==
    ASSUME NEW type \in Types, NEW k \in 0..Newest, NEW n \in Nat \ {0},
           n = 1 \/ (k < Newest /\ n <= Len(Migration(type)[k + 1]) + 1)
    PROVE  LET w == SchemaOf(Applied(type, k, n)) IN
           /\ w \subseteq Complete(type, Newest) \cup {"public.maintable"}
           /\ ~({"maintable", "public.maintable"} \subseteq w)
<1> DEFINE A == Applied(type, k, n)
           w == SchemaOf(A)
<1>1. ASSUME NEW x \in w, x # "public.maintable"
      PROVE  x \in Complete(type, Newest)
  <2>1. PICK t \in A : t.makes = x
    BY <1>1, MadeBy
  <2>2. PICK j \in 1..Newest : \E i \in 1..Len(Migration(type)[j]) :
            t = Migration(type)[j][i]
    BY AppliedSound
  <2>3. Newest \in Nat /\ j <= Newest
    BY DEF Newest
  <2>4. t \in Done(type, Newest)
    BY <2>2, <2>3, DoneIsOfEarlier
  <2>5. \A u \in Done(type, Newest) : x \notin u.takes
    <3> SUFFICES ASSUME NEW u \in Done(type, Newest) PROVE x \notin u.takes
      OBVIOUS
    <3>1. PICK l \in 1..Newest : SoundStatement(type, l, u)
      BY <2>3, DoneIsOfEarlier, StatementsSound
    <3> QED
      BY <1>1, <3>1 DEF SoundStatement
  <2> QED
    BY <2>1, <2>4, <2>5, MadeBy DEF Complete
<1>2. ASSUME "maintable" \in w, "public.maintable" \in w PROVE FALSE
  <2>1. PICK t \in A : t.makes = "maintable"
    BY <1>2, MadeBy
  <2>2. PICK u \in A : u.makes = "public.maintable"
    BY <1>2, MadeBy
  <2>3. PICK j \in 1..Newest : SoundStatement(type, j, t)
    BY AppliedSound
  <2>4. PICK l \in 1..Newest : SoundStatement(type, l, u)
    BY AppliedSound
  <2>5. "public.maintable" \notin t.takes
    BY <1>2, MadeBy
  <2> QED
    BY <2>1, <2>2, <2>3, <2>4, <2>5 DEF SoundStatement
<1> QED
  BY <1>1, <1>2

-----------------------------------------------------------------------------
(* The steps                                                               *)

LEMMA TypeOfDatabase ==
    ASSUME TypeOK
    PROVE  database \in Types /\ version \in Nat /\ server.next \in Nat
  BY MigrationsAssumption DEF TypeOK, Types, Servers, Newest

LEMMA ProgressIsApplied ==
    Progress = SchemaOf(Applied(database, version, server.next))
  BY DEF Progress, Applied, Statements

(* Between two migrations a schema is complete, and typed.                 *)
LEMMA CompleteTyped ==
    ASSUME NEW type \in Types, NEW k \in 0..Newest
    PROVE  /\ Complete(type, k) = SchemaOf(Applied(type, k, 1))
           /\ Complete(type, k) \subseteq Complete(type, Newest) \cup {"public.maintable"}
           /\ ~({"maintable", "public.maintable"} \subseteq Complete(type, k))
<1>1. k \in Nat
  BY DEF Newest
<1>2. Complete(type, k) = SchemaOf(Applied(type, k, 1))
  BY <1>1, AppliedNone DEF Complete
<1> QED
  BY <1>2, SchemaTyped

(* The statement that is next: on the schema of its predecessors it does   *)
(* its work, on that of a run before it is the first and fails, or does    *)
(* nothing.                                                                *)
LEMMA StatementOutcome ==
    ASSUME UpgradeInv, server.pc = "run", server.next <= Len(Statements)
    PROVE  /\ version \in 0..(Newest - 1) /\ server.next \in 1..Len(Statements)
           /\ work = Progress =>
                /\ ~Rejected
                /\ Changed = SchemaOf(Applied(database, version, server.next + 1))
           /\ work = Complete(database, version + 1)
                    /\ (server.next = 1 \/ version + 1 \in Repeatable) =>
                /\ Changed = work
                /\ Rejected <=> version + 1 \notin Repeatable
<1>1. database \in Types /\ version \in 0..(Newest - 1) /\ version + 1 \in 1..Newest
  BY TypeOfDatabase DEF UpgradeInv, RunInv, TypeOK, Newest
<1>2. Len(Statements) \in Nat /\ server.next \in 1..Len(Statements)
  BY <1>1, StatementsSound DEF UpgradeInv, RunInv, Statements
<1>3. ASSUME work = Progress
      PROVE  /\ ~Rejected
             /\ Changed = SchemaOf(Applied(database, version, server.next + 1))
  <2>1. work = SchemaOf(Applied(database, version, server.next))
    BY <1>3, ProgressIsApplied
  <2>2. /\ Statement.makes \notin work
        /\ Statement.takes \subseteq work
        /\ SchemaOf(Applied(database, version, server.next + 1)) =
                (work \ Statement.takes) \cup {Statement.makes}
    BY <1>1, <1>2, <2>1, NextStatement DEF Statement, Statements
  <2> QED
    BY <2>2 DEF Rejected, Changed
<1>4. ASSUME work = Complete(database, version + 1),
             server.next = 1 \/ version + 1 \in Repeatable
      PROVE  /\ Changed = work
             /\ Rejected <=> version + 1 \notin Repeatable
  <2>1. Statement.makes \in work
    BY <1>1, <1>2, <1>4, WholeMakesAll DEF Statement, Statements
  <2>2. SoundMigration(database, version + 1, Statements)
    BY <1>1, SoundMigrations DEF Statements
  <2>3. version + 1 \in Repeatable => Statement.again
    BY <1>2, <2>2 DEF SoundMigration, Statement
  <2>4. version + 1 \notin Repeatable => ~Statement.again
    BY <1>4, <2>2 DEF SoundMigration, Statement
  <2> QED
    BY <2>1, <2>3, <2>4 DEF Changed, Rejected
<1> QED
  BY <1>1, <1>2, <1>3, <1>4

(* A new installation, or one by an earlier release, is at rest.           *)
LEMMA UpgradeInit == Init => UpgradeInv
<1> SUFFICES ASSUME Init PROVE UpgradeInv
  OBVIOUS
<1>1. database \in Types /\ version \in 0..Newest
  BY MigrationsAssumption DEF Init, Types
<1>2. TypeOK
  BY <1>1, CompleteTyped, MigrationsAssumption DEF Init, TypeOK, Servers
<1> QED
  BY <1>2 DEF Init, UpgradeInv, NeverHalfMigrated, FailsOnlyUnnoted, RunInv, RestInv

(* A started server takes up what it finds: the schema of the version      *)
(* noted, or that of the next.                                             *)
LEMMA StartStep ==
    ASSUME UpgradeInv, Start
    PROVE  UpgradeInv'
<1> USE DEF Start
<1>1. database \in Types /\ version \in 0..Newest /\ version \in Nat
  BY TypeOfDatabase DEF UpgradeInv, TypeOK
<1>2. TypeOK'
  <2>1. server' \in Servers
    BY DEF Servers
  <2>2. ~({"maintable", "public.maintable"} \subseteq schema)
    BY DEF UpgradeInv, RestInv, TypeOK
  <2> QED
    BY <2>1, <2>2 DEF UpgradeInv, TypeOK
<1>3. NeverHalfMigrated' /\ FailsOnlyUnnoted'
  BY DEF UpgradeInv, NeverHalfMigrated, FailsOnlyUnnoted
<1>4. RunInv'
  <2> SUFFICES ASSUME server'.pc = "run" PROVE RunInv'
    BY DEF RunInv
  <2>1. version < Newest /\ server'.next = 1
    BY <1>1 DEF Newest
  <2>2. version + 1 \in 1..Newest
    BY <1>1, <2>1 DEF Newest
  <2>3. server'.next \in 1..(Len(Statements') + 1)
    BY <2>1, <2>2, <1>1, StatementsSound DEF Statements
  <2>4. Progress' = Complete(database, version)
    BY <1>1, <2>1, CompleteTyped, ProgressIsApplied DEF Progress, Applied, Statements
  <2>5. schema \in {Complete(database, version), Complete(database, version + 1)}
    BY DEF UpgradeInv, NeverHalfMigrated
  <2> QED
    BY <2>1, <2>3, <2>4, <2>5 DEF RunInv
<1>5. RestInv'
  BY DEF RestInv
<1> QED
  BY <1>2, <1>3, <1>4, <1>5 DEF UpgradeInv

(* A statement that is executed does its work, or finds it done.           *)
LEMMA ExecuteStep ==
    ASSUME UpgradeInv, Execute
    PROVE  UpgradeInv'
<1> USE DEF Execute
<1>1. /\ database \in Types /\ version \in 0..(Newest - 1)
      /\ version \in Nat /\ version \in 0..Newest /\ version < Newest
      /\ version + 1 \in 1..Newest
      /\ server.next \in 1..Len(Statements) /\ Len(Statements) \in Nat
  BY StatementOutcome, TypeOfDatabase, StatementsSound
     DEF UpgradeInv, TypeOK, Newest, Statements
<1>2. /\ server'.pc = "run" /\ server'.next = server.next + 1 /\ server' \in Servers
      /\ Statements' = Statements
      /\ server'.next \in 1..(Len(Statements) + 1)
  BY <1>1 DEF UpgradeInv, TypeOK, Servers, Statements
<1>3. CASE work = Progress /\ schema = IF Atomic(database, version + 1)
                                        THEN Complete(database, version) ELSE work
  <2>1. Changed = SchemaOf(Applied(database, version, server.next + 1))
    BY <1>3, StatementOutcome
  <2>2. work' = Progress'
    BY <1>2, <2>1 DEF Progress, Applied, Statements
  <2>3. schema' = IF Atomic(database, version + 1)
                    THEN Complete(database, version) ELSE work'
    BY <1>3
  <2>4. ~Atomic(database, version + 1) => work' = Complete(database, version + 1)
    <3> SUFFICES ASSUME ~Atomic(database, version + 1)
                 PROVE  Changed = Complete(database, version + 1)
      OBVIOUS
    <3>1. SoundMigration(database, version + 1, Statements)
      BY <1>1, SoundMigrations DEF Statements
    <3>2. server.next = Len(Statements)
      BY <1>1, <3>1 DEF SoundMigration
    <3> QED
      BY <1>1, <2>1, <3>2, AppliedAll DEF Complete, Statements
  <2>5. /\ work' \subseteq Complete(database, Newest) \cup {"public.maintable"}
        /\ ~({"maintable", "public.maintable"} \subseteq work')
    <3>1. /\ server.next + 1 \in Nat \ {0}
          /\ server.next + 1 <= Len(Migration(database)[version + 1]) + 1
      BY <1>1 DEF Statements
    <3> QED
      BY <1>1, <2>1, <3>1, SchemaTyped
  <2>6. schema' \subseteq Complete(database, Newest) \cup {"public.maintable"}
    BY <1>1, <2>3, <2>5, CompleteTyped
  <2>7. TypeOK'
    BY <1>2, <2>5, <2>6 DEF UpgradeInv, TypeOK
  <2>8. NeverHalfMigrated' /\ RunInv'
    BY <1>1, <1>2, <2>2, <2>3, <2>4 DEF NeverHalfMigrated, RunInv
  <2> QED
    BY <1>2, <2>7, <2>8 DEF UpgradeInv, FailsOnlyUnnoted, RestInv
<1>4. CASE /\ work = Complete(database, version + 1) /\ schema = work
           /\ server.next = 1 \/ version + 1 \in Repeatable
  <2>1. work' = work /\ schema' = schema /\ version + 1 \in Repeatable
    BY <1>4, StatementOutcome
  <2>2. TypeOK' /\ NeverHalfMigrated'
    BY <1>2, <2>1 DEF UpgradeInv, TypeOK, NeverHalfMigrated
  <2>3. RunInv'
    BY <1>1, <1>2, <1>4, <2>1 DEF RunInv
  <2> QED
    BY <1>2, <2>2, <2>3 DEF UpgradeInv, FailsOnlyUnnoted, RestInv
<1> QED
  BY <1>3, <1>4 DEF UpgradeInv, RunInv

(* The first statement of a migration that was committed and not noted is  *)
(* the only one that is rejected.                                          *)
LEMMA RejectStep ==
    ASSUME UpgradeInv, Reject
    PROVE  UpgradeInv'
<1> USE DEF Reject
<1>1. version \in 0..(Newest - 1) /\ version < Newest
  BY StatementOutcome DEF Newest
<1>2. /\ schema = Complete(database, version + 1)
      /\ version + 1 \notin Repeatable
  BY StatementOutcome DEF UpgradeInv, RunInv
<1>3. server' \in Servers /\ server'.pc = "failed"
  BY DEF UpgradeInv, TypeOK, Servers
<1>4. Unnoted'
  BY <1>1, <1>2 DEF Unnoted
<1>5. TypeOK'
  <2>1. ~({"maintable", "public.maintable"} \subseteq schema)
    BY <1>1, <1>2, TypeOfDatabase, CompleteTyped DEF UpgradeInv, Newest
  <2> QED
    BY <1>3, <2>1 DEF UpgradeInv, TypeOK
<1> QED
  BY <1>3, <1>4, <1>5
     DEF UpgradeInv, NeverHalfMigrated, FailsOnlyUnnoted, RunInv, RestInv

(* What is committed is the whole migration.                               *)
LEMMA CommitStep ==
    ASSUME UpgradeInv, Commit
    PROVE  UpgradeInv'
<1> USE DEF Commit
<1>1. /\ database \in Types /\ version \in Nat /\ version \in 0..(Newest - 1)
      /\ version + 1 \in 1..Newest /\ version < Newest
  BY TypeOfDatabase DEF UpgradeInv, RunInv, TypeOK, Newest
<1>2. Len(Statements) \in Nat /\ server.next = Len(Statements) + 1
  BY <1>1, StatementsSound DEF UpgradeInv, RunInv, Statements
<1>3. work = Complete(database, version + 1)
  <2>1. work = Progress => work = Complete(database, version + 1)
    BY <1>1, <1>2, ProgressIsApplied, AppliedAll DEF Complete, Statements
  <2> QED
    BY <2>1 DEF UpgradeInv, RunInv
<1>4. server' \in Servers /\ server'.pc = "note"
  BY DEF UpgradeInv, TypeOK, Servers
<1>5. TypeOK'
  BY <1>4 DEF UpgradeInv, TypeOK
<1> QED
  BY <1>1, <1>3, <1>4, <1>5
     DEF UpgradeInv, NeverHalfMigrated, FailsOnlyUnnoted, RunInv, RestInv

(* With the note, the schema is that of the version noted.                 *)
LEMMA NoteStep ==
    ASSUME UpgradeInv, Note
    PROVE  UpgradeInv'
<1> USE DEF Note
<1>1. /\ database \in Types /\ version < Newest /\ version \in 0..Newest
      /\ schema = Complete(database, version') /\ work = schema
  BY TypeOfDatabase DEF UpgradeInv, RestInv, TypeOK
<1>2. version' \in 0..Newest /\ version' \in Nat
  BY <1>1 DEF Newest
<1>3. server' \in Servers
  BY DEF Servers
<1>4. TypeOK'
  BY <1>2, <1>3 DEF UpgradeInv, TypeOK
<1>5. RunInv'
  <2> SUFFICES ASSUME server'.pc = "run" PROVE RunInv'
    BY DEF RunInv
  <2>1. version' < Newest /\ version' + 1 \in 1..Newest /\ server'.next = 1
    BY <1>2 DEF Newest
  <2>2. server'.next \in 1..(Len(Statements') + 1)
    BY <1>1, <2>1, StatementsSound DEF Statements
  <2>3. Progress' = Complete(database, version')
    BY <1>1, <1>2, <2>1, CompleteTyped DEF Progress, Applied, Statements
  <2> QED
    BY <1>1, <2>1, <2>2, <2>3 DEF RunInv
<1> QED
  BY <1>1, <1>4, <1>5 DEF UpgradeInv, NeverHalfMigrated, FailsOnlyUnnoted, RestInv

(* Whenever it stops, nothing uncommitted is left.                         *)
LEMMA StopStep ==
    ASSUME UpgradeInv, Stop
    PROVE  UpgradeInv'
<1> USE DEF Stop
<1>1. server' \in Servers /\ server'.pc = "stopped"
  BY DEF Servers
<1>2. /\ schema \in {Complete(database, version), Complete(database, version + 1)}
      /\ database \in Types /\ version \in 0..Newest
  BY TypeOfDatabase DEF UpgradeInv, NeverHalfMigrated, TypeOK
<1>3. ~({"maintable", "public.maintable"} \subseteq schema)
  <2>1. CASE server.pc = "run" /\ version < Newest
    <3>1. version + 1 \in 0..Newest
      BY <1>2, <2>1 DEF Newest
    <3> QED
      BY <1>2, <3>1, CompleteTyped
  <2>2. CASE server.pc # "run"
    BY <2>2 DEF UpgradeInv, RestInv, TypeOK
  <2> QED
    BY <2>1, <2>2 DEF UpgradeInv, RunInv
<1>4. TypeOK'
  BY <1>1, <1>3, MigrationsAssumption DEF UpgradeInv, TypeOK
<1> QED
  BY <1>1, <1>4
     DEF UpgradeInv, NeverHalfMigrated, FailsOnlyUnnoted, RunInv, RestInv

LEMMA UpgradeStutters ==
    ASSUME UpgradeInv, UNCHANGED vars
    PROVE  UpgradeInv'
  BY DEF vars, UpgradeInv, TypeOK, NeverHalfMigrated, FailsOnlyUnnoted, Unnoted,
         RunInv, RestInv, Progress, Statements

-----------------------------------------------------------------------------
(* The theorems                                                            *)

(* An upgrade is always at a point from which it goes on as if never       *)
(* interrupted, or fails at a migration committed and not noted            *)
(* (migrations.py:20-37, 46-223).                                          *)
THEOREM UpgradeInvariant == Spec => []UpgradeInv
<1>1. UpgradeInv /\ [Next]_vars => UpgradeInv'
  BY StartStep, ExecuteStep, RejectStep, CommitStep, NoteStep, StopStep,
     UpgradeStutters DEF Next
<1> QED
  BY <1>1, UpgradeInit, PTL DEF Spec

(* The types of the variables; no running migration sees the table of      *)
(* allowances in two schemas (migrations.py:59-73).                        *)
THEOREM TypeCorrect == Spec => []TypeOK
<1>1. UpgradeInv => TypeOK
  BY DEF UpgradeInv
<1> QED
  BY <1>1, UpgradeInvariant, PTL

(* Wherever the server stops, the database has all of the migrations       *)
(* noted, and all or nothing of the next (migrations.py:20-37, 162-223).   *)
THEOREM NeverHalf == Spec => []NeverHalfMigrated
<1>1. UpgradeInv => NeverHalfMigrated
  BY DEF UpgradeInv
<1> QED
  BY <1>1, UpgradeInvariant, PTL

(* A migration fails only if the server had stopped between its commit and *)
(* the note of it, and it creates without IF NOT EXISTS                    *)
(* (migrations.py:46-223).                                                 *)
THEOREM FailsOnly == Spec => []FailsOnlyUnnoted
<1>1. UpgradeInv => FailsOnlyUnnoted
  BY DEF UpgradeInv
<1> QED
  BY <1>1, UpgradeInvariant, PTL
=============================================================================
