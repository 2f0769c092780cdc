---------------------------- MODULE Transactions ----------------------------
(***************************************************************************)
(* The transactions of crud.py that consist of several statements, on one  *)
(* database that several server processes may share: create_allowance      *)
(* against the limit of its wallet, delete_allowance, and the writers of   *)
(* payment_history and payment_logs.                                       *)
(*                                                                         *)
(* A step is one statement; the last one of a transaction includes its     *)
(* commit.  What a transaction wrote is unseen by others until then.       *)
(*   PostgreSQL (READ COMMITTED): a statement sees what is committed when  *)
(*     it runs and waits for rows that another transaction has written.    *)
(*   SQLite: one writer at a time; every transaction here starts with a    *)
(*     write.                                                              *)
(* The wallet has one allowance whose records are followed, and others     *)
(* that are only counted.                                                  *)
(***************************************************************************)
EXTENDS Naturals

CONSTANTS
    Sessions,     \* database connections
    Databases,    \* the kinds of database to consider
    Limit,        \* 100: allowances a wallet may have (crud.py:60)
    LogCap,       \* 200: log entries kept for an allowance (crud.py:499)
    Occurrences,  \* due times of the followed allowance
    MaxOthers,    \* bound: other allowances of the wallet at first
    None

ASSUME TransactionsAssumption ==
    /\ Databases \subseteq {"sqlite", "postgres"}
    /\ Limit \in Nat /\ LogCap \in Nat \ {0} /\ MaxOthers \in Nat
    /\ None \notin Occurrences

VARIABLES
    database,  \* which kind it is
    row,       \* the followed allowance is in maintable
    others,    \* how many other allowances of the wallet are
    history,   \* occurrences of it in payment_history
    logs,      \* how many entries it has in payment_logs
    session    \* per connection: its transaction

vars == <<database, row, others, history, logs, session>>

(* A transaction about to run statement pc, for occurrence o, that deleted  *)
(* history d.                                                              *)
Begun(pc, o, d) ==
    [pc |-> pc, answer |-> "none", occurrence |-> o, doomed |-> d, doomedLogs |-> 0]

Rest == Begun("idle", None, {})

(* pc names the next statement; doomed and doomedLogs are what it deleted,  *)
(* occurrence what it records.                                             *)
Transaction ==
    [pc : {"idle", "count", "insert", "logs", "row", "history", "log"},
     answer : {"none", "created", "refused"}, occurrence : Occurrences \cup {None},
     doomed : SUBSET Occurrences, doomedLogs : 0..LogCap]

TypeOK ==
    /\ database \in Databases
    /\ row \in BOOLEAN
    /\ others \in Nat
    /\ history \in SUBSET Occurrences
    /\ logs \in 0..LogCap
    /\ session \in [Sessions -> Transaction]

(* Rows of a wallet from before the limit may exceed it.                   *)
Init ==
    /\ database \in Databases
    /\ row = TRUE
    /\ others \in 0..MaxOthers
    /\ history \in SUBSET Occurrences
    /\ logs \in 0..LogCap
    /\ session = [s \in Sessions |-> Rest]

-----------------------------------------------------------------------------
(* Locks                                                                   *)

At(s, pc) == session[s].pc = pc
Active(s) == ~At(s, "idle")
Others(s) == Sessions \ {s}

Ends(s, answer) == session' = [session EXCEPT ![s] = [Rest EXCEPT !.answer = answer]]
GoesTo(s, pc) == session' = [session EXCEPT ![s].pc = pc]

(* transaction(): BEGIN with the first statement.                          *)
MayBegin(s) ==
    /\ At(s, "idle")
    /\ database = "sqlite" => \A r \in Others(s) : ~Active(r)

(* The wallet's row in wallet_limits, the row in maintable, rows of the    *)
(* other tables that another transaction has written.                      *)
Creating(s) == session[s].pc \in {"count", "insert"}
WalletLocked(s) == \E r \in Others(s) : Creating(r)
RowLocked(s) == \E r \in Others(s) : session[r].pc \in {"history", "log"}
LogsLocked(s) == \E r \in Others(s) : session[r].doomedLogs > 0
HistoryLocked(s, o) ==
    \E r \in Others(s) :
        \/ o \in session[r].doomed
        \/ At(r, "log") /\ session[r].occurrence = o

-----------------------------------------------------------------------------
(* create_allowance                                                        *)

Rows == others + (IF row THEN 1 ELSE 0)

(* Variant: one more than the limit.                                       *)
FullBeyond == Rows > Limit

Full == Rows >= Limit

(* Variant: ON CONFLICT DO NOTHING, which does not lock an existing row.   *)
LockWalletIgnored(s) ==
    /\ MayBegin(s)
    /\ session' = [session EXCEPT ![s] = Begun("count", None, {})]
    /\ UNCHANGED <<database, row, others, history, logs>>

(* The upsert into wallet_limits takes the row's lock until the end.       *)
LockWallet(s) ==
    /\ MayBegin(s)
    /\ ~WalletLocked(s)
    /\ session' = [session EXCEPT ![s] = Begun("count", None, {})]
    /\ UNCHANGED <<database, row, others, history, logs>>

(* AllowanceLimitError rolls back.                                         *)
Refuse(s) ==
    /\ At(s, "count") /\ Full
    /\ Ends(s, "refused")
    /\ UNCHANGED <<database, row, others, history, logs>>

Admit(s) ==
    /\ At(s, "count") /\ ~Full
    /\ GoesTo(s, "insert")
    /\ UNCHANGED <<database, row, others, history, logs>>

Insert(s) ==
    /\ At(s, "insert")
    /\ others' = others + 1
    /\ Ends(s, "created")
    /\ UNCHANGED <<database, row, history, logs>>

-----------------------------------------------------------------------------
(* delete_allowance                                                        *)

DeleteHistory(s) ==
    /\ MayBegin(s)
    /\ \A o \in history : ~HistoryLocked(s, o)
    /\ session' = [session EXCEPT ![s] = Begun("logs", None, history)]
    /\ UNCHANGED <<database, row, others, history, logs>>

DeleteLogs(s) ==
    /\ At(s, "logs")
    /\ ~LogsLocked(s)
    /\ session' = [session EXCEPT ![s].pc = "row", ![s].doomedLogs = logs]
    /\ UNCHANGED <<database, row, others, history, logs>>

(* Variant: the logs, a later addition, are forgotten.                     *)
DeleteRowKeepingLogs(s) ==
    /\ At(s, "row")
    /\ ~RowLocked(s)
    /\ row' = FALSE
    /\ history' = history \ session[s].doomed
    /\ Ends(s, "none")
    /\ UNCHANGED <<database, others, logs>>

DeleteRow(s) ==
    /\ At(s, "row")
    /\ ~RowLocked(s)
    /\ row' = FALSE
    /\ history' = history \ session[s].doomed
    /\ logs' = logs - session[s].doomedLogs
    /\ Ends(s, "none")
    /\ UNCHANGED <<database, others>>

(* Another allowance of the wallet is deleted: the same transaction, seen  *)
(* from its commit.                                                        *)
DeleteOther ==
    /\ others > 0
    /\ database = "sqlite" => \A s \in Sessions : ~Active(s)
    /\ others' = others - 1
    /\ UNCHANGED <<database, row, history, logs, session>>

-----------------------------------------------------------------------------
(* finish_payment_attempt (an occurrence), and update_allowance_error,      *)
(* defer_payment and request_retry (None), which only append to the log.   *)

(* Variant: recorded whether or not the UPDATE found the row.              *)
UpdateRowUnchecked(s, o) ==
    /\ MayBegin(s)
    /\ ~RowLocked(s)
    /\ session' = [session EXCEPT ![s] =
         Begun(IF o = None THEN "log" ELSE "history", o, {})]
    /\ UNCHANGED <<database, row, others, history, logs>>

(* A row that is gone ends the transaction without a trace.                *)
UpdateRow(s, o) ==
    /\ MayBegin(s)
    /\ row /\ ~RowLocked(s)
    /\ session' = [session EXCEPT ![s] =
         Begun(IF o = None THEN "log" ELSE "history", o, {})]
    /\ UNCHANGED <<database, row, others, history, logs>>

UpsertHistory(s) ==
    /\ At(s, "history")
    /\ ~HistoryLocked(s, session[s].occurrence)
    /\ GoesTo(s, "log")
    /\ UNCHANGED <<database, row, others, history, logs>>

(* Variant: old entries are never removed.                                 *)
AppendLogUnpruned(s) ==
    /\ At(s, "log")
    /\ history' = history \cup ({session[s].occurrence} \ {None})
    /\ logs' = logs + 1
    /\ Ends(s, "none")
    /\ UNCHANGED <<database, row, others>>

(* _append_payment_log: the insertion, the removal of the oldest entry when *)
(* there are too many, and the commit.                                     *)
AppendLog(s) ==
    /\ At(s, "log")
    /\ \/ logs < LogCap /\ logs' = logs + 1
       \/ logs = LogCap /\ ~LogsLocked(s) /\ UNCHANGED logs
    /\ history' = history \cup ({session[s].occurrence} \ {None})
    /\ Ends(s, "none")
    /\ UNCHANGED <<database, row, others>>

-----------------------------------------------------------------------------
(* An exception, a cancelled task, a lost connection, a crashed server, or  *)
(* the database that resolves a deadlock.                                  *)
Rollback(s) ==
    /\ Active(s)
    /\ Ends(s, "none")
    /\ UNCHANGED <<database, row, others, history, logs>>

Next ==
    \/ \E s \in Sessions :
        \/ LockWallet(s) \/ Refuse(s) \/ Admit(s) \/ Insert(s)
        \/ DeleteHistory(s) \/ DeleteLogs(s) \/ DeleteRow(s)
        \/ \E o \in Occurrences \cup {None} : UpdateRow(s, o)
        \/ UpsertHistory(s) \/ AppendLog(s)
        \/ Rollback(s)
    \/ DeleteOther

Spec == Init /\ [][Next]_vars

-----------------------------------------------------------------------------
(* Properties                                                              *)

(* However many requests race, also from several server processes, no       *)
(* creation takes the wallet above its limit; a wallet that had more rows   *)
(* keeps them (README.md:81 "New creation is limited to 100 allowances per *)
(* wallet; existing records are retained"; crud.py:109-122).               *)
CreatesWithinLimit == Rows' > Rows => Rows' <= Limit

CreationWithinLimit == [][CreatesWithinLimit]_vars

(* Why, and why the properties below hold: the inductive invariant of       *)
(* TransactionsProofs.  One session at most is between the wallet's lock    *)
(* and its insertion, and what it counted still holds when it inserts; a   *)
(* session that records still has its row; of those that delete, one has   *)
(* the logs, which all still exist (crud.py:108-141, 227-241, 419-501).    *)
OneCreator == \A r, s \in Sessions : Creating(r) /\ Creating(s) => r = s

RoomToInsert == \A s \in Sessions : At(s, "insert") => Rows < Limit

RecorderHasRow == \A s \in Sessions : session[s].pc \in {"history", "log"} => row

DoomedLogsExist ==
    \A s \in Sessions :
        session[s].doomedLogs > 0 => At(s, "row") /\ session[s].doomedLogs <= logs

OneDoomsLogs ==
    \A r, s \in Sessions :
        session[r].doomedLogs > 0 /\ session[s].doomedLogs > 0 => r = s

AnsweredAtEnd == \A s \in Sessions : Active(s) => session[s].answer = "none"

LocksInv ==
    /\ TypeOK
    /\ OneCreator
    /\ RoomToInsert
    /\ RecorderHasRow
    /\ DoomedLogsExist
    /\ OneDoomsLogs
    /\ AnsweredAtEnd

(* The three statements of a creation are to users as one: granted if there *)
(* is room at some instant of the request, refused if there is none then    *)
(* (crud.py:108-141).                                                      *)
Promise == INSTANCE WalletLimit WITH
    rows <- Rows, answer <- [s \in Sessions |-> session[s].answer]

CreationAtomic == Promise!Spec

(* Once an allowance is deleted, nothing more is recorded for it, whatever  *)
(* was in flight: every record is written under the lock of the row         *)
(* (crud.py:419-466, 313-335).                                             *)
RecordsOnlyForRow ==
    ~row => history' \subseteq history /\ logs' <= logs

NoRecordAfterDeletion == [][RecordsOnlyForRow]_vars

(* Deletion takes the history and the logs with it (README.md:209-210       *)
(* "Deleting an allowance also deletes its extension history",             *)
(* README.md:221 "Deleting the allowance removes its logs"; crud.py:227)   *)
(* on SQLite, where transactions do not overlap.  On PostgreSQL a second   *)
(* process may record between the deletion of the history and of the row.  *)
SerialDeletionComplete == database = "sqlite" /\ ~row => history = {} /\ logs = 0
(* Why: a writer is alone on SQLite, so what it has deleted is all there    *)
(* is until it commits.                                                    *)
SerialInv ==
    database = "sqlite" =>
        /\ \A r, s \in Sessions : Active(r) /\ Active(s) => r = s
        /\ \A s \in Sessions :
             /\ session[s].pc \in {"logs", "row"} => history \subseteq session[s].doomed
             /\ At(s, "row") => session[s].doomedLogs = logs
        /\ ~row => history = {} /\ logs = 0
=============================================================================
