------------------------- MODULE TransactionsProofs -------------------------
(***************************************************************************)
(* Proofs about Transactions, for any number of sessions, any limits and   *)
(* any set of occurrences: LocksInv is inductive; from it follow that no   *)
(* creation exceeds the limit, that a creation is atomic to its user, and  *)
(* that nothing is recorded for an allowance that is gone.                 *)
(***************************************************************************)
EXTENDS Transactions, TLAPS

(* A transaction that begins is one of Transaction.                        *)
LEMMA BegunTyped ==
    ASSUME NEW pc \in {"idle", "count", "logs", "history", "log"},
           NEW o \in Occurrences \cup {None}, NEW d \in SUBSET Occurrences
    PROVE  /\ Begun(pc, o, d) \in Transaction
           /\ Begun(pc, o, d).pc = pc
           /\ Begun(pc, o, d).answer = "none"
           /\ Begun(pc, o, d).doomedLogs = 0
BY TransactionsAssumption DEF Begun, Transaction

(* Nor does one that ended hold anything.                                  *)
LEMMA EndedTyped ==
    ASSUME NEW a \in {"none", "created", "refused"}
    PROVE  /\ [Rest EXCEPT !.answer = a] \in Transaction
           /\ [Rest EXCEPT !.answer = a].pc = "idle"
           /\ [Rest EXCEPT !.answer = a].answer = a
           /\ [Rest EXCEPT !.answer = a].doomedLogs = 0
BY TransactionsAssumption DEF Rest, Begun, Transaction

(* The step of s to the transaction t, the tables left alone; and what t    *)
(* may hold if the invariant is to be kept.                                *)
Takes(s, t) ==
    /\ session' = [session EXCEPT ![s] = t]
    /\ UNCHANGED <<database, row, others, history, logs>>

MayHold(s, t) ==
    /\ t \in Transaction
    /\ t.pc \in {"count", "insert"} => ~WalletLocked(s)
    /\ t.pc = "insert" => Rows < Limit
    /\ t.pc \in {"history", "log"} => row
    /\ t.doomedLogs > 0 => ~LogsLocked(s) /\ t.pc = "row" /\ t.doomedLogs <= logs
    /\ t.pc # "idle" => t.answer = "none"

LEMMA SessionStep ==
    ASSUME LocksInv, NEW s \in Sessions, NEW t, Takes(s, t), MayHold(s, t)
    PROVE  LocksInv'
<1>. USE DEF LocksInv, TypeOK, Takes, MayHold
<1>0. /\ session'[s] = t
      /\ \A r \in Sessions \ {s} : session'[r] = session[r]
      /\ session' \in [Sessions -> Transaction]
  OBVIOUS
<1>1. TypeOK'
  BY <1>0
<1>2. OneCreator'
  BY <1>0 DEF OneCreator, Creating, WalletLocked, Others
<1>3. RoomToInsert'
  BY <1>0 DEF RoomToInsert, At, Rows
<1>4. RecorderHasRow'
  BY <1>0 DEF RecorderHasRow
<1>5. DoomedLogsExist'
  BY <1>0 DEF DoomedLogsExist, At
<1>6. OneDoomsLogs'
  BY <1>0 DEF OneDoomsLogs, LogsLocked, Others
<1>7. AnsweredAtEnd'
  BY <1>0 DEF AnsweredAtEnd, Active, At
<1>. QED
  BY <1>1, <1>2, <1>3, <1>4, <1>5, <1>6, <1>7

(* The initial states satisfy the invariant.                               *)
LEMMA InitLocks == Init => LocksInv
<1>. SUFFICES ASSUME Init PROVE LocksInv
  OBVIOUS
<1>1. Rest \in Transaction
  BY BegunTyped DEF Rest
<1>2. TypeOK
  BY <1>1, TransactionsAssumption DEF Init, TypeOK
<1>3. \A s \in Sessions :
        session[s].pc = "idle" /\ session[s].doomedLogs = 0
  BY DEF Init, Rest, Begun
<1>. QED
  BY <1>2, <1>3 DEF LocksInv, OneCreator, RoomToInsert, RecorderHasRow,
       DoomedLogsExist, OneDoomsLogs, AnsweredAtEnd, Creating, At, Active

(* A transaction that begins, pauses or rolls back: SessionStep applies.   *)
LEMMA QuietSteps ==
    ASSUME LocksInv, NEW s \in Sessions,
           \/ LockWallet(s) \/ Refuse(s) \/ Admit(s)
           \/ DeleteHistory(s) \/ DeleteLogs(s)
           \/ \E o \in Occurrences \cup {None} : UpdateRow(s, o)
           \/ UpsertHistory(s) \/ Rollback(s)
    PROVE  LocksInv'
<1>0. /\ session \in [Sessions -> Transaction] /\ session[s] \in Transaction
      /\ logs \in 0..LogCap /\ history \in SUBSET Occurrences
      /\ LogCap \in Nat /\ Rows \in Nat /\ Limit \in Nat
  BY TransactionsAssumption DEF LocksInv, TypeOK, Rows
<1>1. CASE LockWallet(s)
  <2>. DEFINE t == Begun("count", None, {})
  <2>1. t \in Transaction /\ t.pc = "count" /\ t.answer = "none" /\ t.doomedLogs = 0
    BY BegunTyped
  <2>2. Takes(s, t)
    BY <1>1 DEF Takes, LockWallet
  <2>. HIDE DEF t
  <2>3. MayHold(s, t)
    BY <1>1, <2>1 DEF MayHold, LockWallet
  <2>. QED
    BY <2>2, <2>3, SessionStep
<1>2. CASE Refuse(s)
  <2>. DEFINE t == [Rest EXCEPT !.answer = "refused"]
  <2>1. t \in Transaction /\ t.pc = "idle" /\ t.answer = "refused" /\ t.doomedLogs = 0
    BY EndedTyped
  <2>2. Takes(s, t)
    BY <1>2 DEF Takes, Refuse, Ends
  <2>. HIDE DEF t
  <2>3. MayHold(s, t)
    BY <1>2, <2>1 DEF MayHold, Refuse
  <2>. QED
    BY <2>2, <2>3, SessionStep
<1>3. CASE Admit(s)
  <2>. DEFINE t == [session[s] EXCEPT !.pc = "insert"]
  <2>1. t \in Transaction /\ t.pc = "insert" /\ t.doomedLogs = session[s].doomedLogs
        /\ t.answer = session[s].answer
    BY <1>0 DEF Transaction
  <2>2. Takes(s, t)
    BY <1>0, <1>3 DEF Takes, Admit, GoesTo
  <2>. HIDE DEF t
  <2>3. ~WalletLocked(s) /\ t.doomedLogs = 0 /\ t.answer = "none"
    BY <1>0, <1>3, <2>1
    DEF Admit, At, Active, WalletLocked, Others, Creating, Transaction, LocksInv,
        OneCreator, DoomedLogsExist, AnsweredAtEnd
  <2>4. MayHold(s, t)
    BY <1>0, <1>3, <2>1, <2>3 DEF MayHold, Admit, Full
  <2>. QED
    BY <2>2, <2>4, SessionStep
<1>4. CASE DeleteHistory(s)
  <2>. DEFINE t == Begun("logs", None, history)
  <2>1. t \in Transaction /\ t.pc = "logs" /\ t.answer = "none" /\ t.doomedLogs = 0
    BY <1>0, BegunTyped
  <2>2. Takes(s, t)
    BY <1>4 DEF Takes, DeleteHistory
  <2>. HIDE DEF t
  <2>3. MayHold(s, t)
    BY <1>4, <2>1 DEF MayHold, DeleteHistory
  <2>. QED
    BY <2>2, <2>3, SessionStep
<1>5. CASE DeleteLogs(s)
  <2>. DEFINE t == [session[s] EXCEPT !.pc = "row", !.doomedLogs = logs]
  <2>1. t \in Transaction /\ t.pc = "row" /\ t.doomedLogs = logs
        /\ t.answer = session[s].answer
    BY <1>0 DEF Transaction
  <2>2. Takes(s, t)
    BY <1>0, <1>5 DEF Takes, DeleteLogs
  <2>. HIDE DEF t
  <2>3. t.answer = "none" /\ ~LogsLocked(s)
    BY <1>5, <2>1 DEF DeleteLogs, At, Active, LocksInv, AnsweredAtEnd
  <2>4. MayHold(s, t)
    BY <1>0, <1>5, <2>1, <2>3 DEF MayHold, DeleteLogs
  <2>. QED
    BY <2>2, <2>4, SessionStep
<1>6. CASE \E o \in Occurrences \cup {None} : UpdateRow(s, o)
  <2>1. PICK o \in Occurrences \cup {None} : UpdateRow(s, o)
    BY <1>6
  <2>. DEFINE pc == IF o = None THEN "log" ELSE "history"
              t == Begun(pc, o, {})
  <2>2. pc \in {"history", "log"}
    OBVIOUS
  <2>3. Takes(s, t)
    BY <2>1 DEF Takes, UpdateRow
  <2>. HIDE DEF pc
  <2>4. t \in Transaction /\ t.pc = pc /\ t.answer = "none" /\ t.doomedLogs = 0
    BY <2>2, BegunTyped
  <2>. HIDE DEF t
  <2>5. MayHold(s, t)
    BY <2>1, <2>2, <2>4 DEF MayHold, UpdateRow
  <2>. QED
    BY <2>3, <2>5, SessionStep
<1>7. CASE UpsertHistory(s)
  <2>. DEFINE t == [session[s] EXCEPT !.pc = "log"]
  <2>1. t \in Transaction /\ t.pc = "log" /\ t.doomedLogs = session[s].doomedLogs
        /\ t.answer = session[s].answer
    BY <1>0 DEF Transaction
  <2>2. Takes(s, t)
    BY <1>0, <1>7 DEF Takes, UpsertHistory, GoesTo
  <2>. HIDE DEF t
  <2>3. row /\ t.doomedLogs = 0 /\ t.answer = "none"
    BY <1>0, <1>7, <2>1
    DEF UpsertHistory, At, Active, Transaction, LocksInv, RecorderHasRow,
        DoomedLogsExist, AnsweredAtEnd
  <2>4. MayHold(s, t)
    BY <1>0, <1>7, <2>1, <2>3 DEF MayHold, UpsertHistory
  <2>. QED
    BY <2>2, <2>4, SessionStep
<1>8. CASE Rollback(s)
  <2>. DEFINE t == [Rest EXCEPT !.answer = "none"]
  <2>1. t \in Transaction /\ t.pc = "idle" /\ t.answer = "none" /\ t.doomedLogs = 0
    BY EndedTyped
  <2>2. Takes(s, t)
    BY <1>8 DEF Takes, Rollback, Ends
  <2>. HIDE DEF t
  <2>3. MayHold(s, t)
    BY <1>8, <2>1 DEF MayHold, Rollback
  <2>. QED
    BY <2>2, <2>3, SessionStep
<1>. QED
  BY <1>1, <1>2, <1>3, <1>4, <1>5, <1>6, <1>7, <1>8

(* When s ends, all it held is free, and the others are as they were.      *)
LEMMA Ended ==
    ASSUME LocksInv, NEW s \in Sessions, NEW a \in {"none", "created", "refused"},
           Ends(s, a)
    PROVE  /\ session' \in [Sessions -> Transaction]
           /\ session'[s].pc = "idle" /\ session'[s].doomedLogs = 0
           /\ \A r \in Sessions \ {s} : session'[r] = session[r]
<1>. DEFINE t == [Rest EXCEPT !.answer = a]
<1>1. session' = [session EXCEPT ![s] = t]
  BY DEF Ends
<1>2. t \in Transaction /\ t.pc = "idle" /\ t.doomedLogs = 0
  BY EndedTyped
<1>. HIDE DEF t
<1>. QED
  BY <1>1, <1>2 DEF LocksInv, TypeOK

LEMMA InsertStep ==
    ASSUME LocksInv, NEW s \in Sessions, Insert(s)
    PROVE  LocksInv'
<1>. USE DEF LocksInv, TypeOK
<1>0. /\ session' \in [Sessions -> Transaction]
      /\ session'[s].pc = "idle" /\ session'[s].doomedLogs = 0
      /\ \A r \in Sessions \ {s} : session'[r] = session[r]
      /\ others' = others + 1
      /\ UNCHANGED <<database, row, history, logs>>
  BY Ended DEF Insert
<1>1. TypeOK'
  BY <1>0
<1>2. OneCreator'
  BY <1>0 DEF OneCreator, Creating
<1>3. \A r \in Sessions \ {s} : session[r].pc # "insert"
  BY DEF Insert, At, OneCreator, Creating
<1>4. RoomToInsert'
  BY <1>0, <1>3 DEF RoomToInsert, At
<1>5. RecorderHasRow' /\ DoomedLogsExist' /\ OneDoomsLogs' /\ AnsweredAtEnd'
  BY <1>0 DEF RecorderHasRow, DoomedLogsExist, OneDoomsLogs, AnsweredAtEnd, Active, At
<1>. QED
  BY <1>1, <1>2, <1>4, <1>5

(* No one records when the row goes; no one else has the logs it takes.    *)
LEMMA DeleteRowStep ==
    ASSUME LocksInv, NEW s \in Sessions, DeleteRow(s)
    PROVE  LocksInv'
<1>. USE DEF LocksInv, TypeOK
<1>0. /\ session' \in [Sessions -> Transaction]
      /\ session'[s].pc = "idle" /\ session'[s].doomedLogs = 0
      /\ \A r \in Sessions \ {s} : session'[r] = session[r]
      /\ row' = FALSE
      /\ history' = history \ session[s].doomed
      /\ logs' = logs - session[s].doomedLogs
      /\ UNCHANGED <<database, others>>
  BY Ended DEF DeleteRow
<1>1. session[s].doomedLogs \in Nat /\ session[s].doomedLogs <= logs
  BY TransactionsAssumption DEF Transaction, DoomedLogsExist
<1>2. TypeOK'
  <2>1. history' \in SUBSET Occurrences
    BY <1>0
  <2>2. logs' \in 0..LogCap
    BY <1>0, <1>1, TransactionsAssumption
  <2>. QED
    BY <1>0, <2>1, <2>2
<1>3. OneCreator'
  BY <1>0 DEF OneCreator, Creating
<1>4. RoomToInsert'
  BY <1>0, TransactionsAssumption DEF RoomToInsert, At, Rows
<1>5. RecorderHasRow'
  BY <1>0 DEF RecorderHasRow, DeleteRow, RowLocked, At, Others
<1>6. DoomedLogsExist'
  <2>. SUFFICES ASSUME NEW r \in Sessions, session'[r].doomedLogs > 0
                PROVE  session'[r].pc = "row" /\ session'[r].doomedLogs <= logs'
    BY DEF DoomedLogsExist, At
  <2>1. r # s /\ session[r].doomedLogs > 0 /\ session'[r] = session[r]
    BY <1>0
  <2>2. ~(session[s].doomedLogs > 0)
    BY <2>1 DEF OneDoomsLogs
  <2>. QED
    BY <1>0, <1>1, <2>1, <2>2, TransactionsAssumption DEF DoomedLogsExist, At
<1>7. OneDoomsLogs' /\ AnsweredAtEnd'
  BY <1>0 DEF OneDoomsLogs, AnsweredAtEnd, Active, At
<1>. QED
  BY <1>2, <1>3, <1>4, <1>5, <1>6, <1>7

LEMMA AppendLogStep ==
    ASSUME LocksInv, NEW s \in Sessions, AppendLog(s)
    PROVE  LocksInv'
<1>. USE DEF LocksInv, TypeOK
<1>0. /\ session' \in [Sessions -> Transaction]
      /\ session'[s].pc = "idle" /\ session'[s].doomedLogs = 0
      /\ \A r \in Sessions \ {s} : session'[r] = session[r]
      /\ history' = history \cup ({session[s].occurrence} \ {None})
      /\ (logs' = logs + 1 /\ logs < LogCap) \/ logs' = logs
      /\ UNCHANGED <<database, row, others>>
  BY Ended DEF AppendLog
<1>1. TypeOK'
  BY <1>0, TransactionsAssumption DEF Transaction
<1>2. OneCreator' /\ RoomToInsert' /\ RecorderHasRow'
  BY <1>0 DEF OneCreator, Creating, RoomToInsert, At, Rows, RecorderHasRow
<1>3. DoomedLogsExist'
  BY <1>0, TransactionsAssumption DEF DoomedLogsExist, At, Transaction
<1>4. OneDoomsLogs' /\ AnsweredAtEnd'
  BY <1>0 DEF OneDoomsLogs, AnsweredAtEnd, Active, At
<1>. QED
  BY <1>1, <1>2, <1>3, <1>4

LEMMA DeleteOtherStep ==
    ASSUME LocksInv, DeleteOther
    PROVE  LocksInv'
<1>. USE DEF LocksInv, TypeOK, DeleteOther
<1>1. TypeOK'
  OBVIOUS
<1>2. RoomToInsert'
  BY TransactionsAssumption DEF RoomToInsert, At, Rows
<1>. QED
  BY <1>1, <1>2 DEF OneCreator, Creating, RecorderHasRow, DoomedLogsExist,
       OneDoomsLogs, AnsweredAtEnd, Active, At

LEMMA NextLocks == LocksInv /\ [Next]_vars => LocksInv'
<1>. SUFFICES ASSUME LocksInv, [Next]_vars PROVE LocksInv'
  OBVIOUS
<1>1. CASE UNCHANGED vars
  BY <1>1 DEF vars, LocksInv, TypeOK, OneCreator, Creating, RoomToInsert, Rows,
       RecorderHasRow, DoomedLogsExist, OneDoomsLogs, AnsweredAtEnd, Active, At
<1>2. ASSUME NEW s \in Sessions, Insert(s) PROVE LocksInv'
  BY <1>2, InsertStep
<1>3. ASSUME NEW s \in Sessions, DeleteRow(s) PROVE LocksInv'
  BY <1>3, DeleteRowStep
<1>4. ASSUME NEW s \in Sessions, AppendLog(s) PROVE LocksInv'
  BY <1>4, AppendLogStep
<1>5. CASE DeleteOther
  BY <1>5, DeleteOtherStep
<1>. QED
  BY <1>1, <1>2, <1>3, <1>4, <1>5, QuietSteps DEF Next

(* LocksInv holds in every reachable state: what each session holds of the  *)
(* wallet's limit, of the row and of the logs (crud.py:108-141, 227-241,   *)
(* 419-501).                                                               *)
THEOREM LocksInvariant == Spec => []LocksInv
BY InitLocks, NextLocks, PTL DEF Spec

(* However many requests of however many processes race, no creation takes  *)
(* a wallet above its limit (crud.py:109-122).                             *)
THEOREM LimitKept == Spec => CreationWithinLimit
<1>1. LocksInv /\ [Next]_vars => [CreatesWithinLimit]_vars
  <2>. SUFFICES ASSUME LocksInv, Next, Rows' > Rows PROVE Rows' <= Limit
    BY DEF CreatesWithinLimit
  <2>0. Rows \in Nat /\ Limit \in Nat /\ others \in Nat
    BY TransactionsAssumption DEF LocksInv, TypeOK, Rows
  <2>. DEFINE Quiet(s) ==
           \/ LockWallet(s) \/ Refuse(s) \/ Admit(s) \/ DeleteHistory(s) \/ DeleteLogs(s)
           \/ DeleteRow(s) \/ (\E o \in Occurrences \cup {None} : UpdateRow(s, o))
           \/ UpsertHistory(s) \/ AppendLog(s) \/ Rollback(s)
  <2>1. ASSUME NEW s \in Sessions, Quiet(s) PROVE FALSE
    <3>1. others' = others /\ (row' = row \/ row' = FALSE)
      BY <2>1 DEF LockWallet, Refuse, Admit, DeleteHistory, DeleteLogs, DeleteRow,
           UpdateRow, UpsertHistory, AppendLog, Rollback
    <3>. QED
      BY <2>0, <3>1 DEF Rows
  <2>2. ~DeleteOther
    BY <2>0 DEF DeleteOther, Rows
  <2>3. PICK s \in Sessions : Insert(s)
    BY <2>1, <2>2 DEF Next
  <2>4. Rows < Limit
    BY <2>3 DEF LocksInv, RoomToInsert, Insert
  <2>5. Rows' = Rows + 1
    BY <2>0, <2>3 DEF Insert, Rows
  <2>. QED
    BY <2>0, <2>4, <2>5
<1>. QED
  BY <1>1, LocksInvariant, PTL DEF Spec, CreationWithinLimit

(* Once an allowance is deleted, nothing more is recorded for it, whatever  *)
(* was in flight (crud.py:313-335, 419-466).                               *)
THEOREM NothingRecordedAfterDeletion == Spec => NoRecordAfterDeletion
<1>1. LocksInv /\ [Next]_vars => [RecordsOnlyForRow]_vars
  <2>. SUFFICES ASSUME LocksInv, Next, ~row
                PROVE  history' \subseteq history /\ logs' <= logs
    BY DEF RecordsOnlyForRow
  <2>0. logs \in Nat
    BY TransactionsAssumption DEF LocksInv, TypeOK
  <2>1. ASSUME NEW s \in Sessions, DeleteRow(s)
        PROVE  history' \subseteq history /\ logs' <= logs
    <3>1. session[s].doomedLogs \in Nat
      BY TransactionsAssumption DEF LocksInv, TypeOK, Transaction
    <3>. QED
      BY <2>0, <2>1, <3>1 DEF DeleteRow
  <2>2. \A s \in Sessions : ~AppendLog(s)
    BY DEF LocksInv, RecorderHasRow, AppendLog, At
  <2>3. ASSUME NEW s \in Sessions,
               \/ LockWallet(s) \/ Refuse(s) \/ Admit(s) \/ Insert(s)
               \/ DeleteHistory(s) \/ DeleteLogs(s)
               \/ \E o \in Occurrences \cup {None} : UpdateRow(s, o)
               \/ UpsertHistory(s) \/ Rollback(s)
        PROVE  history' = history /\ logs' = logs
    BY <2>3 DEF LockWallet, Refuse, Admit, Insert, DeleteHistory, DeleteLogs,
         UpdateRow, UpsertHistory, Rollback
  <2>4. CASE DeleteOther
    BY <2>0, <2>4 DEF DeleteOther
  <2>. QED
    BY <2>0, <2>1, <2>2, <2>3, <2>4 DEF Next
<1>. QED
  BY <1>1, LocksInvariant, PTL DEF Spec, NoRecordAfterDeletion

(* What WalletLimit sees of a step.                                        *)
Answer == [s \in Sessions |-> session[s].answer]

LEMMA AnswerOf ==
    ASSUME LocksInv, NEW s \in Sessions, NEW t, session' = [session EXCEPT ![s] = t]
    PROVE  Answer' = [Answer EXCEPT ![s] = t.answer]
BY DEF Answer, LocksInv, TypeOK

(* A step that leaves the number of rows alone and tells the user nothing   *)
(* is a stutter or a Forget.                                               *)
LEMMA QuietAnswer ==
    ASSUME LocksInv, NEW s \in Sessions, NEW t,
           session' = [session EXCEPT ![s] = t], UNCHANGED <<row, others>>,
           t.answer \in {session[s].answer, "none"}
    PROVE  [Promise!Next]_(Promise!vars)
<1>1. Rows' = Rows
  BY DEF Rows
<1>2. Answer' = [Answer EXCEPT ![s] = t.answer]
  BY AnswerOf
<1>3. CASE t.answer = session[s].answer
  <2>1. Answer' = Answer
    BY <1>2, <1>3 DEF Answer
  <2>. QED
    BY <1>1, <2>1 DEF Answer, Promise!vars
<1>4. CASE t.answer = "none"
  BY <1>1, <1>2, <1>4 DEF Answer, Promise!Next, Promise!Forget
<1>. QED
  BY <1>3, <1>4

(* Ends(s, a) answers a.                                                   *)
LEMMA EndAnswer ==
    ASSUME LocksInv, NEW s \in Sessions, NEW a \in {"none", "created", "refused"},
           Ends(s, a)
    PROVE  /\ Answer' = [Answer EXCEPT ![s] = a]
           /\ a = "none" /\ UNCHANGED <<row, others>> => [Promise!Next]_(Promise!vars)
<1>. DEFINE t == [Rest EXCEPT !.answer = a]
<1>1. session' = [session EXCEPT ![s] = t]
  BY DEF Ends
<1>2. t.answer = a
  BY EndedTyped
<1>. HIDE DEF t
<1>. QED
  BY <1>1, <1>2, AnswerOf, QuietAnswer

(* A transaction that begins tells its user nothing yet.                   *)
LEMMA BegunAnswer ==
    ASSUME LocksInv, NEW s \in Sessions, UNCHANGED <<row, others>>,
           NEW pc, NEW o, NEW d,
           session' = [session EXCEPT ![s] = Begun(pc, o, d)]
    PROVE  [Promise!Next]_(Promise!vars)
<1>. DEFINE t == Begun(pc, o, d)
<1>1. t.answer = "none" /\ session' = [session EXCEPT ![s] = t]
  BY DEF Begun
<1>. HIDE DEF t
<1>. QED
  BY <1>1, QuietAnswer

LEMMA StepKeepsPromise ==
    LocksInv /\ [Next]_vars => [Promise!Next]_(Promise!vars)
<1>. SUFFICES ASSUME LocksInv, [Next]_vars PROVE [Promise!Next]_(Promise!vars)
  OBVIOUS
<1>0. /\ Rows \in Nat /\ Limit \in Nat /\ others \in Nat /\ row \in BOOLEAN
      /\ history \in SUBSET Occurrences
      /\ session \in [Sessions -> Transaction]
  BY TransactionsAssumption DEF LocksInv, TypeOK, Rows
<1>1. CASE UNCHANGED vars
  BY <1>1 DEF vars, Promise!vars, Rows
<1>2. ASSUME NEW s \in Sessions, LockWallet(s) PROVE [Promise!Next]_(Promise!vars)
  BY <1>2, BegunAnswer DEF LockWallet
<1>3. ASSUME NEW s \in Sessions, Refuse(s) PROVE [Promise!Next]_(Promise!vars)
  <2>1. Answer' = [Answer EXCEPT ![s] = "refused"]
    BY <1>3, EndAnswer DEF Refuse
  <2>2. Rows >= Limit /\ Rows' = Rows
    BY <1>3 DEF Refuse, Full, Rows
  <2>. QED
    BY <2>1, <2>2 DEF Answer, Promise!Next, Promise!Refuse
<1>4. ASSUME NEW s \in Sessions, Insert(s) PROVE [Promise!Next]_(Promise!vars)
  <2>1. Answer' = [Answer EXCEPT ![s] = "created"]
    BY <1>4, EndAnswer DEF Insert
  <2>2. Rows < Limit /\ Rows' = Rows + 1
    BY <1>0, <1>4 DEF Insert, LocksInv, RoomToInsert, Rows
  <2>. QED
    BY <2>1, <2>2 DEF Answer, Promise!Next, Promise!Create
<1>5. ASSUME NEW s \in Sessions, DeleteHistory(s) PROVE [Promise!Next]_(Promise!vars)
  BY <1>0, <1>5, BegunAnswer DEF DeleteHistory
<1>6. ASSUME NEW s \in Sessions, NEW o \in Occurrences \cup {None}, UpdateRow(s, o)
      PROVE  [Promise!Next]_(Promise!vars)
  <2>. DEFINE pc == IF o = None THEN "log" ELSE "history"
  <2>1. /\ UNCHANGED <<row, others>>
        /\ session' = [session EXCEPT ![s] = Begun(pc, o, {})]
    BY <1>6 DEF UpdateRow
  <2>. HIDE DEF pc
  <2>. QED
    BY <2>1, BegunAnswer
<1>7. ASSUME NEW s \in Sessions, Admit(s) \/ DeleteLogs(s) \/ UpsertHistory(s)
      PROVE  [Promise!Next]_(Promise!vars)
  <2>1. /\ session'[s].answer = session[s].answer
        /\ session' = [session EXCEPT ![s] = session'[s]]
        /\ UNCHANGED <<row, others>>
    BY <1>0, <1>7 DEF Transaction, Admit, DeleteLogs, UpsertHistory, GoesTo
  <2>. QED
    BY <2>1, QuietAnswer
<1>8. ASSUME NEW s \in Sessions, AppendLog(s) \/ Rollback(s)
      PROVE  [Promise!Next]_(Promise!vars)
  BY <1>8, EndAnswer DEF AppendLog, Rollback
<1>9. ASSUME NEW s \in Sessions, DeleteRow(s) PROVE [Promise!Next]_(Promise!vars)
  <2>1. Answer' = [Answer EXCEPT ![s] = "none"] /\ (~row => [Promise!Next]_(Promise!vars))
    BY <1>0, <1>9, EndAnswer DEF DeleteRow
  <2>2. session[s].answer = "none"
    BY <1>9 DEF DeleteRow, At, Active, LocksInv, AnsweredAtEnd
  <2>3. Answer' = Answer
    BY <2>1, <2>2 DEF Answer
  <2>4. CASE row
    <3>1. Rows > 0 /\ Rows' = Rows - 1
      BY <1>0, <1>9, <2>4 DEF DeleteRow, Rows
    <3>. QED
      BY <2>3, <3>1 DEF Answer, Promise!Next, Promise!Delete
  <2>. QED
    BY <2>1, <2>4
<1>10. CASE DeleteOther
  <2>1. Rows > 0 /\ Rows' = Rows - 1 /\ Answer' = Answer
    BY <1>0, <1>10 DEF DeleteOther, Rows, Answer
  <2>. QED
    BY <2>1 DEF Answer, Promise!Next, Promise!Delete
<1>. QED
  BY <1>1, <1>2, <1>3, <1>4, <1>5, <1>6, <1>7, <1>8, <1>9, <1>10 DEF Next

(* The three statements of a creation are one step to its user: granted if  *)
(* there is room at some instant of the request, refused if there is none  *)
(* (crud.py:108-141).                                                      *)
THEOREM CreationIsAtomic == Spec => CreationAtomic
<1>1. Init => Promise!Init
  BY DEF Init, Promise!Init, Rows, Rest, Begun
<1>. QED
  BY <1>1, StepKeepsPromise, LocksInvariant, PTL DEF Spec, CreationAtomic, Promise!Spec
-----------------------------------------------------------------------------
(* Every transaction and the tables it works on are well formed.           *)
THEOREM TypeCorrect == Spec => []TypeOK
<1>1. LocksInv => TypeOK
  BY DEF LocksInv
<1>. QED
  BY <1>1, LocksInvariant, PTL

(* The session s goes from pc to t; the tables change as the caller says.  *)
LEMMA SerialSession ==
    ASSUME LocksInv, SerialInv, database = "sqlite", database' = database,
           NEW s \in Sessions, Active(s) \/ MayBegin(s),
           NEW t \in Transaction, session' = [session EXCEPT ![s] = t],
           t.pc \in {"logs", "row"} => history' \subseteq t.doomed,
           t.pc = "row" => t.doomedLogs = logs',
           ~row' => history' = {} /\ logs' = 0
    PROVE  SerialInv'
<1>1. /\ session'[s] = t
      /\ \A r \in Sessions \ {s} : session'[r] = session[r]
  BY DEF LocksInv, TypeOK
<1>2. \A r \in Sessions \ {s} : session[r].pc = "idle"
  BY DEF SerialInv, MayBegin, Active, At, Others
<1>3. \A r \in Sessions \ {s} : session'[r].pc = "idle"
  BY <1>1, <1>2
<1>. QED
  BY <1>1, <1>3 DEF SerialInv, Active, At

(* A database stays of its kind.                                           *)
LEMMA DatabaseStays == [Next]_vars => database' = database
<1>1. ASSUME NEW s \in Sessions,
             LockWallet(s) \/ Refuse(s) \/ Admit(s) \/ Insert(s)
      PROVE  database' = database
  BY <1>1 DEF LockWallet, Refuse, Admit, Insert
<1>2. ASSUME NEW s \in Sessions, DeleteHistory(s) \/ DeleteLogs(s) \/ DeleteRow(s)
      PROVE  database' = database
  BY <1>2 DEF DeleteHistory, DeleteLogs, DeleteRow
<1>3. ASSUME NEW s \in Sessions, NEW o \in Occurrences \cup {None}, UpdateRow(s, o)
      PROVE  database' = database
  BY <1>3 DEF UpdateRow
<1>4. ASSUME NEW s \in Sessions, UpsertHistory(s) \/ AppendLog(s) \/ Rollback(s)
      PROVE  database' = database
  BY <1>4 DEF UpsertHistory, AppendLog, Rollback
<1>5. DeleteOther \/ UNCHANGED vars => database' = database
  BY DEF DeleteOther, vars
<1>. QED
  BY <1>1, <1>2, <1>3, <1>4, <1>5 DEF Next

LEMMA SerialStep == LocksInv /\ SerialInv /\ [Next]_vars => SerialInv'
<1>. SUFFICES ASSUME LocksInv, SerialInv, [Next]_vars, database = "sqlite",
                     database' = database
              PROVE  SerialInv'
  BY DatabaseStays DEF SerialInv
<1>0. /\ session \in [Sessions -> Transaction] /\ history \in SUBSET Occurrences
      /\ logs \in 0..LogCap /\ LogCap \in Nat /\ row \in BOOLEAN
      /\ ~row => history = {} /\ logs = 0
      /\ \A s \in Sessions : session[s] \in Transaction
  BY TransactionsAssumption DEF LocksInv, TypeOK, SerialInv
<1>1. ASSUME NEW s \in Sessions, LockWallet(s) PROVE SerialInv'
  <2>. DEFINE t == Begun("count", None, {})
  <2>1. t \in Transaction /\ t.pc = "count"
    BY BegunTyped
  <2>2. /\ session' = [session EXCEPT ![s] = t] /\ MayBegin(s)
        /\ UNCHANGED <<database, row, history, logs>>
    BY <1>1 DEF LockWallet
  <2>. HIDE DEF t
  <2>. QED
    BY <1>0, <2>1, <2>2, SerialSession
<1>2. ASSUME NEW s \in Sessions, NEW o \in Occurrences \cup {None}, UpdateRow(s, o)
      PROVE  SerialInv'
  <2>. DEFINE pc == IF o = None THEN "log" ELSE "history"
              t == Begun(pc, o, {})
  <2>1. t \in Transaction /\ t.pc \in {"log", "history"}
    BY BegunTyped
  <2>2. /\ session' = [session EXCEPT ![s] = t] /\ MayBegin(s)
        /\ UNCHANGED <<database, row, history, logs>>
    BY <1>2 DEF UpdateRow
  <2>. HIDE DEF t
  <2>. QED
    BY <1>0, <2>1, <2>2, SerialSession
<1>3. ASSUME NEW s \in Sessions, DeleteHistory(s) PROVE SerialInv'
  <2>. DEFINE t == Begun("logs", None, history)
  <2>1. t \in Transaction /\ t.pc = "logs" /\ t.doomed = history
    BY <1>0, BegunTyped DEF Begun
  <2>2. /\ session' = [session EXCEPT ![s] = t] /\ MayBegin(s)
        /\ UNCHANGED <<database, row, history, logs>>
    BY <1>3 DEF DeleteHistory
  <2>. HIDE DEF t
  <2>. QED
    BY <1>0, <2>1, <2>2, SerialSession
<1>4. ASSUME NEW s \in Sessions, DeleteLogs(s) PROVE SerialInv'
  <2>. DEFINE t == [session[s] EXCEPT !.pc = "row", !.doomedLogs = logs]
  <2>1. /\ t \in Transaction /\ t.pc = "row" /\ t.doomedLogs = logs
        /\ t.doomed = session[s].doomed
    BY <1>0 DEF Transaction
  <2>2. /\ session' = [session EXCEPT ![s] = t] /\ session[s].pc = "logs"
        /\ UNCHANGED <<database, row, history, logs>>
    BY <1>0, <1>4 DEF DeleteLogs, At
  <2>. HIDE DEF t
  <2>3. history \subseteq t.doomed /\ Active(s)
    BY <2>1, <2>2 DEF SerialInv, Active, At
  <2>. QED
    BY <1>0, <2>1, <2>2, <2>3, SerialSession
<1>5. ASSUME NEW s \in Sessions, Admit(s) \/ UpsertHistory(s) PROVE SerialInv'
  <2>1. PICK pc \in {"insert", "log"} :
          /\ session' = [session EXCEPT ![s].pc = pc] /\ Active(s)
          /\ UNCHANGED <<database, row, history, logs>>
    BY <1>5 DEF Admit, UpsertHistory, GoesTo, Active, At
  <2>. DEFINE t == [session[s] EXCEPT !.pc = pc]
  <2>2. t \in Transaction /\ t.pc \in {"insert", "log"}
    BY <1>0 DEF Transaction
  <2>3. session' = [session EXCEPT ![s] = t]
    BY <1>0, <2>1
  <2>. HIDE DEF t
  <2>. QED
    BY <1>0, <2>1, <2>2, <2>3, SerialSession
<1>6. ASSUME NEW s \in Sessions, NEW a \in {"none", "created", "refused"}, Ends(s, a),
             Active(s), database' = database, ~row' => history' = {} /\ logs' = 0
      PROVE  SerialInv'
  <2>. DEFINE t == [Rest EXCEPT !.answer = a]
  <2>1. t \in Transaction /\ t.pc = "idle" /\ session' = [session EXCEPT ![s] = t]
    BY <1>6, EndedTyped DEF Ends
  <2>. HIDE DEF t
  <2>. QED
    BY <1>6, <2>1, SerialSession
<1>7. ASSUME NEW s \in Sessions, Refuse(s) \/ Insert(s) \/ Rollback(s)
      PROVE  SerialInv'
  BY <1>0, <1>6, <1>7 DEF Refuse, Insert, Rollback, Active, At
<1>8. ASSUME NEW s \in Sessions, DeleteRow(s) PROVE SerialInv'
  <2>1. /\ session[s].pc = "row" /\ Ends(s, "none") /\ Active(s)
        /\ history' = history \ session[s].doomed
        /\ logs' = logs - session[s].doomedLogs /\ database' = database
    BY <1>8 DEF DeleteRow, Active, At
  <2>2. history' = {} /\ logs' = 0
    BY <1>0, <2>1 DEF SerialInv, At
  <2>. QED
    BY <1>6, <2>1, <2>2
<1>9. ASSUME NEW s \in Sessions, AppendLog(s) PROVE SerialInv'
  <2>1. row /\ row' = row /\ Ends(s, "none") /\ Active(s) /\ database' = database
    BY <1>9 DEF AppendLog, Active, At, LocksInv, RecorderHasRow
  <2>. QED
    BY <1>6, <2>1
<1>10. CASE DeleteOther \/ UNCHANGED vars
  BY <1>10 DEF DeleteOther, vars, SerialInv, Active, At
<1>. QED
  BY <1>1, <1>2, <1>3, <1>4, <1>5, <1>7, <1>8, <1>9, <1>10 DEF Next

(* On SQLite a deletion takes the history and the logs with it, whatever   *)
(* was in flight (crud.py:227-241).                                        *)
THEOREM DeletionIsComplete == Spec => []SerialDeletionComplete
<1>1. Init => SerialInv
  BY DEF Init, SerialInv, Rest, Begun, Active, At
<1>2. SerialInv => SerialDeletionComplete
  BY DEF SerialInv, SerialDeletionComplete
<1>. QED
  BY <1>1, <1>2, SerialStep, LocksInvariant, PTL DEF Spec
=============================================================================
