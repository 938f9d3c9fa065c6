-------------------------- MODULE SqliteConnection --------------------------
(***************************************************************************)
(* The one SQLite connection of libzina.  SQLiteStoreConv is a singleton   *)
(* that opens the database once, with SQLITE_OPEN_FULLMUTEX, and every     *)
(* thread runs its statements on that handle.  SQLite then serializes the  *)
(* statements, but BEGIN, COMMIT and ROLLBACK belong to the connection:    *)
(* while one thread has a transaction open, the statements of every other  *)
(* thread are part of it.                                                  *)
(*                                                                         *)
(* The contents of the tables are a record that the module extending this  *)
(* one chooses; here they are opaque values.                               *)
(***************************************************************************)
VARIABLES
  db,     \* the tables as a statement on the connection sees them
  disk,   \* the committed tables: what the next process start finds
  tx      \* TRUE while the connection has a transaction open

store == <<db, disk, tx>>

(* A data-changing statement: on its own outside a transaction (SQLite     *)
(* commits it at once), otherwise part of the open transaction.            *)
Statement(new) ==
  /\ db' = new
  /\ disk' = IF tx THEN disk ELSE new
  /\ UNCHANGED tx

(* A mutant of BeginTransaction: the caller forgets it.                    *)
BeginForgotten == UNCHANGED store

(* BEGIN inside a transaction fails; no caller looks at the result.        *)
BeginTransaction ==
  /\ tx' = TRUE
  /\ UNCHANGED <<db, disk>>

CommitTransaction ==
  /\ tx' = FALSE
  /\ disk' = db
  /\ UNCHANGED db

(* Without an open transaction db = disk, so a failing ROLLBACK changes    *)
(* nothing, as here.                                                       *)
RollbackTransaction ==
  /\ tx' = FALSE
  /\ db' = disk
  /\ UNCHANGED disk

(* storeConversation wraps its two statements in a savepoint.  When one of *)
(* them fails it runs ROLLBACK TO SAVEPOINT, which undoes the statements   *)
(* but, unlike RELEASE, keeps the savepoint: where the savepoint itself    *)
(* had started the transaction, that transaction stays open.               *)
SavepointLeftOpen ==
  /\ tx' = TRUE
  /\ UNCHANGED <<db, disk>>

(* The process ends without closing the connection: an open transaction is *)
(* lost, the next connection starts from the committed tables.             *)
ConnectionLost == RollbackTransaction
=============================================================================
