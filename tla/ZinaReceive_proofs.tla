------------------------- MODULE ZinaReceive_proofs -------------------------
(***************************************************************************)
(* What is proved of ZinaReceive for every number of envelopes, receives,  *)
(* retries, failing statements and process deaths: the type invariant and  *)
(* DuplicateMeansHandled, from the inductive invariant IInv; and on top of *)
(* it ReceiptIsTruthful and AckedQueued (ToldInv), DeliveryPaid (PaidInv)  *)
(* and the action property RawHandover (RawInv).  AckedQueued is also      *)
(* proved of ReceiveSharedStore (SharedInv).                               *)
(***************************************************************************)
EXTENDS ReceiveSharedStore, TLAPS, FiniteSetTheorems

-----------------------------------------------------------------------------
(* The inductive invariant.                                                *)

(* Only raw and temp entries take more than one step.                      *)
HeadInv ==
  /\ pc # "idle" => queue # <<>> /\ Current.cmd \in {"raw", "temp"}
  /\ pc \notin {"idle", "deliver", "deltemp"} => queue # <<>> /\ Current.cmd = "raw"

(* Outside a transaction the connection sees the committed tables, and the *)
(* command thread is inside one from BEGIN to COMMIT or ROLLBACK.          *)
TxInv ==
  /\ ~tx => db = disk
  /\ pc \in {"hash", "staged", "conv", "temp", "rollback", "delraw", "commit"}
       => tx

(* The hash is inserted, the plain text not yet.                           *)
Pending(m) ==
  /\ pc \in {"staged", "conv", "temp", "rollback"}
  /\ Current.msg = m

HashInv == \A m \in db.hash : m \in MsgsOf(db.temp) \/ Handled(m) \/ Pending(m)

(* The plain text is inserted, the application has not been called yet.    *)
InHand(m) ==
  /\ pc \in {"delraw", "commit", "receipt", "deliver"}
  /\ Current.cmd = "raw"
  /\ Current.msg = m

Rows == db.temp \union disk.temp

(* Sequence numbers of TempMsg grow, except where a rollback sets them     *)
(* back: then a number is given out again.                                 *)
RowsInv ==
  /\ disk.tempSeq <= db.tempSeq
  /\ \A r \in Rows : r.seq <= db.tempSeq
  /\ \A r \in disk.temp : r.seq <= disk.tempSeq
  /\ \A q, r \in Rows : q.seq = r.seq => q = r

(* Who holds sequence number s for message m may delete the row s: it is   *)
(* the row of m, or of a message the application got, or of the message in *)
(* process, which the application gets before anybody deletes the row.     *)
MayDelete(s, m) ==
  \A r \in Rows : r.seq = s => r.msg = m \/ Handled(r.msg) \/ InHand(r.msg)

EntriesMayDelete(q) ==
  \A i \in DOMAIN q : q[i].cmd = "temp" => MayDelete(q[i].seq, q[i].msg)

RefsInv ==
  /\ EntriesMayDelete(queue)
  /\ EntriesMayDelete(app.list)
  /\ pc \in {"delraw", "commit", "receipt", "deliver", "deltemp"}
       => MayDelete(loc.seq, Current.msg)
  /\ pc = "deltemp" => delivered[Current.msg] > 0

IInv ==
  /\ TypeOK /\ HeadInv /\ TxInv /\ RowsInv /\ RefsInv
  /\ HashInv /\ DuplicateMeansHandled

-----------------------------------------------------------------------------
(* Types.                                                                  *)

(* A statement that writes well-typed tables keeps the store well-typed.   *)
LEMMA StatementType ==
  ASSUME StoreOK, NEW new \in Tables,
         IsFiniteSet(new.raw), IsFiniteSet(new.temp), Statement(new)
  PROVE  StoreOK'
BY DEF StoreOK, Statement

(* So do the ends of transactions.                                         *)
LEMMA TransactionType ==
  ASSUME StoreOK,
         \/ BeginTransaction \/ CommitTransaction \/ RollbackTransaction
         \/ SavepointLeftOpen \/ UNCHANGED store
  PROVE  StoreOK'
BY DEF StoreOK, BeginTransaction, CommitTransaction, RollbackTransaction,
       SavepointLeftOpen, store

(* Rows in order make a sequence of queue entries.                         *)
LEMMA EntriesType ==
  ASSUME NEW rows \in SUBSET Row, IsFiniteSet(rows), NEW s \in Ordered(rows),
         NEW cmd \in {"raw", "temp", "receipt"}
  PROVE  /\ Entries(s, cmd) \in Seq(Entry)
         /\ \A i \in DOMAIN Entries(s, cmd) :
              \E r \in rows : Entries(s, cmd)[i] = [cmd |-> cmd, seq |-> r.seq, msg |-> r.msg]
<1> DEFINE n == Cardinality(rows)
<1>1. n \in Nat
  BY FS_CardinalityType
<1>2. s \in [1 .. n -> rows]
  BY DEF Ordered
<1>3. \A i \in 1 .. n : s[i] \in rows /\ s[i] \in Row
  BY <1>2
<1>4. Entries(s, cmd) = [i \in 1 .. n |-> [cmd |-> cmd, seq |-> s[i].seq, msg |-> s[i].msg]]
  BY <1>2 DEF Entries
<1>5. \A i \in 1 .. n : [cmd |-> cmd, seq |-> s[i].seq, msg |-> s[i].msg] \in Entry
  BY <1>3 DEF Row, Entry
<1> HIDE DEF n
<1>6. Entries(s, cmd) \in [1 .. n -> Entry]
  BY <1>4, <1>5
<1>7. Entries(s, cmd) \in Seq(Entry)
  BY <1>1, <1>6
<1> QED
  BY <1>3, <1>4, <1>7

(* What is left after a pop, with what is appended, is a queue.            *)
LEMMA QueueType ==
  ASSUME NEW q \in Seq(Entry), NEW e \in Seq(Entry)
  PROVE  /\ q # <<>> => Tail(q) \o e \in Seq(Entry)
         /\ q # <<>> => Head(q) \in Entry
         /\ q \o e \in Seq(Entry)
OBVIOUS

(* The entry at the head of a queue that is not empty.                     *)
LEMMA CurrentType ==
  ASSUME ThreadsOK, queue # <<>>
  PROVE  Current \in Entry /\ Current.msg \in Msgs /\ Current.seq \in Nat
<1>1. Current \in Entry
  BY DEF ThreadsOK, Current
<1> QED
  BY <1>1 DEF Entry

(* Deleting a row of receivedRaw, or any rows of TempMsg.                  *)
LEMMA DeleteRowType ==
  ASSUME StoreOK, NEW n,
         \/ Statement([db EXCEPT !.raw = Without(@, n)])
         \/ Statement([db EXCEPT !.temp = Without(@, n)])
  PROVE  StoreOK'
<1>1. \A rows \in SUBSET Row : IsFiniteSet(rows) =>
        Without(rows, n) \in SUBSET Row /\ IsFiniteSet(Without(rows, n))
  BY FS_Subset DEF Without
<1>2. CASE Statement([db EXCEPT !.raw = Without(@, n)])
  <2>1. [db EXCEPT !.raw = Without(@, n)] \in Tables
    BY <1>1 DEF StoreOK, Tables
  <2> QED
    BY <1>1, <1>2, <2>1, StatementType DEF StoreOK, Tables
<1>3. CASE Statement([db EXCEPT !.temp = Without(@, n)])
  <2>1. [db EXCEPT !.temp = Without(@, n)] \in Tables
    BY <1>1 DEF StoreOK, Tables
  <2> QED
    BY <1>1, <1>3, <2>1, StatementType DEF StoreOK, Tables
<1> QED
  BY <1>2, <1>3

(* Popping the head, with or without an entry appended.                    *)
LEMMA PopType ==
  ASSUME ThreadsOK, queue # <<>>, NEW e \in Seq(Entry), PopThen(e),
         UNCHANGED <<net, app>>
  PROVE  ThreadsOK' /\ HeadInv'
BY DEF ThreadsOK, HeadInv, PopThen, NoLocals, Msgs

(* The command thread goes on with the entry at the head.                  *)
LEMMA GotoType ==
  ASSUME ThreadsOK, HeadInv, pc # "idle", NEW next,
         \/ next \in {"deliver", "deltemp"}
         \/ /\ pc \notin {"deliver", "deltemp"}
            /\ next \in {"begin", "hash", "staged", "conv", "temp",
                         "rollback", "delraw", "commit", "receipt"},
         Goto(next), UNCHANGED <<net, app>>
  PROVE  ThreadsOK' /\ HeadInv'
BY DEF ThreadsOK, HeadInv, Goto, Current

(* The envelope is rejected: its row is deleted, its entry stays.          *)
LEMMA Rejected ==
  ASSUME RefuseEnvelope \/ LoadConversationFails \/ DecryptFails
  PROVE  /\ AtHead("raw") /\ DeleteRawRow(Current.seq) /\ pc' \in {"reject", "failed"}
         /\ UNCHANGED <<queue, loc, net, app, outcome, receives, retries, crashes>>
         /\ faults' \in {faults, faults + 1}
BY DEF RefuseEnvelope, LoadConversationFails, DecryptFails, Acceptable, NewEnvelope,
   RejectEnvelope, Goto, Fault, counts, AtHead

(* A thread appends entries.                                               *)
LEMMA AppendType ==
  ASSUME ThreadsOK, HeadInv, NEW e \in Seq(Entry), queue' = queue \o e,
         UNCHANGED pc
  PROVE  /\ queue' \in Seq(Entry)
         /\ queue # <<>> => queue' # <<>> /\ Head(queue') = Head(queue)
         /\ HeadInv'
<1>1. queue' \in Seq(Entry)
  BY DEF ThreadsOK
<1>2. queue # <<>> => queue' # <<>> /\ Head(queue') = Head(queue)
  BY DEF ThreadsOK
<1> QED
  BY <1>1, <1>2 DEF HeadInv, Current

(* Every step keeps the types and the shape of the queue: one proof step   *)
(* per action.                                                             *)
THEOREM TypeStep == TypeOK /\ HeadInv /\ [Next]_vars => TypeOK' /\ HeadInv'
<1> SUFFICES ASSUME TypeOK, HeadInv, [Next]_vars PROVE TypeOK' /\ HeadInv'
  OBVIOUS
<1> USE MsgsAssumption DEF TypeOK
<1> DEFINE T == TypeOK' /\ HeadInv'
<1>1. ASSUME NEW m \in Msgs, ReceiveInsert(m) PROVE T
  <2>1. StoreOK'
    <3> DEFINE rows == db.raw \union {[seq |-> db.rawSeq + 1, msg |-> m]}
    <3>1. rows \in SUBSET Row /\ db.rawSeq + 1 \in Nat
      BY DEF StoreOK, Tables, Row
    <3>2. IsFiniteSet(rows)
      BY FS_AddElement DEF StoreOK
    <3> HIDE DEF rows
    <3>3. [db EXCEPT !.raw = rows, !.rawSeq = @ + 1] \in Tables
      BY <3>1 DEF StoreOK, Tables
    <3> QED
      BY <1>1, <3>2, <3>3, StatementType DEF ReceiveInsert, rows,
         StoreOK, Tables
  <2>2. ThreadsOK' /\ HeadInv'
    BY <1>1 DEF ReceiveInsert, ThreadsOK, HeadInv, Current
  <2>3. OutcomeOK' /\ CountsOK'
    BY <1>1 DEF OutcomeOK, CountsOK, outcome, counts, ReceiveInsert
  <2> QED
    BY <2>1, <2>2, <2>3
<1>2. ASSUME ReceiveInsertFails PROVE T
  <2>1. StoreOK'
    BY <1>2, TransactionType DEF ReceiveInsertFails
  <2>2. ThreadsOK' /\ HeadInv'
    BY <1>2 DEF ReceiveInsertFails, threads, ThreadsOK, HeadInv, Current
  <2>3. OutcomeOK' /\ CountsOK'
    BY <1>2 DEF OutcomeOK, CountsOK, outcome, counts, ReceiveInsertFails
  <2> QED
    BY <2>1, <2>2, <2>3
<1>3. ASSUME ReceiveGetSequence PROVE T
  <2>1. StoreOK'
    BY <1>3, TransactionType DEF ReceiveGetSequence
  <2>2. ThreadsOK' /\ HeadInv'
    BY <1>3 DEF ReceiveGetSequence, ThreadsOK, HeadInv, Current, StoreOK,
       Tables
  <2>3. OutcomeOK' /\ CountsOK'
    BY <1>3 DEF OutcomeOK, CountsOK, outcome, counts, ReceiveGetSequence
  <2> QED
    BY <2>1, <2>2, <2>3
<1>4. ASSUME ReceiveEnqueue PROVE T
  <2>1. StoreOK'
    BY <1>4, TransactionType DEF ReceiveEnqueue
  <2>2. ThreadsOK' /\ HeadInv'
    <3> DEFINE e == [cmd |-> "raw", seq |-> net.seq, msg |-> net.msg]
    <3>0. e \in Entry /\ queue' = Append(queue, e) /\ queue \in Seq(Entry)
      BY <1>4 DEF ReceiveEnqueue, ThreadsOK, Entry
    <3> HIDE DEF e
    <3>1. <<e>> \in Seq(Entry) /\ queue' = queue \o <<e>>
      BY <3>0
    <3>2. queue' \in Seq(Entry) /\ HeadInv'
      BY <1>4, <3>1, AppendType DEF ReceiveEnqueue
    <3> QED
      BY <1>4, <3>2 DEF ReceiveEnqueue, ThreadsOK
  <2>3. OutcomeOK' /\ CountsOK'
    BY <1>4 DEF OutcomeOK, CountsOK, outcome, counts, ReceiveEnqueue,
       ThreadsOK
  <2> QED
    BY <2>1, <2>2, <2>3
<1>5. ASSUME DropDuplicate PROVE T
  <2>0. queue # <<>>
    BY <1>5 DEF DropDuplicate, AtHead, NewEnvelope, Acceptable
  <2>1. StoreOK'
    BY <1>5, DeleteRowType DEF DeleteRawRow, RejectEnvelope, DropDuplicate
  <2>2. ThreadsOK' /\ HeadInv'
    <3>1. <<>> \in Seq(Entry)
      BY <2>0, CurrentType DEF Entry
    <3> QED
      BY <1>5, <2>0, <3>1, PopType DEF DropDuplicate, Pop
  <2>3. OutcomeOK' /\ CountsOK'
    BY <1>5 DEF OutcomeOK, CountsOK, outcome, counts, DropDuplicate
  <2> QED
    BY <2>1, <2>2, <2>3
<1>6. ASSUME DropMalformed PROVE T
  <2>0. queue # <<>>
    BY <1>6 DEF DropMalformed, AtHead, NewEnvelope, Acceptable
  <2>1. StoreOK'
    BY <1>6, DeleteRowType DEF DeleteRawRow, RejectEnvelope, DropMalformed
  <2>2. ThreadsOK' /\ HeadInv'
    <3>1. <<>> \in Seq(Entry)
      BY <2>0, CurrentType DEF Entry
    <3> QED
      BY <1>6, <2>0, <3>1, PopType DEF DropMalformed, Pop
  <2>3. OutcomeOK' /\ CountsOK'
    BY <1>6 DEF OutcomeOK, CountsOK, outcome, counts, DropMalformed
  <2> QED
    BY <2>1, <2>2, <2>3
<1>7. ASSUME RefuseEnvelope \/ LoadConversationFails \/ DecryptFails PROVE T
  <2>1. StoreOK'
    BY <1>7, Rejected, DeleteRowType DEF DeleteRawRow
  <2>2. ThreadsOK' /\ HeadInv'
    BY <1>7, Rejected DEF AtHead, ThreadsOK, HeadInv, Current
  <2>3. OutcomeOK' /\ CountsOK'
    BY <1>7, Rejected DEF OutcomeOK, CountsOK, outcome
  <2> QED
    BY <2>1, <2>2, <2>3
<1>8. ASSUME ReportRejected PROVE T
  <2>0. queue # <<>>
    BY <1>8 DEF ReportRejected, HeadInv
  <2>1. StoreOK'
    BY <1>8, TransactionType DEF ReportRejected
  <2>2. ThreadsOK' /\ HeadInv'
    <3>1. <<>> \in Seq(Entry)
      BY <2>0, CurrentType DEF Entry
    <3> QED
      BY <1>8, <2>0, <3>1, PopType DEF ReportRejected, Pop
  <2>3. OutcomeOK' /\ CountsOK'
    BY <1>8, <2>0, CurrentType DEF OutcomeOK, CountsOK, outcome, counts,
       ReportRejected, Report
  <2> QED
    BY <2>1, <2>2, <2>3
<1>9. ASSUME DecryptStaged PROVE T
  <2>1. StoreOK'
    BY <1>9, StatementType DEF DecryptStaged, StoreOK, Tables
  <2>2. ThreadsOK' /\ HeadInv'
    BY <1>9 DEF DecryptStaged, AtHead, NewEnvelope, Acceptable, ThreadsOK,
       StoreOK, Tables, HeadInv, Current
  <2>3. OutcomeOK' /\ CountsOK'
    BY <1>9 DEF OutcomeOK, CountsOK, outcome, counts, DecryptStaged
  <2> QED
    BY <2>1, <2>2, <2>3
<1>10. ASSUME DecryptChain PROVE T
  <2>1. StoreOK'
    BY <1>10, TransactionType DEF DecryptChain
  <2>2. ThreadsOK' /\ HeadInv'
    <3>1. Current.msg \in Msgs /\ db.nr \in Nat
      BY <1>10, CurrentType DEF DecryptChain, AtHead, NewEnvelope,
         Acceptable, StoreOK, Tables
    <3>2. db.nr .. (Current.msg - 1) \subseteq Msgs /\ Current.msg + 1 \in Nat
      BY <3>1 DEF Msgs
    <3>3. loc' \in [nr : Nat, skipped : SUBSET Msgs, seq : Nat]
      BY <1>10, <3>2 DEF DecryptChain
    <3> QED
      BY <1>10, <3>3 DEF DecryptChain, AtHead, NewEnvelope, Acceptable,
         ThreadsOK, HeadInv, Current
  <2>3. OutcomeOK' /\ CountsOK'
    BY <1>10 DEF OutcomeOK, CountsOK, outcome, counts, DecryptChain
  <2> QED
    BY <2>1, <2>2, <2>3
<1>11. ASSUME ReportUndecryptable PROVE T
  <2>0. queue # <<>>
    BY <1>11 DEF ReportUndecryptable, HeadInv
  <2>1. StoreOK'
    BY <1>11, TransactionType DEF ReportUndecryptable
  <2>2. ThreadsOK' /\ HeadInv'
    <3>1. <<[cmd |-> "error", seq |-> 0, msg |-> Current.msg]>> \in Seq(Entry)
      BY <2>0, CurrentType DEF Entry
    <3> QED
      BY <1>11, <2>0, <3>1, PopType DEF ReportUndecryptable, Pop
  <2>3. OutcomeOK' /\ CountsOK'
    BY <1>11, <2>0, CurrentType DEF OutcomeOK, CountsOK, outcome, counts,
       ReportUndecryptable, Report
  <2> QED
    BY <2>1, <2>2, <2>3
<1>12. ASSUME Begin PROVE T
  <2>1. StoreOK'
    BY <1>12, TransactionType DEF Begin
  <2>2. ThreadsOK' /\ HeadInv'
    BY <1>12, GotoType DEF Begin
  <2>3. OutcomeOK' /\ CountsOK'
    BY <1>12 DEF OutcomeOK, CountsOK, outcome, counts, Begin
  <2> QED
    BY <2>1, <2>2, <2>3
<1>13. ASSUME InsertMsgHash PROVE T
  <2>0. queue # <<>> /\ Current.msg \in Msgs
    BY <1>13, CurrentType DEF InsertMsgHash, HeadInv
  <2>1. StoreOK'
    BY <1>13, <2>0, StatementType DEF InsertMsgHash, StoreOK, Tables
  <2>2. ThreadsOK' /\ HeadInv'
    BY <1>13, GotoType DEF InsertMsgHash
  <2>3. OutcomeOK' /\ CountsOK'
    BY <1>13 DEF OutcomeOK, CountsOK, outcome, counts, InsertMsgHash
  <2> QED
    BY <2>1, <2>2, <2>3
<1>14. ASSUME StoreStagedMks PROVE T
  <2>1. StoreOK'
    BY <1>14, StatementType DEF StoreStagedMks, StoreOK, Tables, ThreadsOK
  <2>2. ThreadsOK' /\ HeadInv'
    BY <1>14, GotoType DEF StoreStagedMks
  <2>3. OutcomeOK' /\ CountsOK'
    BY <1>14 DEF OutcomeOK, CountsOK, outcome, counts, StoreStagedMks
  <2> QED
    BY <2>1, <2>2, <2>3
<1>15. ASSUME StoreConversation PROVE T
  <2>1. StoreOK'
    BY <1>15, StatementType DEF StoreConversation, StoreOK, Tables, ThreadsOK
  <2>2. ThreadsOK' /\ HeadInv'
    BY <1>15, GotoType DEF StoreConversation
  <2>3. OutcomeOK' /\ CountsOK'
    BY <1>15 DEF OutcomeOK, CountsOK, outcome, counts, StoreConversation
  <2> QED
    BY <2>1, <2>2, <2>3
<1>16. ASSUME InsertTempMsg PROVE T
  <2>0. queue # <<>> /\ Current.msg \in Msgs
    BY <1>16, CurrentType DEF InsertTempMsg, HeadInv
  <2>1. StoreOK'
    <3> DEFINE rows == db.temp \union {[seq |-> db.tempSeq + 1, msg |-> Current.msg]}
    <3>1. rows \in SUBSET Row /\ db.tempSeq + 1 \in Nat
      BY <2>0 DEF StoreOK, Tables, Row
    <3>2. IsFiniteSet(rows)
      BY FS_AddElement DEF StoreOK
    <3> HIDE DEF rows
    <3>3. [db EXCEPT !.temp = rows, !.tempSeq = @ + 1] \in Tables
      BY <3>1 DEF StoreOK, Tables
    <3> QED
      BY <1>16, <3>2, <3>3, StatementType DEF InsertTempMsg, rows,
         StoreOK, Tables
  <2>2. ThreadsOK' /\ HeadInv'
    <3>0. db.tempSeq + 1 \in Nat
      BY DEF StoreOK, Tables
    <3>1. loc' \in [nr : Nat, skipped : SUBSET Msgs, seq : Nat]
      BY <1>16, <3>0 DEF InsertTempMsg, ThreadsOK
    <3> QED
      BY <1>16, <3>1 DEF InsertTempMsg, ThreadsOK, HeadInv, Current
  <2>3. OutcomeOK' /\ CountsOK'
    BY <1>16 DEF OutcomeOK, CountsOK, outcome, counts, InsertTempMsg
  <2> QED
    BY <2>1, <2>2, <2>3
<1>17. ASSUME StoreFails PROVE T
  <2>1. StoreOK'
    BY <1>17, TransactionType DEF StoreFails
  <2>2. ThreadsOK' /\ HeadInv'
    BY <1>17, GotoType DEF StoreFails
  <2>3. OutcomeOK' /\ CountsOK'
    BY <1>17 DEF OutcomeOK, CountsOK, outcome, counts, StoreFails, Fault
  <2> QED
    BY <2>1, <2>2, <2>3
<1>18. ASSUME Rollback PROVE T
  <2>0. queue # <<>>
    BY <1>18 DEF Rollback, HeadInv
  <2>1. StoreOK'
    BY <1>18, TransactionType DEF Rollback
  <2>2. ThreadsOK' /\ HeadInv'
    <3>1. <<>> \in Seq(Entry)
      BY <2>0, CurrentType DEF Entry
    <3> QED
      BY <1>18, <2>0, <3>1, PopType DEF Rollback, Pop
  <2>3. OutcomeOK' /\ CountsOK'
    BY <1>18, <2>0, CurrentType DEF OutcomeOK, CountsOK, outcome, counts,
       Rollback, Report
  <2> QED
    BY <2>1, <2>2, <2>3
<1>19. ASSUME DeleteRaw PROVE T
  <2>1. StoreOK'
    BY <1>19, DeleteRowType DEF DeleteRawRow, RejectEnvelope, DeleteRaw
  <2>2. ThreadsOK' /\ HeadInv'
    BY <1>19, GotoType DEF DeleteRaw
  <2>3. OutcomeOK' /\ CountsOK'
    BY <1>19 DEF OutcomeOK, CountsOK, outcome, counts, DeleteRaw
  <2> QED
    BY <2>1, <2>2, <2>3
<1>20. ASSUME Commit PROVE T
  <2>1. StoreOK'
    BY <1>20, TransactionType DEF Commit
  <2>2. ThreadsOK' /\ HeadInv'
    BY <1>20, GotoType DEF Commit
  <2>3. OutcomeOK' /\ CountsOK'
    BY <1>20 DEF OutcomeOK, CountsOK, outcome, counts, Commit
  <2> QED
    BY <2>1, <2>2, <2>3
<1>21. ASSUME CommitFails PROVE T
  <2>1. StoreOK'
    BY <1>21, TransactionType DEF CommitFails
  <2>2. ThreadsOK' /\ HeadInv'
    BY <1>21, GotoType DEF CommitFails
  <2>3. OutcomeOK' /\ CountsOK'
    BY <1>21 DEF OutcomeOK, CountsOK, outcome, counts, CommitFails, Fault
  <2> QED
    BY <2>1, <2>2, <2>3
<1>22. ASSUME SendDeliveryReceipt PROVE T
  <2>0. queue # <<>> /\ Current.msg \in Msgs
    BY <1>22, CurrentType DEF SendDeliveryReceipt, HeadInv
  <2>1. StoreOK'
    BY <1>22, TransactionType DEF SendDeliveryReceipt
  <2>2. ThreadsOK' /\ HeadInv'
    <3> DEFINE e == [cmd |-> "receipt", seq |-> 0, msg |-> Current.msg]
    <3>0. e \in Entry
      BY <2>0 DEF Entry
    <3>1. queue' = Append(queue, e)
      BY <1>22 DEF SendDeliveryReceipt
    <3> HIDE DEF e
    <3>2. queue' \in Seq(Entry) /\ queue' # <<>> /\ Head(queue') = Head(queue)
      BY <2>0, <3>0, <3>1 DEF ThreadsOK
    <3> QED
      BY <1>22, <3>2 DEF SendDeliveryReceipt, ThreadsOK, HeadInv, Current
  <2>3. OutcomeOK' /\ CountsOK'
    BY <1>22 DEF OutcomeOK, CountsOK, outcome, counts, SendDeliveryReceipt
  <2> QED
    BY <2>1, <2>2, <2>3
<1>23. ASSUME TakeTemp PROVE T
  <2>1. StoreOK'
    BY <1>23, TransactionType DEF TakeTemp
  <2>2. ThreadsOK' /\ HeadInv'
    BY <1>23, CurrentType DEF TakeTemp, AtHead, ThreadsOK, NoLocals,
       HeadInv, Current, Msgs
  <2>3. OutcomeOK' /\ CountsOK'
    BY <1>23 DEF OutcomeOK, CountsOK, outcome, counts, TakeTemp
  <2> QED
    BY <2>1, <2>2, <2>3
<1>24. ASSUME Deliver PROVE T
  <2>0. queue # <<>> /\ Current.msg \in Msgs
    BY <1>24, CurrentType DEF Deliver, HeadInv
  <2>1. StoreOK'
    BY <1>24, TransactionType DEF Deliver, Goto
  <2>2. ThreadsOK' /\ HeadInv'
    BY <1>24, GotoType DEF Deliver
  <2>3. OutcomeOK' /\ CountsOK'
    BY <1>24, <2>0 DEF OutcomeOK, CountsOK, outcome, counts, Deliver
  <2> QED
    BY <2>1, <2>2, <2>3
<1>25. ASSUME DeliverRejected PROVE T
  <2>0. queue # <<>>
    BY <1>25 DEF DeliverRejected, HeadInv
  <2>1. StoreOK'
    BY <1>25, TransactionType DEF DeliverRejected
  <2>2. ThreadsOK' /\ HeadInv'
    <3>1. <<>> \in Seq(Entry)
      BY <2>0, CurrentType DEF Entry
    <3> QED
      BY <1>25, <2>0, <3>1, PopType DEF DeliverRejected, Pop
  <2>3. OutcomeOK' /\ CountsOK'
    BY <1>25, <2>0, CurrentType DEF OutcomeOK, CountsOK, outcome, counts,
       DeliverRejected, Report
  <2> QED
    BY <2>1, <2>2, <2>3
<1>26. ASSUME DeleteTemp PROVE T
  <2>0. queue # <<>>
    BY <1>26 DEF DeleteTemp, HeadInv
  <2>1. StoreOK'
    BY <1>26, DeleteRowType DEF DeleteRawRow, RejectEnvelope, DeleteTemp
  <2>2. ThreadsOK' /\ HeadInv'
    <3>1. <<>> \in Seq(Entry)
      BY <2>0, CurrentType DEF Entry
    <3> QED
      BY <1>26, <2>0, <3>1, PopType DEF DeleteTemp, Pop
  <2>3. OutcomeOK' /\ CountsOK'
    BY <1>26 DEF OutcomeOK, CountsOK, outcome, counts, DeleteTemp
  <2> QED
    BY <2>1, <2>2, <2>3
<1>27. ASSUME SendCommand PROVE T
  <2>0. queue # <<>>
    BY <1>27 DEF SendCommand, AtHead, NewEnvelope, Acceptable
  <2>1. StoreOK'
    BY <1>27, TransactionType DEF SendCommand
  <2>2. ThreadsOK' /\ HeadInv'
    <3>1. <<>> \in Seq(Entry)
      BY <2>0, CurrentType DEF Entry
    <3> QED
      BY <1>27, <2>0, <3>1, PopType DEF SendCommand, Pop
  <2>3. OutcomeOK' /\ CountsOK'
    BY <1>27, <2>0, CurrentType DEF OutcomeOK, CountsOK, outcome, counts,
       SendCommand
  <2> QED
    BY <2>1, <2>2, <2>3
<1>28. ASSUME SendCommandFails PROVE T
  <2>0. queue # <<>>
    BY <1>28 DEF SendCommandFails, AtHead, NewEnvelope, Acceptable
  <2>1. StoreOK'
    BY <1>28, TransactionType DEF SendCommandFails
  <2>2. ThreadsOK' /\ HeadInv'
    <3>1. <<>> \in Seq(Entry)
      BY <2>0, CurrentType DEF Entry
    <3> QED
      BY <1>28, <2>0, <3>1, PopType DEF SendCommandFails, Pop
  <2>3. OutcomeOK' /\ CountsOK'
    BY <1>28 DEF OutcomeOK, CountsOK, outcome, counts, SendCommandFails, Fault
  <2> QED
    BY <2>1, <2>2, <2>3
<1>29. ASSUME RetryLoadTemp PROVE T
  <2>1. StoreOK'
    BY <1>29, TransactionType DEF RetryLoadTemp
  <2>2. ThreadsOK' /\ HeadInv'
    <3>1. PICK rows \in Ordered(db.temp) :
            /\ app' = [pc |-> "raw", list |-> Entries(rows, "temp")]
            /\ queue' = queue \o Entries(rows, "receipt")
      BY <1>29 DEF RetryLoadTemp
    <3>2. Entries(rows, "temp") \in Seq(Entry) /\ Entries(rows, "receipt") \in Seq(Entry)
      BY EntriesType DEF StoreOK, Tables
    <3>3. queue' \in Seq(Entry) /\ HeadInv'
      BY <1>29, <3>1, <3>2, AppendType DEF RetryLoadTemp
    <3> QED
      BY <1>29, <3>1, <3>2, <3>3 DEF RetryLoadTemp, ThreadsOK
  <2>3. OutcomeOK' /\ CountsOK'
    BY <1>29 DEF OutcomeOK, CountsOK, outcome, counts, RetryLoadTemp
  <2> QED
    BY <2>1, <2>2, <2>3
<1>30. ASSUME RetryLoadRaw PROVE T
  <2>1. StoreOK'
    BY <1>30, TransactionType DEF RetryLoadRaw
  <2>2. ThreadsOK' /\ HeadInv'
    <3>1. PICK rows \in Ordered(db.raw) :
            queue' = queue \o (app.list \o Entries(rows, "raw"))
      BY <1>30 DEF RetryLoadRaw
    <3>2. Entries(rows, "raw") \in Seq(Entry)
      BY EntriesType DEF StoreOK, Tables
    <3>3. /\ app.list \o Entries(rows, "raw") \in Seq(Entry)
          /\ queue' = queue \o (app.list \o Entries(rows, "raw"))
      BY <3>1, <3>2 DEF ThreadsOK
    <3>4. queue' \in Seq(Entry) /\ HeadInv'
      BY <1>30, <3>3, AppendType DEF RetryLoadRaw
    <3> QED
      BY <1>30, <3>4 DEF RetryLoadRaw, ThreadsOK
  <2>3. OutcomeOK' /\ CountsOK'
    BY <1>30 DEF OutcomeOK, CountsOK, outcome, counts, RetryLoadRaw
  <2> QED
    BY <2>1, <2>2, <2>3
<1>31. ASSUME Crash PROVE T
  <2>1. StoreOK'
    BY <1>31, TransactionType DEF Crash, ConnectionLost
  <2>2. ThreadsOK' /\ HeadInv'
    <3>1. queue' \in Seq(Entry) /\ pc' = "idle"
      BY <1>31 DEF Crash
    <3>2. loc' \in [nr : Nat, skipped : SUBSET Msgs, seq : Nat]
      BY <1>31 DEF Crash, NoLocals
    <3>3. net' \in [pc : {"idle", "inserted", "numbered"}, msg : Msgs, seq : Nat]
      BY <1>31 DEF Crash, ThreadsOK
    <3>4. app' \in [pc : {"idle", "raw"}, list : Seq(Entry)]
      BY <1>31 DEF Crash
    <3> QED
      BY <3>1, <3>2, <3>3, <3>4 DEF ThreadsOK, HeadInv
  <2>3. OutcomeOK' /\ CountsOK'
    BY <1>31 DEF OutcomeOK, CountsOK, outcome, counts, Crash
  <2> QED
    BY <2>1, <2>2, <2>3
<1>32. ASSUME UNCHANGED vars PROVE T
  BY <1>32 DEF vars, store, threads, outcome, counts, StoreOK, ThreadsOK,
     OutcomeOK, CountsOK, HeadInv, Current
<1> QED
  BY <1>1, <1>2, <1>3, <1>4, <1>5, <1>6, <1>7, <1>8, <1>9, <1>10, <1>11,
     <1>12, <1>13, <1>14, <1>15, <1>16, <1>17, <1>18, <1>19, <1>20, <1>21,
     <1>22, <1>23, <1>24, <1>25, <1>26, <1>27, <1>28, <1>29, <1>30,
     <1>31, <1>32
     DEF Next, Network, Process, Application

-----------------------------------------------------------------------------
(* Lemmas of the invariant.                                                *)

(* The tables that the invariant speaks of stay as they are.               *)
SameTables ==
  /\ db'.temp = db.temp /\ db'.hash = db.hash /\ db'.tempSeq = db.tempSeq
  /\ disk'.temp = disk.temp /\ disk'.hash = disk.hash
  /\ disk'.tempSeq = disk.tempSeq

HandledStays == \A m \in Msgs : Handled(m) => Handled(m)'
InHandStays == \A m \in Msgs : InHand(m) => InHand(m)' \/ Handled(m)'
PendingStays == \A m \in Msgs : Pending(m) => Pending(m)' \/ Handled(m)'

(* Every holder of a sequence number after the step had the right to       *)
(* delete the row before it.                                               *)
HoldersStay ==
  /\ EntriesMayDelete(queue')
  /\ EntriesMayDelete(app'.list)
  /\ pc' \in {"delraw", "commit", "receipt", "deliver", "deltemp"}
       => MayDelete(loc'.seq, Head(queue').msg)
  /\ pc' = "deltemp" => delivered'[Head(queue').msg] > 0

(* A statement that leaves TempMsg and MsgHash alone.                      *)
LEMMA StatementSame ==
  ASSUME ~tx => db = disk, NEW new, Statement(new), new.temp = db.temp,
         new.hash = db.hash, new.tempSeq = db.tempSeq
  PROVE  SameTables /\ (~tx' => db' = disk') /\ tx' = tx
BY DEF SameTables, Statement

(* Fewer rows, and nobody's message gets out of hand: the holders keep     *)
(* their right.                                                            *)
LEMMA RefsStay ==
  ASSUME TypeOK, Rows' \subseteq Rows, HandledStays, InHandStays, HoldersStay
  PROVE  RefsInv'
<1>1. \A r \in Rows : r.msg \in Msgs
  BY DEF TypeOK, StoreOK, Tables, Rows, Row
<1>2. ASSUME NEW s, NEW m, MayDelete(s, m) PROVE MayDelete(s, m)'
  BY <1>1, <1>2 DEF MayDelete, HandledStays, InHandStays
<1> QED
  BY <1>2 DEF HoldersStay, RefsInv, EntriesMayDelete, Current

(* A queue of entries, popped, extended or both.                           *)
LEMMA QueueMayDelete ==
  ASSUME NEW q \in Seq(Entry), NEW e \in Seq(Entry),
         EntriesMayDelete(q), EntriesMayDelete(e)
  PROVE  /\ EntriesMayDelete(q \o e)
         /\ q # <<>> => EntriesMayDelete(Tail(q) \o e)
<1>1. \A i \in DOMAIN (q \o e) :
        \/ i \in DOMAIN q /\ (q \o e)[i] = q[i]
        \/ i - Len(q) \in DOMAIN e /\ (q \o e)[i] = e[i - Len(q)]
  OBVIOUS
<1>2. ASSUME q # <<>>
      PROVE  \A i \in DOMAIN (Tail(q) \o e) :
        \/ i + 1 \in DOMAIN q /\ (Tail(q) \o e)[i] = q[i + 1]
        \/ /\ i - Len(Tail(q)) \in DOMAIN e
           /\ (Tail(q) \o e)[i] = e[i - Len(Tail(q))]
  BY <1>2
<1> QED
  BY <1>1, <1>2 DEF EntriesMayDelete

(* The step of a thread that has nothing to do with TempMsg and MsgHash.   *)
LEMMA NeutralStep ==
  ASSUME IInv, TypeOK', HeadInv', TxInv', SameTables,
         HandledStays, PendingStays, InHandStays, HoldersStay
  PROVE  IInv'
<1> USE DEF IInv
<1>1. Rows' = Rows
  BY DEF SameTables, Rows
<1>2. RowsInv'
  BY <1>1 DEF RowsInv, SameTables
<1>3. RefsInv'
  BY <1>1, RefsStay
<1>4. db.hash \subseteq Msgs /\ disk.hash \subseteq Msgs
  BY DEF TypeOK, StoreOK, Tables
<1>5. HashInv'
  BY <1>4 DEF HashInv, SameTables, HandledStays, PendingStays, MsgsOf
<1>6. DuplicateMeansHandled'
  BY <1>4 DEF DuplicateMeansHandled, SameTables, HandledStays, MsgsOf
<1> QED
  BY <1>2, <1>3, <1>5, <1>6

(* The step of a thread that leaves the command thread alone.              *)
LEMMA QuietThread ==
  ASSUME IInv, UNCHANGED <<queue, pc, loc, app, outcome>>
  PROVE  HandledStays /\ PendingStays /\ InHandStays /\ HoldersStay
BY DEF IInv, RefsInv, EntriesMayDelete, outcome, HandledStays, PendingStays,
       InHandStays, HoldersStay, Handled, Pending, InHand, Current

(* Entries are appended, by any thread.                                    *)
LEMMA AppendStays ==
  ASSUME IInv, NEW e \in Seq(Entry), EntriesMayDelete(e), queue' = queue \o e,
         UNCHANGED <<loc, delivered, reported>>,
         pc' = pc \/ (pc = "receipt" /\ pc' = "deliver"),
         EntriesMayDelete(app'.list)
  PROVE  HandledStays /\ PendingStays /\ InHandStays /\ HoldersStay
<1>1. EntriesMayDelete(queue')
  BY QueueMayDelete DEF IInv, TypeOK, ThreadsOK, RefsInv
<1>2. pc # "idle" => queue # <<>> /\ Head(queue') = Head(queue)
  BY DEF IInv, TypeOK, ThreadsOK, HeadInv
<1> QED
  BY <1>1, <1>2 DEF IInv, RefsInv, HandledStays, PendingStays, InHandStays,
     HoldersStay, Handled, Pending, InHand, Current

(* The head of the queue is popped.                                        *)
LEMMA PopStays ==
  ASSUME IInv, queue # <<>>, NEW e \in Seq(Entry), EntriesMayDelete(e),
         PopThen(e), UNCHANGED app
  PROVE  HoldersStay
<1>1. EntriesMayDelete(queue')
  BY QueueMayDelete DEF IInv, TypeOK, ThreadsOK, RefsInv, PopThen
<1> QED
  BY <1>1 DEF IInv, RefsInv, HoldersStay, PopThen

(* The command thread goes on with the entry at the head.                  *)
LEMMA GotoStays ==
  ASSUME IInv, NEW next \in {"hash", "staged", "conv", "temp", "rollback",
                             "commit", "receipt"},
         next \in {"commit", "receipt"} => pc \in {"delraw", "commit"},
         Goto(next), UNCHANGED <<app, delivered, reported>>
  PROVE  /\ HoldersStay /\ HandledStays
         /\ pc \in {"delraw", "commit"} /\ next \in {"commit", "receipt"}
              => InHandStays
         /\ pc \in {"staged", "conv", "temp"} /\ next \notin {"commit", "receipt", "hash"}
              => PendingStays
BY DEF IInv, RefsInv, HoldersStay, Goto, Current, HandledStays, Handled,
       InHandStays, InHand, PendingStays, Pending

(* Every step of every thread keeps the invariant.                         *)
THEOREM InvStep == IInv /\ [Next]_vars => IInv'
<1> SUFFICES ASSUME IInv, [Next]_vars PROVE IInv'
  OBVIOUS
<1>0. TypeOK' /\ HeadInv'
  BY TypeStep DEF IInv
<1> DEFINE Stays == HandledStays /\ PendingStays /\ InHandStays /\ HoldersStay
<1>1. ASSUME NEW m \in Msgs, ReceiveInsert(m) PROVE IInv'
  <2>1. SameTables /\ TxInv'
    <3>1. (~tx => db = disk) /\ db \in Tables
      BY DEF IInv, TxInv, TypeOK, StoreOK
    <3>2. SameTables /\ (~tx' => db' = disk') /\ tx' = tx
      BY <1>1, <3>1, StatementSame DEF ReceiveInsert, Tables
    <3> QED
      BY <1>1, <3>2 DEF ReceiveInsert, IInv, TxInv
  <2>2. Stays
    BY <1>1, QuietThread DEF ReceiveInsert
  <2> QED
    BY <1>0, <2>1, <2>2, NeutralStep
<1>2. ASSUME ReceiveInsertFails PROVE IInv'
  <2>1. SameTables /\ TxInv'
    BY <1>2 DEF ReceiveInsertFails, IInv, TxInv, SameTables, store, threads
  <2>2. Stays
    BY <1>2, QuietThread DEF ReceiveInsertFails, threads
  <2> QED
    BY <1>0, <2>1, <2>2, NeutralStep
<1>3. ASSUME ReceiveGetSequence PROVE IInv'
  <2>1. SameTables /\ TxInv'
    BY <1>3 DEF ReceiveGetSequence, IInv, TxInv, SameTables, store, threads
  <2>2. Stays
    BY <1>3, QuietThread DEF ReceiveGetSequence
  <2> QED
    BY <1>0, <2>1, <2>2, NeutralStep
<1>4. ASSUME ReceiveEnqueue PROVE IInv'
  <2>1. SameTables /\ TxInv'
    BY <1>4 DEF ReceiveEnqueue, IInv, TxInv, SameTables, store, threads
  <2>2. Stays
    <3> DEFINE e == [cmd |-> "raw", seq |-> net.seq, msg |-> net.msg]
    <3>0. e \in Entry /\ queue' = Append(queue, e) /\ queue \in Seq(Entry)
      BY <1>4 DEF ReceiveEnqueue, IInv, TypeOK, ThreadsOK, Entry
    <3>2. EntriesMayDelete(<<e>>)
      BY DEF EntriesMayDelete
    <3> HIDE DEF e
    <3>1. <<e>> \in Seq(Entry) /\ queue' = queue \o <<e>>
      BY <3>0
    <3> QED
      BY <1>4, <3>1, <3>2, AppendStays DEF ReceiveEnqueue, IInv, RefsInv
  <2> QED
    BY <1>0, <2>1, <2>2, NeutralStep
<1>5. ASSUME DropDuplicate PROVE IInv'
  <2>1. SameTables /\ TxInv'
    <3>1. (~tx => db = disk) /\ db \in Tables
      BY DEF IInv, TxInv, TypeOK, StoreOK
    <3>2. SameTables /\ (~tx' => db' = disk') /\ tx' = tx
      BY <1>5, <3>1, StatementSame DEF DropDuplicate, RejectEnvelope,
         DeleteRawRow, PopThen, Pop, Tables
    <3> QED
      BY <1>5, <3>2 DEF DropDuplicate, RejectEnvelope, DeleteRawRow,
         PopThen, Pop, IInv, TxInv
  <2>2. Stays
    <3>1. queue # <<>> /\ PopThen(<<>>)
      BY <1>5 DEF DropDuplicate, AtHead, NewEnvelope, Acceptable,
         RejectEnvelope, Pop, IInv, HeadInv
    <3>2. <<>> \in Seq(Entry) /\ EntriesMayDelete(<<>>)
      BY <3>1, CurrentType DEF EntriesMayDelete, IInv, TypeOK, Entry
    <3>3. HoldersStay
      BY <1>5, <3>1, <3>2, PopStays DEF DropDuplicate, RejectEnvelope
    <3>4. HandledStays /\ PendingStays /\ InHandStays
      BY <1>5 DEF DropDuplicate, AtHead, NewEnvelope, Acceptable,
         RejectEnvelope, Report, outcome, HandledStays, PendingStays,
         InHandStays, Handled, Pending, InHand
    <3> QED
      BY <3>3, <3>4
  <2> QED
    BY <1>0, <2>1, <2>2, NeutralStep
<1>6. ASSUME DropMalformed PROVE IInv'
  <2>1. SameTables /\ TxInv'
    <3>1. (~tx => db = disk) /\ db \in Tables
      BY DEF IInv, TxInv, TypeOK, StoreOK
    <3>2. SameTables /\ (~tx' => db' = disk') /\ tx' = tx
      BY <1>6, <3>1, StatementSame DEF DropMalformed, RejectEnvelope,
         DeleteRawRow, PopThen, Pop, Tables
    <3> QED
      BY <1>6, <3>2 DEF DropMalformed, RejectEnvelope, DeleteRawRow,
         PopThen, Pop, IInv, TxInv
  <2>2. Stays
    <3>1. queue # <<>> /\ PopThen(<<>>)
      BY <1>6 DEF DropMalformed, AtHead, NewEnvelope, Acceptable,
         RejectEnvelope, Pop, IInv, HeadInv
    <3>2. <<>> \in Seq(Entry) /\ EntriesMayDelete(<<>>)
      BY <3>1, CurrentType DEF EntriesMayDelete, IInv, TypeOK, Entry
    <3>3. HoldersStay
      BY <1>6, <3>1, <3>2, PopStays DEF DropMalformed, RejectEnvelope
    <3>4. HandledStays /\ PendingStays /\ InHandStays
      BY <1>6 DEF DropMalformed, AtHead, NewEnvelope, Acceptable,
         RejectEnvelope, Report, outcome, HandledStays, PendingStays,
         InHandStays, Handled, Pending, InHand
    <3> QED
      BY <3>3, <3>4
  <2> QED
    BY <1>0, <2>1, <2>2, NeutralStep
<1>7. ASSUME RefuseEnvelope \/ LoadConversationFails \/ DecryptFails PROVE IInv'
  <2>1. SameTables /\ TxInv'
    <3>1. (~tx => db = disk) /\ db \in Tables
      BY DEF IInv, TxInv, TypeOK, StoreOK
    <3>2. SameTables /\ (~tx' => db' = disk') /\ tx' = tx
      BY <1>7, <3>1, Rejected, StatementSame DEF DeleteRawRow, Tables
    <3> QED
      BY <1>7, <3>2, Rejected DEF IInv, TxInv
  <2>2. Stays
    BY <1>7, Rejected DEF AtHead, outcome, IInv, RefsInv, EntriesMayDelete,
       HandledStays, PendingStays, InHandStays, HoldersStay, Handled,
       Pending, InHand, Current
  <2> QED
    BY <1>0, <2>1, <2>2, NeutralStep
<1>8. ASSUME ReportRejected PROVE IInv'
  <2>1. SameTables /\ TxInv'
    BY <1>8 DEF ReportRejected, Pop, PopThen, IInv, TxInv, SameTables,
       store, threads
  <2>2. Stays
    <3>1. queue # <<>> /\ PopThen(<<>>)
      BY <1>8 DEF ReportRejected, AtHead, NewEnvelope, Acceptable,
         Pop, IInv, HeadInv
    <3>2. <<>> \in Seq(Entry) /\ EntriesMayDelete(<<>>)
      BY <3>1, CurrentType DEF EntriesMayDelete, IInv, TypeOK, Entry
    <3>3. HoldersStay
      BY <1>8, <3>1, <3>2, PopStays DEF ReportRejected, RejectEnvelope
    <3>4. HandledStays /\ PendingStays /\ InHandStays
      BY <1>8 DEF ReportRejected, AtHead, NewEnvelope, Acceptable,
         Report, outcome, HandledStays, PendingStays,
         InHandStays, Handled, Pending, InHand
    <3> QED
      BY <3>3, <3>4
  <2> QED
    BY <1>0, <2>1, <2>2, NeutralStep
<1>9. ASSUME DecryptStaged PROVE IInv'
  <2>1. SameTables /\ TxInv'
    <3>1. (~tx => db = disk) /\ db \in Tables
      BY DEF IInv, TxInv, TypeOK, StoreOK
    <3>2. SameTables /\ (~tx' => db' = disk') /\ tx' = tx
      BY <1>9, <3>1, StatementSame DEF DecryptStaged, Tables
    <3> QED
      BY <1>9, <3>2 DEF DecryptStaged, IInv, TxInv
  <2>2. Stays
    BY <1>9 DEF DecryptStaged, AtHead, NewEnvelope, Acceptable, outcome,
       HandledStays, PendingStays, InHandStays, Handled, Pending, InHand,
       HoldersStay, IInv, RefsInv
  <2> QED
    BY <1>0, <2>1, <2>2, NeutralStep
<1>10. ASSUME DecryptChain PROVE IInv'
  <2>1. SameTables /\ TxInv'
    BY <1>10 DEF DecryptChain, IInv, TxInv, SameTables, store, threads
  <2>2. Stays
    BY <1>10 DEF DecryptChain, AtHead, NewEnvelope, Acceptable, outcome,
       HandledStays, PendingStays, InHandStays, Handled, Pending, InHand,
       HoldersStay, IInv, RefsInv
  <2> QED
    BY <1>0, <2>1, <2>2, NeutralStep
<1>11. ASSUME ReportUndecryptable PROVE IInv'
  <2>1. SameTables /\ TxInv'
    BY <1>11 DEF ReportUndecryptable, Pop, PopThen, IInv, TxInv, SameTables,
       store, threads
  <2>2. Stays
    <3>1. queue # <<>> /\ PopThen(<<[cmd |-> "error", seq |-> 0, msg |-> Current.msg]>>)
      BY <1>11 DEF ReportUndecryptable, AtHead, HeadInv,
         Pop, IInv, HeadInv
    <3>2. <<[cmd |-> "error", seq |-> 0, msg |-> Current.msg]>> \in Seq(Entry)
          /\ EntriesMayDelete(<<[cmd |-> "error", seq |-> 0, msg |-> Current.msg]>>)
      BY <3>1, CurrentType DEF EntriesMayDelete, IInv, TypeOK, Entry
    <3>3. HoldersStay
      BY <1>11, <3>1, <3>2, PopStays DEF ReportUndecryptable
    <3>4. HandledStays /\ PendingStays /\ InHandStays
      BY <1>11 DEF ReportUndecryptable, AtHead, HeadInv,
         Report, outcome, HandledStays, PendingStays,
         InHandStays, Handled, Pending, InHand
    <3> QED
      BY <3>3, <3>4
  <2> QED
    BY <1>0, <2>1, <2>2, NeutralStep
<1>12. ASSUME Begin PROVE IInv'
  <2>1. SameTables /\ TxInv'
    BY <1>12 DEF Begin, BeginTransaction, Goto, IInv, TxInv, SameTables
  <2>2. Stays
    BY <1>12, GotoStays DEF Begin, outcome, PendingStays, InHandStays,
       Pending, InHand
  <2> QED
    BY <1>0, <2>1, <2>2, NeutralStep
<1>13. ASSUME InsertMsgHash PROVE IInv'
  <2> USE DEF IInv
  <2>1. /\ db' = [db EXCEPT !.hash = @ \union {Current.msg}]
        /\ disk' = disk /\ tx /\ tx' = tx /\ pc = "hash" /\ pc' = "staged"
    BY <1>13 DEF InsertMsgHash, Statement, TxInv, Goto
  <2>2. /\ db'.temp = db.temp /\ db'.tempSeq = db.tempSeq
        /\ db'.hash = db.hash \union {Current.msg}
    BY <2>1 DEF TypeOK, StoreOK, Tables
  <2>3. TxInv'
    BY <2>1 DEF TxInv
  <2>4. RowsInv' /\ Rows' = Rows
    BY <2>1, <2>2 DEF RowsInv, Rows
  <2>5. HandledStays /\ HoldersStay /\ InHandStays
    BY <1>13, <2>1, GotoStays DEF InsertMsgHash, outcome, InHandStays, InHand
  <2>6. RefsInv'
    BY <2>4, <2>5, RefsStay
  <2>7. \A m \in Msgs : ~Pending(m)
    BY <2>1 DEF Pending
  <2>8. Pending(Current.msg)'
    BY <1>13 DEF InsertMsgHash, Goto, Pending, Current
  <2>9. HashInv'
    <3> SUFFICES ASSUME NEW m \in db'.hash
                 PROVE  m \in MsgsOf(db'.temp) \/ Handled(m)' \/ Pending(m)'
      BY DEF HashInv
    <3>1. CASE m \in db.hash
      BY <2>2, <2>5, <2>7, <3>1 DEF HashInv, HandledStays, TypeOK,
         StoreOK, Tables
    <3>2. CASE m = Current.msg
      BY <1>13, <3>2 DEF InsertMsgHash, Goto, Pending, Current
    <3> QED
      BY <2>2, <3>1, <3>2
  <2>10. DuplicateMeansHandled'
    BY <2>1, <2>5 DEF DuplicateMeansHandled, HandledStays, TypeOK,
       StoreOK, Tables
  <2> QED
    BY <1>0, <2>3, <2>4, <2>6, <2>9, <2>10
<1>14. ASSUME StoreStagedMks PROVE IInv'
  <2>1. SameTables /\ TxInv'
    <3>1. (~tx => db = disk) /\ db \in Tables
      BY DEF IInv, TxInv, TypeOK, StoreOK
    <3>2. SameTables /\ (~tx' => db' = disk') /\ tx' = tx
      BY <1>14, <3>1, StatementSame DEF StoreStagedMks, Tables, Goto
    <3> QED
      BY <1>14, <3>2 DEF StoreStagedMks, IInv, TxInv, Goto
  <2>2. Stays
    BY <1>14, GotoStays DEF StoreStagedMks, outcome, InHandStays, InHand
  <2> QED
    BY <1>0, <2>1, <2>2, NeutralStep
<1>15. ASSUME StoreConversation PROVE IInv'
  <2>1. SameTables /\ TxInv'
    <3>1. (~tx => db = disk) /\ db \in Tables
      BY DEF IInv, TxInv, TypeOK, StoreOK
    <3>2. SameTables /\ (~tx' => db' = disk') /\ tx' = tx
      BY <1>15, <3>1, StatementSame DEF StoreConversation, Tables, Goto
    <3> QED
      BY <1>15, <3>2 DEF StoreConversation, IInv, TxInv, Goto
  <2>2. Stays
    BY <1>15, GotoStays DEF StoreConversation, outcome, InHandStays, InHand
  <2> QED
    BY <1>0, <2>1, <2>2, NeutralStep
<1>16. ASSUME InsertTempMsg PROVE IInv'
  <2> USE DEF IInv
  <2> DEFINE new == [seq |-> db.tempSeq + 1, msg |-> Current.msg]
  <2>1. /\ db' = [db EXCEPT !.temp = @ \union {new}, !.tempSeq = @ + 1]
        /\ disk' = disk /\ tx /\ tx' = tx /\ pc = "temp" /\ pc' = "delraw"
        /\ loc'.seq = db.tempSeq + 1 /\ queue' = queue /\ app' = app
    BY <1>16 DEF InsertTempMsg, Statement, TxInv, TypeOK, ThreadsOK
  <2>2. /\ db'.temp = db.temp \union {new} /\ db'.tempSeq = db.tempSeq + 1
        /\ db'.hash = db.hash /\ db.tempSeq \in Nat /\ disk.tempSeq \in Nat
    BY <2>1 DEF TypeOK, StoreOK, Tables
  <2>3. TxInv'
    BY <2>1 DEF TxInv
  <2>4. /\ Rows' = Rows \union {new}
        /\ \A r \in Rows : r.seq \in Nat /\ r.seq <= db.tempSeq /\ r.msg \in Msgs
    BY <2>1, <2>2 DEF Rows, RowsInv, TypeOK, StoreOK, Tables, Row
  <2>5. RowsInv'
    BY <2>1, <2>2, <2>4 DEF RowsInv
  <2>6. /\ \A m : Handled(m)' = Handled(m)
        /\ \A m : ~InHand(m)
        /\ InHand(Current.msg)' /\ Current' = Current
    BY <1>16, <2>1 DEF InsertTempMsg, outcome, Handled, InHand, Current,
       HeadInv
  <2>7. ASSUME NEW q, NEW m, MayDelete(q, m) PROVE MayDelete(q, m)'
    BY <2>4, <2>6, <2>7 DEF MayDelete
  <2>8. MayDelete(loc.seq, Current.msg)'
    <3>1. \A r \in Rows : r.seq # db.tempSeq + 1
      BY <2>2, <2>4
    <3>2. \A r \in Rows' : r.seq = db.tempSeq + 1 => r.msg = Current.msg
      BY <2>4, <3>1
    <3> QED
      BY <2>1, <2>6, <3>2 DEF MayDelete
  <2>9. RefsInv'
    BY <2>1, <2>7, <2>8 DEF RefsInv, EntriesMayDelete
  <2>10. HashInv'
    <3>1. \A m \in db.hash : m \in MsgsOf(db.temp) \/ Handled(m) \/ m = Current.msg
      BY DEF HashInv, Pending
    <3>2. MsgsOf(db.temp) \subseteq MsgsOf(db'.temp) /\ Current.msg \in MsgsOf(db'.temp)
      BY <2>2 DEF MsgsOf
    <3> QED
      BY <2>2, <2>6, <3>1, <3>2 DEF HashInv
  <2>11. DuplicateMeansHandled'
    BY <2>1, <2>6 DEF DuplicateMeansHandled
  <2> QED
    BY <1>0, <2>3, <2>5, <2>9, <2>10, <2>11
<1>17. ASSUME StoreFails PROVE IInv'
  <2>1. SameTables /\ TxInv'
    BY <1>17 DEF StoreFails, SavepointLeftOpen, store, Goto, IInv, TxInv,
       SameTables
  <2>2. Stays
    BY <1>17, GotoStays DEF StoreFails, outcome, PendingStays, Pending,
       InHandStays, InHand, Goto, Current
  <2> QED
    BY <1>0, <2>1, <2>2, NeutralStep
<1>18. ASSUME Rollback PROVE IInv'
  <2> USE DEF IInv
  <2>1. db' = disk /\ disk' = disk /\ ~tx' /\ pc' \in {"idle", "receipt"}
    BY <1>18 DEF Rollback, RollbackTransaction, Pop, PopThen, Goto
  <2>2. TxInv'
    BY <2>1 DEF TxInv
  <2>3. Rows' \subseteq Rows /\ RowsInv'
    BY <2>1 DEF Rows, RowsInv, TypeOK, StoreOK, Tables
  <2>4. HandledStays
    BY <1>18 DEF Rollback, Report, outcome, HandledStays, Handled
  <2>5. RefsInv'
    <3>1. queue # <<>> /\ PopThen(<<>>)
      BY <1>18 DEF Rollback, Pop, HeadInv
    <3>2. <<>> \in Seq(Entry) /\ EntriesMayDelete(<<>>)
      BY DEF EntriesMayDelete
    <3>3. HoldersStay
      BY <1>18, <3>1, <3>2, PopStays DEF Rollback
    <3>4. InHandStays
      BY <1>18 DEF Rollback, InHandStays, InHand
    <3> QED
      BY <2>3, <2>4, <3>3, <3>4, RefsStay
  <2>6. HashInv' /\ DuplicateMeansHandled'
    BY <2>1, <2>4 DEF HashInv, DuplicateMeansHandled, HandledStays,
       TypeOK, StoreOK, Tables
  <2> QED
    BY <1>0, <2>2, <2>3, <2>5, <2>6
<1>19. ASSUME DeleteRaw PROVE IInv'
  <2>1. SameTables /\ TxInv'
    <3>1. (~tx => db = disk) /\ db \in Tables
      BY DEF IInv, TxInv, TypeOK, StoreOK
    <3>2. SameTables /\ (~tx' => db' = disk') /\ tx' = tx
      BY <1>19, <3>1, StatementSame DEF DeleteRaw, DeleteRawRow, Goto, Tables
    <3> QED
      BY <1>19, <3>2 DEF DeleteRaw, DeleteRawRow, Goto, IInv, TxInv
  <2>2. Stays
    BY <1>19, GotoStays DEF DeleteRaw, outcome, PendingStays, Pending
  <2> QED
    BY <1>0, <2>1, <2>2, NeutralStep
<1>20. ASSUME Commit PROVE IInv'
  <2> USE DEF IInv
  <2>1. /\ db' = db /\ disk' = db /\ ~tx' /\ pc = "commit" /\ pc' = "receipt"
    BY <1>20 DEF Commit, CommitTransaction, Goto
  <2>2. TxInv'
    BY <2>1 DEF TxInv
  <2>3. Rows' \subseteq Rows /\ RowsInv'
    BY <2>1 DEF Rows, RowsInv, TypeOK, StoreOK, Tables
  <2>4. HandledStays /\ HoldersStay /\ InHandStays
    BY <1>20, <2>1, GotoStays DEF Commit, outcome
  <2>5. RefsInv'
    BY <2>3, <2>4, RefsStay
  <2>6. HashInv' /\ DuplicateMeansHandled'
    BY <2>1, <2>4 DEF HashInv, DuplicateMeansHandled, HandledStays, Pending,
       TypeOK, StoreOK, Tables
  <2> QED
    BY <1>0, <2>2, <2>3, <2>5, <2>6
<1>21. ASSUME CommitFails PROVE IInv'
  <2> USE DEF IInv
  <2>1. db' = disk /\ disk' = disk /\ ~tx' /\ pc' \in {"idle", "receipt"}
    BY <1>21 DEF CommitFails, RollbackTransaction, Pop, PopThen, Goto
  <2>2. TxInv'
    BY <2>1 DEF TxInv
  <2>3. Rows' \subseteq Rows /\ RowsInv'
    BY <2>1 DEF Rows, RowsInv, TypeOK, StoreOK, Tables
  <2>4. HandledStays
    BY <1>21 DEF CommitFails, Report, outcome, HandledStays, Handled
  <2>5. RefsInv'
    <3>1. HoldersStay /\ InHandStays
      BY <1>21, GotoStays DEF CommitFails, outcome
    <3> QED
      BY <2>3, <2>4, <3>1, RefsStay
  <2>6. HashInv' /\ DuplicateMeansHandled'
    BY <2>1, <2>4 DEF HashInv, DuplicateMeansHandled, HandledStays,
       TypeOK, StoreOK, Tables
  <2> QED
    BY <1>0, <2>2, <2>3, <2>5, <2>6
<1>22. ASSUME SendDeliveryReceipt PROVE IInv'
  <2>1. SameTables /\ TxInv'
    BY <1>22 DEF SendDeliveryReceipt, IInv, TxInv, SameTables, store, threads
  <2>2. Stays
    <3> DEFINE e == [cmd |-> "receipt", seq |-> 0, msg |-> Current.msg]
    <3>1. e \in Entry
      BY <1>22, CurrentType DEF SendDeliveryReceipt, IInv, TypeOK,
         HeadInv, Entry
    <3>2. queue' = Append(queue, e) /\ e.cmd = "receipt"
      BY <1>22 DEF SendDeliveryReceipt
    <3> HIDE DEF e
    <3>3. <<e>> \in Seq(Entry) /\ queue \in Seq(Entry)
      BY <3>1 DEF IInv, TypeOK, ThreadsOK
    <3>5. queue' = queue \o <<e>>
      BY <3>2, <3>3
    <3>4. EntriesMayDelete(<<e>>)
      BY <3>2 DEF EntriesMayDelete
    <3> QED
      BY <1>22, <3>3, <3>4, <3>5, AppendStays DEF SendDeliveryReceipt,
         outcome, IInv, RefsInv
  <2> QED
    BY <1>0, <2>1, <2>2, NeutralStep
<1>23. ASSUME TakeTemp PROVE IInv'
  <2>1. SameTables /\ TxInv'
    BY <1>23 DEF TakeTemp, IInv, TxInv, SameTables, store, threads
  <2>2. Stays
    <3>1. queue # <<>> /\ queue[1] = Current /\ 1 \in DOMAIN queue
      BY <1>23 DEF TakeTemp, AtHead, Current, IInv, TypeOK, ThreadsOK
    <3>2. MayDelete(Current.seq, Current.msg)
      BY <1>23, <3>1 DEF TakeTemp, AtHead, IInv, RefsInv, EntriesMayDelete
    <3> QED
      BY <1>23, <3>2 DEF TakeTemp, AtHead, NoLocals, outcome,
         HandledStays, PendingStays, InHandStays, Handled, Pending,
         InHand, HoldersStay, IInv, RefsInv, Current
  <2> QED
    BY <1>0, <2>1, <2>2, NeutralStep
<1>24. ASSUME Deliver PROVE IInv'
  <2>1. SameTables /\ TxInv'
    BY <1>24 DEF Deliver, Goto, IInv, TxInv, SameTables, store, threads
  <2>2. Stays
    <3>1. queue # <<>> /\ Current.msg \in Msgs /\ delivered \in [Msgs -> Nat]
      BY <1>24, CurrentType DEF Deliver, IInv, HeadInv, TypeOK, OutcomeOK
    <3>2. /\ delivered'[Current.msg] > 0 /\ Current' = Current
          /\ \A m \in Msgs : delivered[m] > 0 => delivered'[m] > 0
      BY <1>24, <3>1 DEF Deliver, Goto, Current
    <3>3. HandledStays /\ PendingStays /\ InHandStays
      BY <1>24, <3>1, <3>2 DEF Deliver, HandledStays, PendingStays,
         InHandStays,
         Handled, Pending, InHand
    <3> QED
      BY <1>24, <3>2, <3>3 DEF Deliver, Goto, HoldersStay, IInv,
         RefsInv, Current
  <2> QED
    BY <1>0, <2>1, <2>2, NeutralStep
<1>25. ASSUME DeliverRejected PROVE IInv'
  <2>1. SameTables /\ TxInv'
    BY <1>25 DEF DeliverRejected, Pop, PopThen, IInv, TxInv, SameTables,
       store, threads
  <2>2. Stays
    <3>1. queue # <<>> /\ PopThen(<<>>)
      BY <1>25 DEF DeliverRejected, AtHead, NewEnvelope, Acceptable,
         RejectEnvelope, Pop, IInv, HeadInv
    <3>2. <<>> \in Seq(Entry) /\ EntriesMayDelete(<<>>)
      BY <3>1, CurrentType DEF EntriesMayDelete, IInv, TypeOK, Entry
    <3>3. HoldersStay
      BY <1>25, <3>1, <3>2, PopStays DEF DeliverRejected, RejectEnvelope
    <3>4. HandledStays /\ PendingStays /\ InHandStays
      BY <1>25 DEF DeliverRejected, AtHead, NewEnvelope, Acceptable,
         RejectEnvelope, Report, outcome, HandledStays, PendingStays,
         InHandStays, Handled, Pending, InHand
    <3> QED
      BY <3>3, <3>4
  <2> QED
    BY <1>0, <2>1, <2>2, NeutralStep
<1>26. ASSUME DeleteTemp PROVE IInv'
  <2> USE DEF IInv
  <2>1. /\ db' = [db EXCEPT !.temp = Without(@, loc.seq)] /\ tx' = tx
        /\ disk' = IF tx THEN disk ELSE db'
        /\ pc = "deltemp" /\ pc' = "idle" /\ PopThen(<<>>) /\ queue # <<>>
    BY <1>26 DEF DeleteTemp, Statement, Pop, PopThen, HeadInv
  <2>2. /\ db'.temp = Without(db.temp, loc.seq) /\ db'.hash = db.hash
        /\ db'.tempSeq = db.tempSeq
    BY <2>1 DEF TypeOK, StoreOK, Tables
  <2>3. TxInv' /\ (~tx => db = disk)
    BY <2>1 DEF TxInv
  <2>4. Rows' \subseteq Rows
    BY <2>1, <2>2, <2>3 DEF Rows, Without
  <2>5. RowsInv'
    <3>1. CASE tx
      BY <2>1, <2>2, <2>4, <3>1 DEF RowsInv
    <3>2. CASE ~tx
      BY <2>1, <2>2, <2>3, <2>4, <3>2 DEF RowsInv, Without, TypeOK,
         StoreOK, Tables
    <3> QED
      BY <3>1, <3>2
  <2>6. HandledStays /\ InHandStays
    BY <1>26, <2>1 DEF DeleteTemp, outcome, HandledStays, InHandStays,
       Handled, InHand
  <2>7. HoldersStay
    <3>1. <<>> \in Seq(Entry) /\ EntriesMayDelete(<<>>)
      BY DEF EntriesMayDelete
    <3> QED
      BY <1>26, <2>1, <3>1, PopStays DEF DeleteTemp
  <2>8. RefsInv'
    BY <2>4, <2>6, <2>7, RefsStay
  <2>9. \A r \in Rows : r.seq = loc.seq => Handled(r.msg)
    <3>1. MayDelete(loc.seq, Current.msg) /\ Handled(Current.msg)
      BY <2>1 DEF RefsInv, Handled
    <3> QED
      BY <2>1, <3>1 DEF MayDelete, InHand
  <2>10. \A m \in Msgs : m \in MsgsOf(db.temp) => m \in MsgsOf(db'.temp) \/ Handled(m)
    BY <2>2, <2>9 DEF MsgsOf, Without, Rows
  <2>11. HashInv'
    BY <2>1, <2>2, <2>6, <2>10 DEF HashInv, HandledStays, Pending, TypeOK,
       StoreOK, Tables
  <2>12. DuplicateMeansHandled'
    <3>1. CASE tx
      BY <2>1, <2>6, <3>1 DEF DuplicateMeansHandled, HandledStays,
         TypeOK, StoreOK, Tables
    <3>2. CASE ~tx
      BY <2>1, <2>11, <3>2 DEF DuplicateMeansHandled, HashInv, Pending
    <3> QED
      BY <3>1, <3>2
  <2> QED
    BY <1>0, <2>3, <2>5, <2>8, <2>11, <2>12
<1>27. ASSUME SendCommand PROVE IInv'
  <2>1. SameTables /\ TxInv'
    BY <1>27 DEF SendCommand, Pop, PopThen, IInv, TxInv, SameTables,
       store, threads
  <2>2. Stays
    <3>1. queue # <<>> /\ PopThen(<<>>)
      BY <1>27 DEF SendCommand, AtHead, NewEnvelope, Acceptable,
         RejectEnvelope, Pop, IInv, HeadInv
    <3>2. <<>> \in Seq(Entry) /\ EntriesMayDelete(<<>>)
      BY <3>1, CurrentType DEF EntriesMayDelete, IInv, TypeOK, Entry
    <3>3. HoldersStay
      BY <1>27, <3>1, <3>2, PopStays DEF SendCommand, RejectEnvelope
    <3>4. HandledStays /\ PendingStays /\ InHandStays
      BY <1>27 DEF SendCommand, AtHead, NewEnvelope, Acceptable,
         RejectEnvelope, Report, outcome, HandledStays, PendingStays,
         InHandStays, Handled, Pending, InHand
    <3> QED
      BY <3>3, <3>4
  <2> QED
    BY <1>0, <2>1, <2>2, NeutralStep
<1>28. ASSUME SendCommandFails PROVE IInv'
  <2>1. SameTables /\ TxInv'
    BY <1>28 DEF SendCommandFails, SavepointLeftOpen, Pop, PopThen, IInv,
       TxInv, SameTables
  <2>2. Stays
    <3>1. queue # <<>> /\ PopThen(<<>>)
      BY <1>28 DEF SendCommandFails, AtHead, NewEnvelope, Acceptable,
         RejectEnvelope, Pop, IInv, HeadInv
    <3>2. <<>> \in Seq(Entry) /\ EntriesMayDelete(<<>>)
      BY <3>1, CurrentType DEF EntriesMayDelete, IInv, TypeOK, Entry
    <3>3. HoldersStay
      BY <1>28, <3>1, <3>2, PopStays DEF SendCommandFails, RejectEnvelope
    <3>4. HandledStays /\ PendingStays /\ InHandStays
      BY <1>28 DEF SendCommandFails, AtHead, NewEnvelope, Acceptable,
         RejectEnvelope, Report, outcome, HandledStays, PendingStays,
         InHandStays, Handled, Pending, InHand
    <3> QED
      BY <3>3, <3>4
  <2> QED
    BY <1>0, <2>1, <2>2, NeutralStep
<1>29. ASSUME RetryLoadTemp PROVE IInv'
  <2>1. SameTables /\ TxInv'
    BY <1>29 DEF RetryLoadTemp, IInv, TxInv, SameTables, store, threads
  <2>2. Stays
    <3>1. PICK rows \in Ordered(db.temp) :
            /\ app' = [pc |-> "raw", list |-> Entries(rows, "temp")]
            /\ queue' = queue \o Entries(rows, "receipt")
      BY <1>29 DEF RetryLoadTemp
    <3> DEFINE a == Entries(rows, "temp")
               e == Entries(rows, "receipt")
    <3>2. /\ a \in Seq(Entry) /\ e \in Seq(Entry)
          /\ \A i \in DOMAIN a : \E r \in db.temp : a[i] = [cmd |-> "temp", seq |-> r.seq, msg |-> r.msg]
          /\ \A i \in DOMAIN e : \E r \in db.temp : e[i] = [cmd |-> "receipt", seq |-> r.seq, msg |-> r.msg]
      BY EntriesType DEF IInv, TypeOK, StoreOK, Tables
    <3> HIDE DEF a, e
    <3>3. EntriesMayDelete(e)
      BY <3>2 DEF EntriesMayDelete
    <3>4. \A r \in db.temp : MayDelete(r.seq, r.msg)
      BY DEF MayDelete, IInv, RowsInv, Rows
    <3>5. EntriesMayDelete(a)
      BY <3>2, <3>4 DEF EntriesMayDelete
    <3>6. queue' = queue \o e /\ app'.list = a
      BY <3>1 DEF a, e
    <3> QED
      BY <1>29, <3>2, <3>3, <3>5, <3>6, AppendStays DEF RetryLoadTemp, outcome
  <2> QED
    BY <1>0, <2>1, <2>2, NeutralStep
<1>30. ASSUME RetryLoadRaw PROVE IInv'
  <2>1. SameTables /\ TxInv'
    BY <1>30 DEF RetryLoadRaw, IInv, TxInv, SameTables, store, threads
  <2>2. Stays
    <3>1. PICK rows \in Ordered(db.raw) :
            queue' = queue \o (app.list \o Entries(rows, "raw"))
      BY <1>30 DEF RetryLoadRaw
    <3> DEFINE e == Entries(rows, "raw")
    <3>2. /\ e \in Seq(Entry)
          /\ \A i \in DOMAIN e : \E r \in db.raw : e[i] = [cmd |-> "raw", seq |-> r.seq, msg |-> r.msg]
      BY EntriesType DEF IInv, TypeOK, StoreOK, Tables
    <3> HIDE DEF e
    <3>3. EntriesMayDelete(e)
      BY <3>2 DEF EntriesMayDelete
    <3>4. app.list \in Seq(Entry) /\ app.list \o e \in Seq(Entry)
      BY <3>2 DEF IInv, TypeOK, ThreadsOK
    <3>5. EntriesMayDelete(app.list \o e)
      BY <3>2, <3>3, <3>4, QueueMayDelete DEF IInv, RefsInv
    <3>6. queue' = queue \o (app.list \o e)
      BY <3>1 DEF e
    <3>7. app'.list = <<>> /\ EntriesMayDelete(<<>>)
      BY <1>30 DEF RetryLoadRaw, EntriesMayDelete
    <3> QED
      BY <1>30, <3>4, <3>5, <3>6, <3>7, AppendStays DEF RetryLoadRaw, outcome
  <2> QED
    BY <1>0, <2>1, <2>2, NeutralStep
<1>31. ASSUME Crash PROVE IInv'
  <2> USE DEF IInv
  <2>1. db' = disk /\ disk' = disk /\ ~tx' /\ pc' \in {"idle", "receipt"}
    BY <1>31 DEF Crash, ConnectionLost, RollbackTransaction, Pop, PopThen,
       Goto
  <2>2. TxInv'
    BY <2>1 DEF TxInv
  <2>3. Rows' \subseteq Rows /\ RowsInv'
    BY <2>1 DEF Rows, RowsInv, TypeOK, StoreOK, Tables
  <2>4. HandledStays
    BY <1>31 DEF Crash, ConnectionLost, Report, outcome, HandledStays, Handled
  <2>5. RefsInv'
    BY <1>31, <2>1 DEF Crash, RefsInv, EntriesMayDelete
  <2>6. HashInv' /\ DuplicateMeansHandled'
    BY <2>1, <2>4 DEF HashInv, DuplicateMeansHandled, HandledStays,
       TypeOK, StoreOK, Tables
  <2> QED
    BY <1>0, <2>2, <2>3, <2>5, <2>6
<1>32. ASSUME UNCHANGED vars PROVE IInv'
  <2>1. SameTables /\ TxInv'
    BY <1>32 DEF vars, store, threads, IInv, TxInv, SameTables
  <2>2. Stays
    BY <1>32, QuietThread DEF vars, threads
  <2> QED
    BY <1>0, <2>1, <2>2, NeutralStep
<1> QED
  BY <1>1, <1>2, <1>3, <1>4, <1>5, <1>6, <1>7, <1>8, <1>9, <1>10, <1>11,
     <1>12, <1>13, <1>14, <1>15, <1>16, <1>17, <1>18, <1>19, <1>20, <1>21,
     <1>22, <1>23, <1>24, <1>25, <1>26, <1>27, <1>28, <1>29, <1>30,
     <1>31, <1>32
     DEF Next, Network, Process, Application

-----------------------------------------------------------------------------
(* The theorems.                                                           *)

(* The invariant holds of an empty store and idle threads.                 *)
LEMMA InitInv == Init => IInv
<1> SUFFICES ASSUME Init PROVE IInv
  OBVIOUS
<1> USE MsgsAssumption DEF Init
<1>1. Empty \in Tables /\ IsFiniteSet({})
  BY FS_EmptySet DEF Empty, Tables
<1>2. StoreOK
  BY <1>1 DEF StoreOK, Empty
<1>3. ThreadsOK /\ OutcomeOK /\ CountsOK
  BY DEF ThreadsOK, NoLocals, OutcomeOK, CountsOK, Msgs
<1>4. HeadInv /\ TxInv /\ RowsInv /\ RefsInv /\ HashInv /\ DuplicateMeansHandled
  BY DEF HeadInv, TxInv, RowsInv, Rows, RefsInv, EntriesMayDelete, HashInv,
         DuplicateMeansHandled, Empty
<1> QED
  BY <1>2, <1>3, <1>4 DEF IInv, TypeOK

(* It holds in every reachable state.                                      *)
THEOREM Invariant == Spec => []IInv
<1>1. Init => IInv
  BY InitInv
<1>2. IInv /\ [Next]_vars => IInv'
  BY InvStep
<1> QED
  BY <1>1, <1>2, PTL DEF Spec

(* Whatever the number of envelopes, faults and crashes, tables, queue and *)
(* threads have their types.                                               *)
THEOREM TypeCorrect == Spec => []TypeOK
<1>1. IInv => TypeOK
  BY DEF IInv
<1> QED
  BY <1>1, Invariant, PTL

(* Whatever the number of envelopes, faults and crashes, the committed     *)
(* hashes stand for messages that are kept or that the application knows:  *)
(* processMessageRaw drops no unseen message as a duplicate.               *)
THEOREM NoSilentDrop == Spec => []DuplicateMeansHandled
<1>1. IInv => DuplicateMeansHandled
  BY DEF IInv
<1> QED
  BY <1>1, Invariant, PTL

-----------------------------------------------------------------------------
(* Receipts, and the envelopes that were acknowledged.                     *)

Items(q) == {q[i] : i \in DOMAIN q}

LEMMA ItemsOf ==
  ASSUME NEW q \in Seq(Entry), NEW e \in Seq(Entry)
  PROVE  /\ Items(q \o e) = Items(q) \union Items(e)
         /\ q # <<>> => Items(q) = {Head(q)} \union Items(Tail(q))
         /\ Items(q) \subseteq Entry
<1>1. /\ \A i \in DOMAIN (q \o e) :
           \/ i \in DOMAIN q /\ (q \o e)[i] = q[i]
           \/ i - Len(q) \in DOMAIN e /\ (q \o e)[i] = e[i - Len(q)]
      /\ \A i \in DOMAIN q : i \in DOMAIN (q \o e) /\ (q \o e)[i] = q[i]
      /\ \A i \in DOMAIN e : i + Len(q) \in DOMAIN (q \o e) /\ (q \o e)[i + Len(q)] = e[i]
  OBVIOUS
<1>2. Items(q \o e) = Items(q) \union Items(e)
  <2>1. ASSUME NEW x \in Items(q \o e) PROVE x \in Items(q) \union Items(e)
    BY <1>1 DEF Items
  <2>2. ASSUME NEW x \in Items(q) \union Items(e) PROVE x \in Items(q \o e)
    <3>1. CASE x \in Items(q)
      <4>1. PICK i \in DOMAIN q : x = q[i]
        BY <3>1 DEF Items
      <4>2. i \in DOMAIN (q \o e) /\ (q \o e)[i] = x
        BY <1>1, <4>1
      <4> QED BY <4>2 DEF Items
    <3>2. CASE x \in Items(e)
      <4>1. PICK i \in DOMAIN e : x = e[i]
        BY <3>2 DEF Items
      <4>2. i + Len(q) \in DOMAIN (q \o e) /\ (q \o e)[i + Len(q)] = x
        BY <1>1, <4>1
      <4> QED BY <4>2 DEF Items
    <3> QED BY <3>1, <3>2
  <2> QED BY <2>1, <2>2
<1>3. ASSUME q # <<>> PROVE Items(q) = {Head(q)} \union Items(Tail(q))
  <2>0. /\ Len(q) \in Nat \ {0} /\ DOMAIN q = 1 .. Len(q)
        /\ DOMAIN Tail(q) = 1 .. (Len(q) - 1)
        /\ Head(q) = q[1]
        /\ \A i \in 1 .. (Len(q) - 1) : Tail(q)[i] = q[i + 1]
    BY <1>3
  <2>1. Head(q) = q[1] /\ 1 \in DOMAIN q
    BY <2>0
  <2>4. \A i \in DOMAIN Tail(q) : i + 1 \in DOMAIN q /\ Tail(q)[i] = q[i + 1]
    BY <2>0
  <2>5. ASSUME NEW i \in DOMAIN q, i # 1
        PROVE  i - 1 \in DOMAIN Tail(q) /\ Tail(q)[i - 1] = q[i]
    <3>1. i - 1 \in 1 .. (Len(q) - 1) /\ (i - 1) + 1 = i
      BY <2>0, <2>5
    <3> QED BY <2>0, <3>1
  <2>2. ASSUME NEW x \in Items(q) PROVE x \in {Head(q)} \union Items(Tail(q))
    BY <2>1, <2>5 DEF Items
  <2>3. ASSUME NEW x \in {Head(q)} \union Items(Tail(q)) PROVE x \in Items(q)
    BY <2>1, <2>4 DEF Items
  <2> QED BY <2>2, <2>3
<1>4. Items(q) \subseteq Entry
  BY DEF Items
<1> QED BY <1>2, <1>3, <1>4

(* A row that is committed no more, or not yet.                            *)
Kept(m) == m \in MsgsOf(disk.temp) \/ Handled(m)

GoneInv == \A r \in disk.temp \ db.temp : Handled(r.msg)
NewInv == \A r \in db.temp \ disk.temp : pc \in {"delraw", "commit"} /\ InHand(r.msg)

(* Before the first death of the process no row outlives its processing.   *)
FirstLifeInv == crashes = 0 => \A r \in Rows : Handled(r.msg) \/ InHand(r.msg)

ReceiptInv ==
  \A x \in Items(queue) : x.cmd = "receipt" => Kept(x.msg) \/ InHand(x.msg)

Waits(m) == \E x \in Items(queue) : x.cmd = "raw" /\ x.msg = m

WaitInv == crashes = 0 => \A m \in acked \ Malformed : Handled(m) \/ Waits(m)

ToldInv ==
  GoneInv /\ NewInv /\ FirstLifeInv /\ ReceiptInv /\ WaitInv /\ ReceiptIsTruthful

SameTemp == db'.temp = db.temp /\ disk'.temp = disk.temp

LEMMA StatementTemp ==
  ASSUME ~tx => db = disk, NEW new, Statement(new), new.temp = db.temp
  PROVE  SameTemp
BY DEF SameTemp, Statement

(* The messages of rows and entries are messages.                          *)
LEMMA MessagesAre ==
  ASSUME TypeOK
  PROVE  /\ \A r \in Rows : r.msg \in Msgs
         /\ \A x \in Items(queue) : x.msg \in Msgs
         /\ acked \subseteq Msgs /\ receipted \subseteq Msgs
<1>1. \A x \in Items(queue) : x \in Entry
  BY ItemsOf DEF TypeOK, ThreadsOK
<1> QED BY <1>1 DEF TypeOK, StoreOK, Tables, Row, Rows, OutcomeOK, Entry

(* What stays as it is, or comes nearer to the application.                *)
LEMMA RowsToldStay ==
  ASSUME TypeOK, GoneInv, NewInv, FirstLifeInv, SameTemp, HandledStays,
         \A m \in Msgs : InHand(m) => InHand(m)' \/ Handled(m)',
         \A r \in db.temp \ disk.temp : pc' \in {"delraw", "commit"} /\ InHand(r.msg)',
         crashes' = crashes
  PROVE  GoneInv' /\ NewInv' /\ FirstLifeInv'
<1>1. \A r \in Rows : r.msg \in Msgs
  BY MessagesAre
<1> QED BY <1>1 DEF GoneInv, NewInv, FirstLifeInv, SameTemp, HandledStays, Rows

(* The command thread goes on with the entry at the head.                  *)
LEMMA ToldGoes ==
  ASSUME TypeOK, ToldInv, SameTemp, HandledStays, InHandStays,
         \A r \in db.temp \ disk.temp : pc' \in {"delraw", "commit"} /\ InHand(r.msg)',
         UNCHANGED <<queue, acked, receipted, crashes>>
  PROVE  ToldInv'
<1>1. GoneInv' /\ NewInv' /\ FirstLifeInv'
  BY RowsToldStay DEF ToldInv, InHandStays
<1>2. \A m \in Msgs : Kept(m) => Kept(m)'
  BY DEF Kept, SameTemp, HandledStays
<1>3. ReceiptInv' /\ WaitInv' /\ ReceiptIsTruthful'
  BY <1>2, MessagesAre DEF ToldInv, ReceiptInv, WaitInv, Waits, ReceiptIsTruthful, Kept,
     SameTemp, HandledStays, InHandStays
<1> QED BY <1>1, <1>3 DEF ToldInv

(* Entries are appended.                                                   *)
LEMMA ToldAppends ==
  ASSUME TypeOK, HeadInv, ToldInv, SameTemp, NEW e \in Seq(Entry), queue' = queue \o e,
         \A x \in Items(e) : x.cmd = "receipt" => Kept(x.msg) \/ InHand(x.msg),
         \A m \in acked' : m \in acked \/ \E x \in Items(e) : x.cmd = "raw" /\ x.msg = m,
         pc' = pc \/ (pc = "receipt" /\ pc' = "deliver"),
         UNCHANGED <<delivered, reported, receipted, crashes>>
  PROVE  ToldInv'
<1>1. queue # <<>> => queue' # <<>> /\ Current' = Current
  BY DEF TypeOK, ThreadsOK, Current
<1>2. /\ \A m : Handled(m)' = Handled(m)
      /\ \A m : InHand(m) => InHand(m)'
  BY <1>1 DEF Handled, InHand, HeadInv
<1>3. \A m : Kept(m)' = Kept(m)
  BY <1>2 DEF Kept, SameTemp
<1>4. GoneInv' /\ NewInv' /\ FirstLifeInv'
  BY <1>2, RowsToldStay DEF ToldInv, NewInv, HandledStays
<1>5. Items(queue') = Items(queue) \union Items(e)
  BY ItemsOf DEF TypeOK, ThreadsOK
<1>6. ReceiptInv' /\ WaitInv'
  BY <1>2, <1>3, <1>5 DEF ToldInv, ReceiptInv, WaitInv, Waits
<1>7. ReceiptIsTruthful'
  BY <1>2 DEF ToldInv, ReceiptIsTruthful, SameTemp
<1> QED BY <1>4, <1>6, <1>7 DEF ToldInv

(* The head of the queue is popped, at the latest when the application was *)
(* told of an envelope that can be decoded.                                *)
LEMMA ToldPops ==
  ASSUME TypeOK, ToldInv, GoneInv', NewInv', FirstLifeInv',
         \A m \in Msgs : m \in MsgsOf(disk.temp) => Kept(m)',
         queue # <<>>, NEW e \in Seq(Entry),
         queue' = Tail(queue) \o e, \A x \in Items(e) : x.cmd # "receipt",
         HandledStays, InHandStays, UNCHANGED <<acked, crashes>>,
         \A m \in Msgs \ Malformed :
           Current.cmd = "raw" /\ Current.msg = m /\ crashes = 0 => Handled(m)',
         receipted' \ receipted \subseteq {m \in Msgs : Kept(m)'}
  PROVE  ToldInv'
<1>1. /\ Tail(queue) \in Seq(Entry)
      /\ Items(queue) = {Current} \union Items(Tail(queue))
      /\ Items(queue') = Items(Tail(queue)) \union Items(e)
  <2>1. queue \in Seq(Entry) /\ Tail(queue) \in Seq(Entry)
    BY DEF TypeOK, ThreadsOK
  <2> QED BY <2>1, ItemsOf DEF Current
<1>2. \A m \in Msgs : Kept(m) => Kept(m)'
  BY DEF Kept, HandledStays
<1>3. ReceiptInv'
  BY <1>1, <1>2, MessagesAre DEF ToldInv, ReceiptInv, InHandStays, Kept
<1>4. WaitInv'
  <2> SUFFICES ASSUME crashes = 0, NEW m \in acked \ Malformed PROVE Handled(m)' \/ Waits(m)'
    BY DEF WaitInv
  <2>1. m \in Msgs
    BY MessagesAre
  <2>2. CASE Handled(m)
    BY <2>1, <2>2 DEF HandledStays
  <2>3. CASE Waits(m)
    <3>1. PICK x \in Items(queue) : x.cmd = "raw" /\ x.msg = m
      BY <2>3 DEF Waits
    <3>2. CASE x = Current
      BY <2>1, <3>1, <3>2
    <3>3. CASE x # Current
      BY <1>1, <3>1, <3>3 DEF Waits
    <3> QED BY <3>2, <3>3
  <2> QED BY <2>2, <2>3 DEF ToldInv, WaitInv
<1>5. ReceiptIsTruthful'
  <2>1. \A m \in receipted' : Kept(m)'
    BY <1>2, MessagesAre DEF ToldInv, ReceiptIsTruthful, Kept
  <2> QED BY <2>1 DEF ReceiptIsTruthful, Kept
<1> QED BY <1>3, <1>4, <1>5 DEF ToldInv

(* Only entries of TempMsg wait in the list of the application thread.     *)
ListInv == \A x \in Items(app.list) : x.cmd = "temp"

LEMMA ListStep == TypeOK /\ ListInv /\ [Next]_vars => ListInv'
<1> SUFFICES ASSUME TypeOK, ListInv, [Next]_vars PROVE ListInv'
  OBVIOUS
<1>1. ASSUME RetryLoadTemp PROVE ListInv'
  <2>1. PICK rows \in Ordered(db.temp) : app' = [pc |-> "raw", list |-> Entries(rows, "temp")]
    BY <1>1 DEF RetryLoadTemp
  <2>2. \A i \in DOMAIN Entries(rows, "temp") : Entries(rows, "temp")[i].cmd = "temp"
    BY EntriesType DEF TypeOK, StoreOK, Tables
  <2> QED
    BY <2>1, <2>2 DEF ListInv, Items
<1>2. ASSUME RetryLoadRaw \/ Crash PROVE ListInv'
  <2>1. app' = [pc |-> "idle", list |-> <<>>]
    BY <1>2 DEF RetryLoadRaw, Crash
  <2> QED
    BY <2>1 DEF ListInv, Items
<1>3. ASSUME app' = app PROVE ListInv'
  BY <1>3 DEF ListInv
<1>4. CASE Network
  BY <1>3, <1>4 DEF Network, ReceiveInsert, ReceiveInsertFails, ReceiveGetSequence,
     ReceiveEnqueue, threads
<1>5. CASE Process
  BY <1>3, <1>5 DEF Process, DropDuplicate, DropMalformed, RefuseEnvelope,
     LoadConversationFails, DecryptStaged, DecryptChain, DecryptFails, RejectEnvelope,
     ReportRejected, ReportUndecryptable, Begin, InsertMsgHash, StoreStagedMks,
     StoreConversation, InsertTempMsg, StoreFails,
     Rollback, DeleteRaw, Commit, CommitFails, SendDeliveryReceipt, TakeTemp, Deliver,
     DeliverRejected, DeleteTemp, SendCommand, SendCommandFails
<1>6. CASE UNCHANGED vars
  BY <1>3, <1>6 DEF vars, threads
<1> QED
  BY <1>1, <1>2, <1>4, <1>5, <1>6 DEF Next, Application

(* Every step of every thread keeps it.                                    *)
LEMMA ToldStep == IInv /\ ListInv /\ ToldInv /\ [Next]_vars => ToldInv'
<1> SUFFICES ASSUME IInv, ListInv, ToldInv, [Next]_vars PROVE ToldInv'
  OBVIOUS
<1>0. /\ TypeOK /\ HeadInv /\ (~tx => db = disk)
      /\ db \in Tables /\ queue \in Seq(Entry)
  BY DEF IInv, TxInv, TypeOK, StoreOK, ThreadsOK
<1>a. <<>> \in Seq(Entry) /\ Items(<<>>) = {} /\ queue \o <<>> = queue
  BY <1>0 DEF Items
<1>1. ASSUME NEW m \in Msgs, ReceiveInsert(m) PROVE ToldInv'
  <2>1. SameTemp
    BY <1>0, <1>1, StatementTemp DEF ReceiveInsert, store, threads, SameTemp, Tables
  <2> QED
    BY <1>0, <1>a, <1>1, <2>1, ToldAppends DEF ReceiveInsert, threads, outcome, counts
<1>2. ASSUME ReceiveInsertFails PROVE ToldInv'
  <2>1. SameTemp
    BY <1>0, <1>2, StatementTemp DEF ReceiveInsertFails, store, threads, SameTemp, Tables
  <2> QED
    BY <1>0, <1>a, <1>2, <2>1, ToldAppends DEF ReceiveInsertFails, threads, outcome,
       counts
<1>3. ASSUME ReceiveGetSequence PROVE ToldInv'
  <2>1. SameTemp
    BY <1>0, <1>3, StatementTemp DEF ReceiveGetSequence, store, threads, SameTemp, Tables
  <2> QED
    BY <1>0, <1>a, <1>3, <2>1, ToldAppends DEF ReceiveGetSequence, threads, outcome,
       counts
<1>4. ASSUME ReceiveEnqueue PROVE ToldInv'
  <2> DEFINE x == [cmd |-> "raw", seq |-> net.seq, msg |-> net.msg]
  <2>1. x \in Entry /\ x.cmd = "raw" /\ x.msg = net.msg
    BY <1>0 DEF Entry, TypeOK, ThreadsOK
  <2>2. queue' = Append(queue, x) /\ acked' = acked \union {net.msg}
    BY <1>4 DEF ReceiveEnqueue
  <2> HIDE DEF x
  <2>3. queue' = queue \o <<x>> /\ <<x>> \in Seq(Entry) /\ Items(<<x>>) = {x}
    BY <1>0, <2>1, <2>2 DEF Items
  <2> QED
    BY <1>0, <1>4, <2>1, <2>2, <2>3, ToldAppends DEF ReceiveEnqueue, SameTemp, store,
       counts
<1>5. ASSUME DropDuplicate PROVE ToldInv'
  <2>1. SameTemp
    BY <1>0, <1>5, StatementTemp DEF DropDuplicate, RejectEnvelope, DeleteRawRow,
       SavepointLeftOpen, SameTemp, store, Tables
  <2>2. queue # <<>> /\ queue' = Tail(queue) \o <<>>
    BY <1>0, <1>5 DEF DropDuplicate, RejectEnvelope, Pop, PopThen, AtHead, NewEnvelope,
       Acceptable, HeadInv
  <2>3. HandledStays /\ InHandStays
    BY <1>5 DEF DropDuplicate, RejectEnvelope, Report, AtHead, NewEnvelope, Acceptable,
       outcome, HandledStays, InHandStays, Handled, InHand
  <2>4. \A r \in db.temp \ disk.temp : FALSE
    BY <1>5 DEF DropDuplicate, NewInv, ToldInv, InHand, AtHead, NewEnvelope, Acceptable
  <2>5. GoneInv' /\ NewInv' /\ FirstLifeInv'
    BY <1>0, <1>5, <2>1, <2>3, <2>4, RowsToldStay DEF DropDuplicate, InHandStays, ToldInv,
       outcome, counts, Fault, Report, RejectEnvelope
  <2>6. \A m \in Msgs : m \in MsgsOf(disk.temp) => Kept(m)'
    BY <2>1 DEF SameTemp, Kept
  <2>7. UNCHANGED <<acked, crashes>>
    BY <1>5 DEF DropDuplicate, RejectEnvelope, Report, outcome, counts, Fault
  <2>8. receipted' = receipted
    BY <1>5 DEF DropDuplicate, RejectEnvelope, Report, outcome
  <2>9. \A m \in Msgs \ Malformed :
          Current.cmd = "raw" /\ Current.msg = m /\ crashes = 0 => Handled(m)'
    <3>1. ASSUME Current.msg \in Msgs, crashes = 0 PROVE Handled(Current.msg)
      <4>1. Current.msg \in MsgsOf(db.temp) \/ Handled(Current.msg)
        BY <1>5, <3>1 DEF DropDuplicate, AtHead, IInv, HashInv, Pending
      <4> QED
        BY <1>5, <3>1, <4>1 DEF DropDuplicate, AtHead, ToldInv, FirstLifeInv, Rows,
           MsgsOf, InHand
    <3> QED BY <2>3, <3>1 DEF HandledStays
  <2> QED
    BY <1>0, <1>a, <2>2, <2>3, <2>5, <2>6, <2>7, <2>8, <2>9, ToldPops
<1>6. ASSUME DropMalformed PROVE ToldInv'
  <2>1. SameTemp
    BY <1>0, <1>6, StatementTemp DEF DropMalformed, RejectEnvelope, DeleteRawRow,
       SavepointLeftOpen, SameTemp, store, Tables
  <2>2. queue # <<>> /\ queue' = Tail(queue) \o <<>>
    BY <1>0, <1>6 DEF DropMalformed, RejectEnvelope, Pop, PopThen, AtHead, NewEnvelope,
       Acceptable, HeadInv
  <2>3. HandledStays /\ InHandStays
    BY <1>6 DEF DropMalformed, RejectEnvelope, Report, AtHead, NewEnvelope, Acceptable,
       outcome, HandledStays, InHandStays, Handled, InHand
  <2>4. \A r \in db.temp \ disk.temp : FALSE
    BY <1>6 DEF DropMalformed, NewInv, ToldInv, InHand, AtHead, NewEnvelope, Acceptable
  <2>5. GoneInv' /\ NewInv' /\ FirstLifeInv'
    BY <1>0, <1>6, <2>1, <2>3, <2>4, RowsToldStay DEF DropMalformed, InHandStays, ToldInv,
       outcome, counts, Fault, Report, RejectEnvelope
  <2>6. \A m \in Msgs : m \in MsgsOf(disk.temp) => Kept(m)'
    BY <2>1 DEF SameTemp, Kept
  <2>7. UNCHANGED <<acked, crashes>>
    BY <1>6 DEF DropMalformed, RejectEnvelope, Report, outcome, counts, Fault
  <2>8. receipted' = receipted
    BY <1>6 DEF DropMalformed, RejectEnvelope, Report, outcome
  <2>9. \A m \in Msgs \ Malformed :
          Current.cmd = "raw" /\ Current.msg = m /\ crashes = 0 => Handled(m)'
    BY <1>6 DEF DropMalformed
  <2> QED
    BY <1>0, <1>a, <2>2, <2>3, <2>5, <2>6, <2>7, <2>8, <2>9, ToldPops
<1>7. ASSUME RefuseEnvelope \/ LoadConversationFails \/ DecryptFails PROVE ToldInv'
  <2>1. SameTemp
    BY <1>0, <1>7, Rejected, StatementTemp DEF DeleteRawRow, SameTemp, Tables
  <2>2. HandledStays /\ InHandStays
    BY <1>7, Rejected DEF AtHead, outcome, HandledStays, InHandStays, Handled, InHand,
       Current
  <2>3. \A r \in db.temp \ disk.temp : FALSE
    BY <1>7, Rejected DEF AtHead, ToldInv, NewInv, InHand
  <2> QED
    BY <1>0, <1>7, <2>1, <2>2, <2>3, Rejected, ToldGoes DEF outcome
<1>8. ASSUME ReportRejected PROVE ToldInv'
  <2>1. SameTemp
    BY <1>0, <1>8, StatementTemp DEF ReportRejected, DeleteRawRow,
       SavepointLeftOpen, SameTemp, store, Tables
  <2>2. queue # <<>> /\ queue' = Tail(queue) \o <<>>
    BY <1>0, <1>8 DEF ReportRejected, Pop, PopThen, AtHead, NewEnvelope,
       Acceptable, HeadInv
  <2>3. HandledStays /\ InHandStays
    BY <1>8 DEF ReportRejected, Report, AtHead, NewEnvelope, Acceptable,
       outcome, HandledStays, InHandStays, Handled, InHand
  <2>4. \A r \in db.temp \ disk.temp : FALSE
    BY <1>8 DEF ReportRejected, NewInv, ToldInv, InHand, AtHead, NewEnvelope, Acceptable
  <2>5. GoneInv' /\ NewInv' /\ FirstLifeInv'
    BY <1>0, <1>8, <2>1, <2>3, <2>4, RowsToldStay DEF ReportRejected, InHandStays,
       ToldInv, outcome, counts, Fault, Report, RejectEnvelope
  <2>6. \A m \in Msgs : m \in MsgsOf(disk.temp) => Kept(m)'
    BY <2>1 DEF SameTemp, Kept
  <2>7. UNCHANGED <<acked, crashes>>
    BY <1>8 DEF ReportRejected, Report, outcome, counts, Fault
  <2>8. receipted' = receipted
    BY <1>8 DEF ReportRejected, Report, outcome
  <2>9. \A m \in Msgs \ Malformed :
          Current.cmd = "raw" /\ Current.msg = m /\ crashes = 0 => Handled(m)'
    BY <1>8 DEF ReportRejected, Report, Handled
  <2> QED
    BY <1>0, <1>a, <2>2, <2>3, <2>5, <2>6, <2>7, <2>8, <2>9, ToldPops
<1>9. ASSUME DecryptStaged PROVE ToldInv'
  <2>1. SameTemp
    BY <1>0, <1>9, StatementTemp DEF DecryptStaged, BeginTransaction, DeleteRawRow,
       SavepointLeftOpen, SameTemp, store, Tables
  <2>2. HandledStays /\ InHandStays
    BY <1>9 DEF DecryptStaged, Goto, AtHead, NewEnvelope, Acceptable, outcome,
       HandledStays, InHandStays, Handled, InHand, Current
  <2>3. \A r \in db.temp \ disk.temp : pc' \in {"delraw", "commit"} /\ InHand(r.msg)'
    BY <1>9 DEF DecryptStaged, Goto, AtHead, NewEnvelope, Acceptable, ToldInv, NewInv,
       InHand, Current
  <2> QED
    BY <1>0, <1>9, <2>1, <2>2, <2>3, ToldGoes DEF DecryptStaged, Goto, outcome, counts,
       Fault
<1>10. ASSUME DecryptChain PROVE ToldInv'
  <2>1. SameTemp
    BY <1>0, <1>10, StatementTemp DEF DecryptChain, BeginTransaction, DeleteRawRow,
       SavepointLeftOpen, SameTemp, store, Tables
  <2>2. HandledStays /\ InHandStays
    BY <1>10 DEF DecryptChain, Goto, AtHead, NewEnvelope, Acceptable, outcome,
       HandledStays, InHandStays, Handled, InHand, Current
  <2>3. \A r \in db.temp \ disk.temp : pc' \in {"delraw", "commit"} /\ InHand(r.msg)'
    BY <1>10 DEF DecryptChain, Goto, AtHead, NewEnvelope, Acceptable, ToldInv, NewInv,
       InHand, Current
  <2> QED
    BY <1>0, <1>10, <2>1, <2>2, <2>3, ToldGoes DEF DecryptChain, Goto, outcome, counts,
       Fault
<1>11. ASSUME ReportUndecryptable PROVE ToldInv'
  <2>1. SameTemp
    BY <1>0, <1>11, StatementTemp DEF ReportUndecryptable, DeleteRawRow,
       SavepointLeftOpen, SameTemp, store, Tables
  <2>2. /\ queue # <<>>
        /\ queue' = Tail(queue) \o <<[cmd |-> "error", seq |-> 0, msg |-> Current.msg]>>
    BY <1>0, <1>11 DEF ReportUndecryptable, Pop, PopThen, AtHead, HeadInv, HeadInv
  <2>3. HandledStays /\ InHandStays
    BY <1>11 DEF ReportUndecryptable, Report, AtHead, HeadInv,
       outcome, HandledStays, InHandStays, Handled, InHand
  <2>4. \A r \in db.temp \ disk.temp : FALSE
    BY <1>11 DEF ReportUndecryptable, NewInv, ToldInv, InHand, AtHead, HeadInv
  <2>5. GoneInv' /\ NewInv' /\ FirstLifeInv'
    BY <1>0, <1>11, <2>1, <2>3, <2>4, RowsToldStay DEF ReportUndecryptable, InHandStays, ToldInv,
       outcome, counts, Fault, Report
  <2>6. \A m \in Msgs : m \in MsgsOf(disk.temp) => Kept(m)'
    BY <2>1 DEF SameTemp, Kept
  <2>7. UNCHANGED <<acked, crashes>>
    BY <1>11 DEF ReportUndecryptable, Report, outcome, counts, Fault
  <2>8. receipted' = receipted
    BY <1>11 DEF ReportUndecryptable, Report
  <2>9. \A m \in Msgs : Current.cmd = "raw" /\ Current.msg = m => Handled(m)'
    BY <1>11 DEF ReportUndecryptable, Report, Handled
  <2>10. PICK e \in Seq(Entry) :
           queue' = Tail(queue) \o e /\ \A x \in Items(e) : x.cmd # "receipt"
    <3> DEFINE x == [cmd |-> "error", seq |-> 0, msg |-> Current.msg]
    <3>1. x \in Entry /\ x.cmd = "error"
      BY <1>0, <2>2, CurrentType DEF Entry, TypeOK
    <3>2. queue' = Tail(queue) \o <<x>>
      BY <2>2
    <3> HIDE DEF x
    <3>3. <<x>> \in Seq(Entry) /\ Items(<<x>>) = {x}
      BY <3>1 DEF Items
    <3> QED BY <3>1, <3>2, <3>3
  <2> QED
    BY <1>0, <2>2, <2>3, <2>5, <2>6, <2>7, <2>8, <2>9, <2>10, ToldPops
<1>12. ASSUME Begin PROVE ToldInv'
  <2>1. SameTemp
    BY <1>0, <1>12, StatementTemp DEF Begin, BeginTransaction, DeleteRawRow,
       SavepointLeftOpen, SameTemp, store, Tables
  <2>2. HandledStays /\ InHandStays
    BY <1>12 DEF Begin, Goto, outcome, HandledStays, InHandStays, Handled, InHand, Current
  <2>3. \A r \in db.temp \ disk.temp : pc' \in {"delraw", "commit"} /\ InHand(r.msg)'
    BY <1>12 DEF Begin, Goto, ToldInv, NewInv, InHand, Current
  <2> QED
    BY <1>0, <1>12, <2>1, <2>2, <2>3, ToldGoes DEF Begin, Goto, outcome, counts, Fault
<1>13. ASSUME InsertMsgHash PROVE ToldInv'
  <2>1. SameTemp
    BY <1>0, <1>13, StatementTemp DEF InsertMsgHash, BeginTransaction, DeleteRawRow,
       SavepointLeftOpen, SameTemp, store, Tables
  <2>2. HandledStays /\ InHandStays
    BY <1>13 DEF InsertMsgHash, Goto, outcome, HandledStays, InHandStays, Handled, InHand,
       Current
  <2>3. \A r \in db.temp \ disk.temp : pc' \in {"delraw", "commit"} /\ InHand(r.msg)'
    BY <1>13 DEF InsertMsgHash, Goto, ToldInv, NewInv, InHand, Current
  <2> QED
    BY <1>0, <1>13, <2>1, <2>2, <2>3, ToldGoes DEF InsertMsgHash, Goto, outcome, counts,
       Fault
<1>14. ASSUME StoreStagedMks PROVE ToldInv'
  <2>1. SameTemp
    BY <1>0, <1>14, StatementTemp DEF StoreStagedMks, BeginTransaction, DeleteRawRow,
       SavepointLeftOpen, SameTemp, store, Tables
  <2>2. HandledStays /\ InHandStays
    BY <1>14 DEF StoreStagedMks, Goto, outcome, HandledStays, InHandStays, Handled,
       InHand, Current
  <2>3. \A r \in db.temp \ disk.temp : pc' \in {"delraw", "commit"} /\ InHand(r.msg)'
    BY <1>14 DEF StoreStagedMks, Goto, ToldInv, NewInv, InHand, Current
  <2> QED
    BY <1>0, <1>14, <2>1, <2>2, <2>3, ToldGoes DEF StoreStagedMks, Goto, outcome, counts,
       Fault
<1>15. ASSUME StoreConversation PROVE ToldInv'
  <2>1. SameTemp
    BY <1>0, <1>15, StatementTemp DEF StoreConversation, BeginTransaction, DeleteRawRow,
       SavepointLeftOpen, SameTemp, store, Tables
  <2>2. HandledStays /\ InHandStays
    BY <1>15 DEF StoreConversation, Goto, outcome, HandledStays, InHandStays, Handled,
       InHand, Current
  <2>3. \A r \in db.temp \ disk.temp : pc' \in {"delraw", "commit"} /\ InHand(r.msg)'
    BY <1>15 DEF StoreConversation, Goto, ToldInv, NewInv, InHand, Current
  <2> QED
    BY <1>0, <1>15, <2>1, <2>2, <2>3, ToldGoes DEF StoreConversation, Goto, outcome,
       counts, Fault
<1>16. ASSUME InsertTempMsg PROVE ToldInv'
  <2> DEFINE new == [seq |-> db.tempSeq + 1, msg |-> Current.msg]
  <2>1. /\ tx /\ pc = "temp" /\ pc' = "delraw" /\ disk' = disk /\ UNCHANGED <<queue, outcome>>
        /\ db'.temp = db.temp \union {new} /\ crashes' = crashes
    BY <1>0, <1>16 DEF InsertTempMsg, Statement, IInv, TxInv, Tables, counts
  <2>2. /\ \A m : Handled(m)' = Handled(m)
        /\ \A m : ~InHand(m) /\ (InHand(m)' <=> m = Current.msg)
    BY <1>0, <2>1 DEF outcome, Handled, InHand, Current, HeadInv
  <2>3. new.msg = Current.msg
    OBVIOUS
  <2> HIDE DEF new
  <2>4. GoneInv'
    BY <2>1, <2>2 DEF ToldInv, GoneInv
  <2>5. NewInv'
    BY <2>1, <2>2, <2>3 DEF ToldInv, NewInv
  <2>6. FirstLifeInv'
    BY <2>1, <2>2, <2>3 DEF ToldInv, FirstLifeInv, Rows
  <2>7. ReceiptInv' /\ WaitInv' /\ ReceiptIsTruthful'
    BY <2>1, <2>2 DEF ToldInv, ReceiptInv, WaitInv, Waits, ReceiptIsTruthful, Kept,
       outcome
  <2> QED
    BY <2>4, <2>5, <2>6, <2>7 DEF ToldInv
<1>17. ASSUME StoreFails PROVE ToldInv'
  <2>1. SameTemp
    BY <1>0, <1>17, StatementTemp DEF StoreFails, BeginTransaction, DeleteRawRow,
       SavepointLeftOpen, SameTemp, store, Tables
  <2>2. HandledStays /\ InHandStays
    BY <1>17 DEF StoreFails, Goto, outcome, HandledStays, InHandStays, Handled, InHand,
       Current
  <2>3. \A r \in db.temp \ disk.temp : pc' \in {"delraw", "commit"} /\ InHand(r.msg)'
    BY <1>17 DEF StoreFails, Goto, ToldInv, NewInv, InHand, Current
  <2> QED
    BY <1>0, <1>17, <2>1, <2>2, <2>3, ToldGoes DEF StoreFails, Goto, outcome, counts,
       Fault
<1>18. ASSUME Rollback PROVE ToldInv'
  <2>1. db' = disk /\ disk' = disk
    BY <1>18 DEF Rollback, RollbackTransaction
  <2>2. queue # <<>> /\ queue' = Tail(queue) \o <<>>
    BY <1>0, <1>18 DEF Rollback, Pop, PopThen, HeadInv
  <2>3. HandledStays /\ InHandStays
    BY <1>18 DEF Rollback, Report, HandledStays, InHandStays, Handled, InHand
  <2>4. UNCHANGED <<acked, crashes, receipted>>
    BY <1>18 DEF Rollback, Report, counts
  <2>5. GoneInv' /\ NewInv' /\ FirstLifeInv'
    <3>1. \A m \in Msgs : InHand(m) => Handled(m)'
      BY <1>18 DEF Rollback, InHand
    <3> QED
      BY <1>0, <2>1, <2>3, <2>4, <3>1, MessagesAre DEF GoneInv, NewInv, ToldInv,
         FirstLifeInv, Rows, HandledStays
  <2>6. \A m \in Msgs : m \in MsgsOf(disk.temp) => Kept(m)'
    BY <2>1 DEF Kept
  <2>7. \A m \in Msgs : Current.msg = m => Handled(m)'
    BY <1>18 DEF Rollback, Report, Handled
  <2> QED
    BY <1>0, <1>a, <2>2, <2>3, <2>4, <2>5, <2>6, <2>7, ToldPops
<1>19. ASSUME DeleteRaw PROVE ToldInv'
  <2>1. SameTemp
    BY <1>0, <1>19, StatementTemp DEF DeleteRaw, BeginTransaction, DeleteRawRow,
       SavepointLeftOpen, SameTemp, store, Tables
  <2>2. HandledStays /\ InHandStays
    BY <1>19 DEF DeleteRaw, Goto, outcome, HandledStays, InHandStays, Handled, InHand,
       Current
  <2>3. \A r \in db.temp \ disk.temp : pc' \in {"delraw", "commit"} /\ InHand(r.msg)'
    BY <1>19 DEF DeleteRaw, Goto, ToldInv, NewInv, InHand, Current
  <2> QED
    BY <1>0, <1>19, <2>1, <2>2, <2>3, ToldGoes DEF DeleteRaw, Goto, outcome, counts, Fault
<1>20. ASSUME Commit PROVE ToldInv'
  <2>1. db' = db /\ disk' = db /\ UNCHANGED <<queue, outcome, crashes>>
        /\ pc = "commit" /\ pc' = "receipt"
    BY <1>20 DEF Commit, CommitTransaction, Goto, counts, Fault
  <2>2. /\ \A m : Handled(m)' = Handled(m)
        /\ \A m : InHand(m)' = InHand(m)
    BY <2>1 DEF outcome, Handled, InHand, Current
  <2>3. GoneInv' /\ NewInv'
    BY <2>1 DEF GoneInv, NewInv
  <2>4. FirstLifeInv'
    BY <2>1, <2>2 DEF ToldInv, FirstLifeInv, Rows
  <2>5. \A m : m \in MsgsOf(disk.temp) => Kept(m)'
    BY <2>1, <2>2 DEF ToldInv, GoneInv, Kept, MsgsOf
  <2>6. ReceiptInv' /\ WaitInv' /\ ReceiptIsTruthful'
    <3>1. \A m : Kept(m) => Kept(m)'
      BY <2>2, <2>5 DEF Kept
    <3> QED
      BY <2>1, <2>2, <3>1 DEF ToldInv, ReceiptInv, WaitInv, Waits, ReceiptIsTruthful,
         Kept, outcome
  <2> QED
    BY <2>3, <2>4, <2>6 DEF ToldInv
<1>21. ASSUME CommitFails PROVE ToldInv'
  <2>1. db' = disk /\ disk' = disk /\ UNCHANGED <<queue, outcome, crashes>>
        /\ pc = "commit" /\ pc' = "receipt"
    BY <1>21 DEF CommitFails, RollbackTransaction, Goto, counts, Fault
  <2>2. /\ \A m : Handled(m)' = Handled(m)
        /\ \A m : InHand(m)' = InHand(m)
    BY <2>1 DEF outcome, Handled, InHand, Current
  <2>3. GoneInv' /\ NewInv'
    BY <2>1 DEF GoneInv, NewInv
  <2>4. FirstLifeInv'
    BY <2>1, <2>2 DEF ToldInv, FirstLifeInv, Rows
  <2>5. \A m : m \in MsgsOf(disk.temp) => Kept(m)'
    BY <2>1, <2>2 DEF ToldInv, GoneInv, Kept, MsgsOf
  <2>6. ReceiptInv' /\ WaitInv' /\ ReceiptIsTruthful'
    <3>1. \A m : Kept(m) => Kept(m)'
      BY <2>2, <2>5 DEF Kept
    <3> QED
      BY <2>1, <2>2, <3>1 DEF ToldInv, ReceiptInv, WaitInv, Waits, ReceiptIsTruthful,
         Kept, outcome
  <2> QED
    BY <2>3, <2>4, <2>6 DEF ToldInv
<1>22. ASSUME SendDeliveryReceipt PROVE ToldInv'
  <2> DEFINE x == [cmd |-> "receipt", seq |-> 0, msg |-> Current.msg]
  <2>1. x \in Entry /\ x.cmd = "receipt" /\ x.msg = Current.msg
    BY <1>0, <1>22, CurrentType DEF SendDeliveryReceipt, HeadInv, TypeOK, Entry
  <2>2. queue' = Append(queue, x)
    BY <1>22 DEF SendDeliveryReceipt
  <2> HIDE DEF x
  <2>3. queue' = queue \o <<x>> /\ <<x>> \in Seq(Entry) /\ Items(<<x>>) = {x}
    BY <1>0, <2>1, <2>2 DEF Items
  <2>4. InHand(Current.msg)
    BY <1>0, <1>22 DEF SendDeliveryReceipt, InHand, HeadInv
  <2> QED
    BY <1>0, <1>22, <2>1, <2>3, <2>4, ToldAppends DEF SendDeliveryReceipt, SameTemp,
       store, outcome, counts
<1>23. ASSUME TakeTemp PROVE ToldInv'
  <2>1. SameTemp
    BY <1>0, <1>23, StatementTemp DEF TakeTemp, BeginTransaction, DeleteRawRow,
       SavepointLeftOpen, SameTemp, store, Tables
  <2>2. HandledStays /\ InHandStays
    BY <1>23 DEF TakeTemp, Goto, AtHead, NewEnvelope, Acceptable, outcome, HandledStays,
       InHandStays, Handled, InHand, Current
  <2>3. \A r \in db.temp \ disk.temp : pc' \in {"delraw", "commit"} /\ InHand(r.msg)'
    BY <1>23 DEF TakeTemp, Goto, AtHead, NewEnvelope, Acceptable, ToldInv, NewInv, InHand,
       Current
  <2> QED
    BY <1>0, <1>23, <2>1, <2>2, <2>3, ToldGoes DEF TakeTemp, Goto, outcome, counts, Fault
<1>24. ASSUME Deliver PROVE ToldInv'
  <2>1. SameTemp
    BY <1>0, <1>24, StatementTemp DEF Deliver, BeginTransaction, DeleteRawRow,
       SavepointLeftOpen, SameTemp, store, Tables
  <2>2. HandledStays /\ InHandStays
    BY <1>0, <1>24 DEF Deliver, Goto, OutcomeOK, TypeOK, outcome, HandledStays,
       InHandStays, Handled, InHand, Current
  <2>3. \A r \in db.temp \ disk.temp : pc' \in {"delraw", "commit"} /\ InHand(r.msg)'
    BY <1>24 DEF Deliver, Goto, OutcomeOK, TypeOK, ToldInv, NewInv, InHand, Current
  <2> QED
    BY <1>0, <1>24, <2>1, <2>2, <2>3, ToldGoes DEF Deliver, Goto, outcome, counts, Fault
<1>25. ASSUME DeliverRejected PROVE ToldInv'
  <2>1. SameTemp
    BY <1>0, <1>25, StatementTemp DEF DeliverRejected, RejectEnvelope, DeleteRawRow,
       SavepointLeftOpen, SameTemp, store, Tables
  <2>2. queue # <<>> /\ queue' = Tail(queue) \o <<>>
    BY <1>0, <1>25 DEF DeliverRejected, RejectEnvelope, Pop, PopThen, AtHead, NewEnvelope,
       Acceptable, HeadInv
  <2>3. HandledStays /\ InHandStays
    BY <1>25 DEF DeliverRejected, RejectEnvelope, Report, AtHead, NewEnvelope, Acceptable,
       outcome, HandledStays, InHandStays, Handled, InHand
  <2>4. \A r \in db.temp \ disk.temp : FALSE
    BY <1>25 DEF DeliverRejected, NewInv, ToldInv, InHand, AtHead, NewEnvelope, Acceptable
  <2>5. GoneInv' /\ NewInv' /\ FirstLifeInv'
    BY <1>0, <1>25, <2>1, <2>3, <2>4, RowsToldStay DEF DeliverRejected, InHandStays,
       ToldInv, outcome, counts, Fault, Report, RejectEnvelope
  <2>6. \A m \in Msgs : m \in MsgsOf(disk.temp) => Kept(m)'
    BY <2>1 DEF SameTemp, Kept
  <2>7. UNCHANGED <<acked, crashes>>
    BY <1>25 DEF DeliverRejected, RejectEnvelope, Report, outcome, counts, Fault
  <2>8. receipted' = receipted
    BY <1>25 DEF DeliverRejected, RejectEnvelope, Report, outcome
  <2>9. \A m \in Msgs \ Malformed :
          Current.cmd = "raw" /\ Current.msg = m /\ crashes = 0 => Handled(m)'
    BY <1>25 DEF DeliverRejected, Report, Handled
  <2> QED
    BY <1>0, <1>a, <2>2, <2>3, <2>5, <2>6, <2>7, <2>8, <2>9, ToldPops
<1>26. ASSUME DeleteTemp PROVE ToldInv'
  <2>1. /\ db' = [db EXCEPT !.temp = Without(@, loc.seq)]
        /\ disk' = IF tx THEN disk ELSE db'
        /\ pc = "deltemp" /\ UNCHANGED <<outcome, crashes>>
    BY <1>26 DEF DeleteTemp, Statement, counts
  <2>2. db'.temp = Without(db.temp, loc.seq)
    BY <1>0, <2>1 DEF Tables
  <2>3. queue # <<>> /\ queue' = Tail(queue) \o <<>> /\ pc' = "idle"
    BY <1>0, <1>26 DEF DeleteTemp, Pop, PopThen, HeadInv
  <2>4. /\ \A m : Handled(m)' = Handled(m)
        /\ \A m : ~InHand(m)
        /\ Handled(Current.msg)
    BY <2>1 DEF outcome, Handled, InHand, IInv, RefsInv
  <2>5. \A r \in Rows : r.seq = loc.seq => Handled(r.msg)
    BY <2>1, <2>4 DEF IInv, RefsInv, MayDelete
  <2>6. \A r \in disk.temp \ disk'.temp : Handled(r.msg)
    BY <1>0, <2>1, <2>2, <2>5 DEF Without, Rows
  <2>7. GoneInv'
    BY <1>0, <2>1, <2>2, <2>4, <2>5 DEF ToldInv, GoneInv, Without, Rows
  <2>8. NewInv'
    BY <1>0, <2>1, <2>2, <2>4 DEF ToldInv, NewInv, Without
  <2>9. FirstLifeInv'
    BY <1>0, <2>1, <2>2, <2>4 DEF ToldInv, FirstLifeInv, Without, Rows
  <2>10. \A m \in Msgs : m \in MsgsOf(disk.temp) => Kept(m)'
    BY <2>4, <2>6 DEF Kept, MsgsOf
  <2>11. HandledStays /\ InHandStays
    BY <2>4 DEF HandledStays, InHandStays
  <2> QED
    BY <1>0, <1>a, <2>1, <2>3, <2>4, <2>7, <2>8, <2>9, <2>10, <2>11, ToldPops DEF outcome
<1>27. ASSUME SendCommand PROVE ToldInv'
  <2>1. SameTemp
    BY <1>0, <1>27, StatementTemp DEF SendCommand, RejectEnvelope, DeleteRawRow,
       SavepointLeftOpen, SameTemp, store, Tables
  <2>2. queue # <<>> /\ queue' = Tail(queue) \o <<>>
    BY <1>0, <1>27 DEF SendCommand, RejectEnvelope, Pop, PopThen, AtHead, NewEnvelope,
       Acceptable, HeadInv
  <2>3. HandledStays /\ InHandStays
    BY <1>27 DEF SendCommand, RejectEnvelope, Report, AtHead, NewEnvelope, Acceptable,
       outcome, HandledStays, InHandStays, Handled, InHand
  <2>4. \A r \in db.temp \ disk.temp : FALSE
    BY <1>27 DEF SendCommand, NewInv, ToldInv, InHand, AtHead, NewEnvelope, Acceptable
  <2>5. GoneInv' /\ NewInv' /\ FirstLifeInv'
    BY <1>0, <1>27, <2>1, <2>3, <2>4, RowsToldStay DEF SendCommand, InHandStays, ToldInv,
       outcome, counts, Fault, Report, RejectEnvelope
  <2>6. \A m \in Msgs : m \in MsgsOf(disk.temp) => Kept(m)'
    BY <2>1 DEF SameTemp, Kept
  <2>7. UNCHANGED <<acked, crashes>>
    BY <1>27 DEF SendCommand, RejectEnvelope, Report, outcome, counts, Fault
  <2>8. receipted' \ receipted \subseteq {m \in Msgs : Kept(m)'}
    <3>1. Current \in Items(queue)
      BY <1>0, <2>2, ItemsOf DEF Current
    <3>2. Current.cmd = "receipt" => Kept(Current.msg) /\ Current.msg \in Msgs
      BY <1>0, <1>27, <3>1, MessagesAre DEF SendCommand, AtHead, ToldInv, ReceiptInv,
         InHand
    <3>3. \A m \in Msgs : Kept(m) => Kept(m)'
      BY <2>3, <2>6 DEF Kept, HandledStays
    <3> QED BY <1>27, <3>2, <3>3 DEF SendCommand
  <2>9. Current.cmd # "raw"
    BY <1>27 DEF SendCommand, AtHead
  <2> QED
    BY <1>0, <1>a, <2>2, <2>3, <2>5, <2>6, <2>7, <2>8, <2>9, ToldPops
<1>28. ASSUME SendCommandFails PROVE ToldInv'
  <2>1. SameTemp
    BY <1>0, <1>28, StatementTemp DEF SendCommandFails, RejectEnvelope, DeleteRawRow,
       SavepointLeftOpen, SameTemp, store, Tables
  <2>2. queue # <<>> /\ queue' = Tail(queue) \o <<>>
    BY <1>0, <1>28 DEF SendCommandFails, RejectEnvelope, Pop, PopThen, AtHead,
       NewEnvelope, Acceptable, HeadInv
  <2>3. HandledStays /\ InHandStays
    BY <1>28 DEF SendCommandFails, RejectEnvelope, Report, AtHead, NewEnvelope,
       Acceptable, outcome, HandledStays, InHandStays, Handled, InHand
  <2>4. \A r \in db.temp \ disk.temp : FALSE
    BY <1>28 DEF SendCommandFails, NewInv, ToldInv, InHand, AtHead, NewEnvelope,
       Acceptable
  <2>5. GoneInv' /\ NewInv' /\ FirstLifeInv'
    BY <1>0, <1>28, <2>1, <2>3, <2>4, RowsToldStay DEF SendCommandFails, InHandStays,
       ToldInv, outcome, counts, Fault, Report, RejectEnvelope
  <2>6. \A m \in Msgs : m \in MsgsOf(disk.temp) => Kept(m)'
    BY <2>1 DEF SameTemp, Kept
  <2>7. UNCHANGED <<acked, crashes>>
    BY <1>28 DEF SendCommandFails, RejectEnvelope, Report, outcome, counts, Fault
  <2>8. receipted' = receipted
    BY <1>28 DEF SendCommandFails, RejectEnvelope, Report, outcome
  <2>9. \A m \in Msgs \ Malformed :
          Current.cmd = "raw" /\ Current.msg = m /\ crashes = 0 => Handled(m)'
    BY <1>28 DEF SendCommandFails, AtHead
  <2> QED
    BY <1>0, <1>a, <2>2, <2>3, <2>5, <2>6, <2>7, <2>8, <2>9, ToldPops
<1>29. ASSUME RetryLoadTemp PROVE ToldInv'
  <2>1. PICK rows \in Ordered(db.temp) : queue' = queue \o Entries(rows, "receipt")
    BY <1>29 DEF RetryLoadTemp
  <2> DEFINE e == Entries(rows, "receipt")
  <2>2. /\ e \in Seq(Entry)
        /\ \A i \in DOMAIN e :
             \E r \in db.temp : e[i] = [cmd |-> "receipt", seq |-> r.seq, msg |-> r.msg]
    BY <1>0, EntriesType DEF TypeOK, StoreOK, Tables
  <2> HIDE DEF e
  <2>3. \A x \in Items(e) : x.cmd = "receipt" /\ \E r \in db.temp : x.msg = r.msg
    BY <2>2 DEF Items
  <2>4. \A r \in db.temp : Kept(r.msg) \/ InHand(r.msg)
    BY DEF ToldInv, NewInv, Kept, MsgsOf
  <2>5. \A x \in Items(e) : x.cmd = "receipt" => Kept(x.msg) \/ InHand(x.msg)
    BY <2>3, <2>4
  <2> QED
    BY <1>0, <1>29, <2>1, <2>2, <2>5, ToldAppends DEF e, RetryLoadTemp, SameTemp, store,
       outcome
<1>30. ASSUME RetryLoadRaw PROVE ToldInv'
  <2>1. PICK rows \in Ordered(db.raw) : queue' = queue \o (app.list \o Entries(rows, "raw"))
    BY <1>30 DEF RetryLoadRaw
  <2> DEFINE e == Entries(rows, "raw")
  <2>2. /\ e \in Seq(Entry)
        /\ \A i \in DOMAIN e :
             \E r \in db.raw : e[i] = [cmd |-> "raw", seq |-> r.seq, msg |-> r.msg]
    BY <1>0, EntriesType DEF TypeOK, StoreOK, Tables
  <2>3. app.list \in Seq(Entry)
    BY <1>0 DEF TypeOK, ThreadsOK
  <2> HIDE DEF e
  <2>4. \A x \in Items(e) : x.cmd = "raw"
    BY <2>2 DEF Items
  <2>5. \A x \in Items(app.list) : x.cmd # "receipt"
    BY DEF ListInv
  <2>6. app.list \o e \in Seq(Entry) /\ \A x \in Items(app.list \o e) : x.cmd # "receipt"
    BY <2>2, <2>3, <2>4, <2>5, ItemsOf
  <2> QED
    BY <1>0, <1>30, <2>1, <2>6, ToldAppends DEF e, RetryLoadRaw, SameTemp, store, outcome,
       counts
<1>31. ASSUME Crash PROVE ToldInv'
  <2>1. /\ db' = disk /\ disk' = disk /\ queue' = <<>> /\ UNCHANGED outcome
        /\ crashes' # 0
    BY <1>0, <1>31 DEF Crash, ConnectionLost, RollbackTransaction, TypeOK, CountsOK
  <2>2. \A m : Handled(m)' = Handled(m)
    BY <2>1 DEF outcome, Handled
  <2> QED
    BY <1>a, <2>1, <2>2 DEF ToldInv, GoneInv, NewInv, FirstLifeInv, ReceiptInv, WaitInv,
       ReceiptIsTruthful, outcome
<1>32. CASE UNCHANGED vars
  <2>1. SameTemp
    BY <1>32 DEF vars, store, SameTemp
  <2> QED
    BY <1>0, <1>a, <1>32, <2>1, ToldAppends DEF vars, threads, outcome, counts
<1> QED
  BY <1>1, <1>2, <1>3, <1>4, <1>5, <1>6, <1>7, <1>8, <1>9, <1>10, <1>11, <1>12, <1>13,
     <1>14, <1>15, <1>16, <1>17, <1>18, <1>19, <1>20, <1>21, <1>22, <1>23, <1>24, <1>25,
     <1>26, <1>27, <1>28, <1>29, <1>30, <1>31, <1>32 DEF Next, Network,
     Process, Application

LEMMA InitTold == Init => ListInv /\ ToldInv
<1> SUFFICES ASSUME Init PROVE ListInv /\ ToldInv
  OBVIOUS
<1>1. Items(<<>>) = {}
  BY DEF Items
<1>2. ListInv
  BY <1>1 DEF Init, ListInv
<1>3. db.temp = {} /\ disk.temp = {} /\ queue = <<>> /\ acked = {} /\ receipted = {}
  BY DEF Init, Empty
<1> QED
  BY <1>1, <1>2, <1>3 DEF ToldInv, GoneInv, NewInv, FirstLifeInv, ReceiptInv, WaitInv,
     ReceiptIsTruthful, Rows

LEMMA ToldAlways == Spec => [](ListInv /\ ToldInv)
<1>1. IInv /\ (ListInv /\ ToldInv) /\ [Next]_vars => (ListInv /\ ToldInv)'
  BY ListStep, ToldStep DEF IInv
<1> QED
  BY InitTold, <1>1, Invariant, PTL DEF Spec

(* The sender is told "delivered" only for a message whose plain text is   *)
(* committed, or which the application has seen.                           *)
THEOREM ReceiptsAreTruthful == Spec => []ReceiptIsTruthful
<1>1. ToldInv => ReceiptIsTruthful
  BY DEF ToldInv
<1> QED
  BY <1>1, ToldAlways, PTL

(* While the process lives, an acknowledged envelope waits in the queue    *)
(* until the application has it or a report of it.                         *)
THEOREM AckedIsQueued == Spec => []AckedQueued
<1>1. ToldInv => AckedQueued
  <2> SUFFICES ASSUME WaitInv PROVE AckedQueued
    BY DEF ToldInv
  <2>1. \A m : Waits(m) <=> \E i \in DOMAIN queue : queue[i].cmd = "raw" /\ queue[i].msg = m
    BY DEF Waits, Items
  <2> QED
    BY <2>1 DEF WaitInv, AckedQueued
<1> QED
  BY <1>1, ToldAlways, PTL

-----------------------------------------------------------------------------
(* With the group transactions of ReceiveSharedStore on the same           *)
(* connection TxInv does not hold, and neither does HashInv: see           *)
(* SharedAtomic.  While the first process lives, a hash, whether committed *)
(* or not, is still that of a message which the application was told of,   *)
(* or which the command thread is about to tell.                           *)

Hashed == db.hash \union disk.hash
InProcess(m) ==
  /\ pc \notin {"idle", "begin", "hash", "deltemp"}
  /\ Current.cmd = "raw" /\ Current.msg = m

HashedFirst == crashes = 0 => \A m \in Hashed : Handled(m) \/ InProcess(m)
ToldFirst == pc = "deltemp" => Handled(Current.msg)

SharedInv == TypeOK /\ HeadInv /\ WaitInv /\ HashedFirst /\ ToldFirst

HandledKept == \A m : Handled(m) => Handled(m)'
HeadHandled == \A m : m = Current.msg => Handled(m)'

LEMMA HashedSame ==
  ASSUME \/ UNCHANGED store \/ BeginTransaction \/ CommitTransaction
         \/ RollbackTransaction \/ SavepointLeftOpen
  PROVE  Hashed' \subseteq Hashed
BY DEF store, BeginTransaction, CommitTransaction, RollbackTransaction, SavepointLeftOpen,
   Hashed

(* Entries are appended, or the queue stays as it is.                      *)
LEMMA SharedAppends ==
  ASSUME SharedInv, TypeOK', HeadInv', Hashed' \subseteq Hashed,
         NEW e \in Seq(Entry), queue' = queue \o e,
         \A m \in acked' : m \in acked \/ \E x \in Items(e) : x.cmd = "raw" /\ x.msg = m,
         pc' = pc \/ (pc = "receipt" /\ pc' = "deliver"),
         UNCHANGED <<delivered, reported, crashes>>
  PROVE  SharedInv'
<1>1. queue \in Seq(Entry) /\ (queue # <<>> => Current' = Current)
  BY DEF SharedInv, TypeOK, ThreadsOK, Current
<1>2. \A m : Handled(m)' = Handled(m)
  BY DEF Handled
<1>3. \A m : InProcess(m) => InProcess(m)'
  BY <1>1 DEF SharedInv, InProcess, HeadInv
<1>4. Items(queue') = Items(queue) \union Items(e)
  BY <1>1, ItemsOf
<1>5. WaitInv'
  BY <1>2, <1>4 DEF SharedInv, WaitInv, Waits
<1>6. HashedFirst'
  BY <1>2, <1>3 DEF SharedInv, HashedFirst
<1>7. ToldFirst'
  BY <1>1, <1>2 DEF SharedInv, ToldFirst, HeadInv
<1> QED BY <1>5, <1>6, <1>7 DEF SharedInv

(* The command thread goes on with the entry at the head.                  *)
LEMMA SharedGoes ==
  ASSUME SharedInv, TypeOK', HeadInv', HandledKept,
         UNCHANGED <<queue, acked, crashes>>,
         \A m \in Hashed' : m \in Hashed \/ InProcess(m)',
         \A m : InProcess(m) => InProcess(m)' \/ Handled(m)',
         ToldFirst'
  PROVE  SharedInv'
<1>1. WaitInv'
  BY DEF SharedInv, WaitInv, Waits, HandledKept
<1>2. HashedFirst'
  BY DEF SharedInv, HashedFirst, HandledKept
<1> QED BY <1>1, <1>2 DEF SharedInv

(* The head of the queue is popped.                                        *)
LEMMA SharedPops ==
  ASSUME SharedInv, TypeOK', HeadInv', HandledKept, Hashed' \subseteq Hashed,
         queue # <<>>, NEW e \in Seq(Entry), PopThen(e), UNCHANGED <<acked, crashes>>,
         Current.cmd = "raw" /\ crashes = 0 => Current.msg \in Malformed \/ HeadHandled,
         pc = "idle" \/ HeadHandled
  PROVE  SharedInv'
<1>1. /\ queue' = Tail(queue) \o e
      /\ Items(queue) = {Current} \union Items(Tail(queue))
      /\ Items(queue') = Items(Tail(queue)) \union Items(e)
  <2>1. queue \in Seq(Entry) /\ Tail(queue) \in Seq(Entry)
    BY DEF SharedInv, TypeOK, ThreadsOK
  <2> QED BY <2>1, ItemsOf DEF Current, PopThen
<1>2. WaitInv'
  <2> SUFFICES ASSUME crashes = 0, NEW m \in acked \ Malformed
               PROVE  Handled(m)' \/ Waits(m)'
    BY DEF WaitInv
  <2>1. Handled(m) \/ Waits(m)
    BY DEF SharedInv, WaitInv
  <2>2. CASE Handled(m)
    BY <2>2 DEF HandledKept
  <2>3. CASE Waits(m)
    <3>1. PICK x \in Items(queue) : x.cmd = "raw" /\ x.msg = m
      BY <2>3 DEF Waits
    <3>2. CASE x = Current
      BY <3>1, <3>2 DEF HeadHandled
    <3>3. CASE x # Current
      BY <1>1, <3>1, <3>3 DEF Waits
    <3> QED BY <3>2, <3>3
  <2> QED BY <2>1, <2>2, <2>3
<1>3. HashedFirst'
  <2>1. \A m : InProcess(m) => Handled(m)'
    BY DEF InProcess, HeadHandled
  <2> QED BY <2>1 DEF SharedInv, HashedFirst, HandledKept
<1>4. ToldFirst'
  BY DEF ToldFirst, PopThen
<1> QED BY <1>2, <1>3, <1>4 DEF SharedInv

(* A step of the threads of ZinaReceive.                                   *)
LEMMA SharedReceives ==
  ASSUME SharedInv, Network \/ Process \/ Application
  PROVE  SharedInv'
<1>0. TypeOK' /\ HeadInv' /\ TypeOK /\ HeadInv
  BY TypeStep DEF SharedInv, Next
<1>a. /\ <<>> \in Seq(Entry) /\ Items(<<>>) = {} /\ queue \o <<>> = queue
      /\ queue \in Seq(Entry)
  BY <1>0 DEF Items, TypeOK, ThreadsOK
<1>b. ASSUME DeleteRawRow(Current.seq) PROVE Hashed' \subseteq Hashed
  BY <1>0, <1>b DEF DeleteRawRow, Statement, Hashed, TypeOK, StoreOK, Tables
<1>c. Fault => crashes' = crashes
  BY DEF Fault
<1>d. Report => HandledKept /\ HeadHandled /\ acked' = acked
  BY DEF Report, HandledKept, HeadHandled, Handled
<1>e. UNCHANGED outcome => HandledKept /\ acked' = acked
  BY DEF outcome, HandledKept, Handled
<1>1. ASSUME NEW m \in Msgs, ReceiveInsert(m) PROVE SharedInv'
  <2>1. Hashed' \subseteq Hashed
    BY <1>0, <1>1 DEF ReceiveInsert, Statement, Hashed, TypeOK, StoreOK, Tables
  <2> QED BY <1>0, <1>a, <1>1, <2>1, SharedAppends DEF ReceiveInsert, outcome
<1>2. ASSUME ReceiveInsertFails \/ ReceiveGetSequence PROVE SharedInv'
  <2>1. Hashed' \subseteq Hashed
    BY <1>2, HashedSame DEF ReceiveInsertFails, ReceiveGetSequence
  <2> QED BY <1>0, <1>a, <1>2, <2>1, SharedAppends DEF ReceiveInsertFails,
          ReceiveGetSequence, outcome, threads, counts
<1>3. ASSUME ReceiveEnqueue PROVE SharedInv'
  <2> DEFINE x == [cmd |-> "raw", seq |-> net.seq, msg |-> net.msg]
  <2>1. x \in Entry /\ x.cmd = "raw" /\ x.msg = net.msg
    BY <1>0 DEF Entry, TypeOK, ThreadsOK
  <2>2. queue' = Append(queue, x) /\ acked' = acked \union {net.msg}
    BY <1>3 DEF ReceiveEnqueue
  <2> HIDE DEF x
  <2>3. queue' = queue \o <<x>> /\ <<x>> \in Seq(Entry) /\ Items(<<x>>) = {x}
    BY <1>a, <2>1, <2>2 DEF Items
  <2>4. Hashed' \subseteq Hashed
    BY <1>3, HashedSame DEF ReceiveEnqueue
  <2> QED BY <1>0, <1>3, <2>1, <2>2, <2>3, <2>4, SharedAppends DEF ReceiveEnqueue, counts
<1>4. ASSUME DropDuplicate PROVE SharedInv'
  <2>1. /\ pc = "idle" /\ queue # <<>> /\ Current.msg \in Hashed
        /\ HandledKept /\ UNCHANGED <<acked, crashes>> /\ Hashed' \subseteq Hashed
        /\ PopThen(<<>>)
    BY <1>4, <1>b, <1>e DEF DropDuplicate, AtHead, Hashed, Pop, counts
  <2>2. crashes = 0 => HeadHandled
    BY <2>1 DEF SharedInv, HashedFirst, InProcess, HandledKept, HeadHandled
  <2> QED BY <1>0, <1>a, <2>1, <2>2, SharedPops
<1>5. ASSUME DropMalformed PROVE SharedInv'
  <2>1. /\ pc = "idle" /\ queue # <<>> /\ Current.msg \in Malformed
        /\ HandledKept /\ UNCHANGED <<acked, crashes>> /\ Hashed' \subseteq Hashed
        /\ PopThen(<<>>)
    BY <1>5, <1>b, <1>e DEF DropMalformed, NewEnvelope, AtHead, Pop, counts
  <2> QED BY <1>0, <1>a, <2>1, SharedPops
<1>6. ASSUME RefuseEnvelope \/ LoadConversationFails \/ DecryptFails PROVE SharedInv'
  <2>1. /\ pc = "idle" /\ pc' \in {"reject", "failed"}
        /\ UNCHANGED <<queue, acked, delivered, reported, crashes>> /\ Hashed' \subseteq Hashed
    BY <1>6, <1>b, Rejected DEF AtHead, outcome
  <2>2. HandledKept /\ ToldFirst' /\ \A m : InProcess(m) => InProcess(m)'
    BY <2>1 DEF HandledKept, Handled, ToldFirst, InProcess
  <2> QED BY <1>0, <2>1, <2>2, SharedGoes
<1>7. ASSUME ReportUndecryptable PROVE SharedInv'
  <2> DEFINE x == [cmd |-> "error", seq |-> 0, msg |-> Current.msg]
  <2>1. /\ queue # <<>> /\ HeadHandled
        /\ HandledKept /\ UNCHANGED <<acked, crashes>> /\ PopThen(<<x>>)
    BY <1>0, <1>7, <1>d DEF ReportUndecryptable, HeadInv, counts
  <2>2. x \in Entry /\ Hashed' \subseteq Hashed
    BY <1>0, <1>7, <2>1, CurrentType, HashedSame DEF ReportUndecryptable, Entry, TypeOK,
       ThreadsOK
  <2> HIDE DEF x
  <2>3. <<x>> \in Seq(Entry)
    BY <2>2
  <2> QED BY <1>0, <2>1, <2>2, <2>3, SharedPops
<1>8. ASSUME \/ DecryptStaged \/ DecryptChain \/ Begin \/ StoreStagedMks \/ StoreConversation
             \/ InsertTempMsg \/ StoreFails \/ DeleteRaw \/ Commit \/ CommitFails
      PROVE  SharedInv'
  <2>1. Hashed' \subseteq Hashed
    <3>1. CASE \/ DecryptStaged \/ InsertTempMsg \/ StoreStagedMks \/ StoreConversation
               \/ DeleteRaw
      BY <1>0, <3>1 DEF DecryptStaged, StoreStagedMks, StoreConversation, InsertTempMsg,
         DeleteRaw, DeleteRawRow, Statement, Hashed, TypeOK, StoreOK, Tables
    <3>2. CASE DecryptChain \/ Begin \/ StoreFails \/ Commit \/ CommitFails
      BY <3>2, HashedSame DEF DecryptChain, Begin, StoreFails, Commit, CommitFails
    <3> QED BY <1>8, <3>1, <3>2
  <2>2. /\ UNCHANGED <<queue, acked, delivered, reported, crashes>> /\ pc' # "deltemp"
        /\ pc \in {"idle", "begin"} \/ pc' \notin {"idle", "begin", "hash", "deltemp"}
    BY <1>8, <1>c DEF DecryptStaged, DecryptChain, Begin, StoreStagedMks, StoreConversation,
       InsertTempMsg, StoreFails, DeleteRaw, Commit, CommitFails, Goto, outcome, counts,
       Acceptable, NewEnvelope, AtHead
  <2>3. HandledKept /\ ToldFirst' /\ \A m : InProcess(m) => InProcess(m)'
    BY <2>2 DEF HandledKept, Handled, ToldFirst, InProcess, Current
  <2> QED BY <1>0, <2>1, <2>2, <2>3, SharedGoes
<1>9. ASSUME InsertMsgHash PROVE SharedInv'
  <2>1. /\ UNCHANGED <<queue, acked, delivered, reported, crashes>>
        /\ pc = "hash" /\ pc' = "staged" /\ Current' = Current /\ Current.cmd = "raw"
    BY <1>0, <1>9 DEF InsertMsgHash, Goto, outcome, counts, HeadInv, Current
  <2>2. Hashed' \subseteq Hashed \union {Current.msg}
    BY <1>0, <1>9 DEF InsertMsgHash, Statement, Hashed, TypeOK, StoreOK, Tables
  <2>3. HandledKept /\ ToldFirst' /\ InProcess(Current.msg)' /\ \A m : ~InProcess(m)
    BY <2>1 DEF HandledKept, Handled, ToldFirst, InProcess
  <2> QED BY <1>0, <2>1, <2>2, <2>3, SharedGoes
<1>10. ASSUME Rollback \/ DeliverRejected \/ ReportRejected PROVE SharedInv'
  <2>1. /\ queue # <<>> /\ HeadHandled
        /\ HandledKept /\ UNCHANGED <<acked, crashes>> /\ PopThen(<<>>)
    BY <1>0, <1>10, <1>d DEF Rollback, DeliverRejected, ReportRejected, HeadInv, Pop, counts
  <2>2. Hashed' \subseteq Hashed
    BY <1>10, HashedSame DEF Rollback, DeliverRejected, ReportRejected
  <2> QED BY <1>0, <1>a, <2>1, <2>2, SharedPops
<1>11. ASSUME SendDeliveryReceipt PROVE SharedInv'
  <2> DEFINE x == [cmd |-> "receipt", seq |-> 0, msg |-> Current.msg]
  <2>1. x \in Entry
    BY <1>0, <1>11, CurrentType DEF SendDeliveryReceipt, HeadInv, Entry, TypeOK, ThreadsOK
  <2>2. queue' = Append(queue, x)
    BY <1>11 DEF SendDeliveryReceipt
  <2> HIDE DEF x
  <2>3. queue' = queue \o <<x>> /\ <<x>> \in Seq(Entry)
    BY <1>a, <2>1, <2>2
  <2>4. Hashed' \subseteq Hashed
    BY <1>11, HashedSame DEF SendDeliveryReceipt
  <2> QED BY <1>0, <1>11, <2>3, <2>4, SharedAppends DEF SendDeliveryReceipt, outcome, counts
<1>12. ASSUME TakeTemp PROVE SharedInv'
  <2>1. /\ UNCHANGED <<queue, acked, delivered, reported, crashes>>
        /\ pc = "idle" /\ pc' = "deliver" /\ Hashed' \subseteq Hashed
    BY <1>12, HashedSame DEF TakeTemp, AtHead, outcome, counts
  <2>2. HandledKept /\ ToldFirst' /\ \A m : ~InProcess(m)
    BY <2>1 DEF HandledKept, Handled, ToldFirst, InProcess
  <2> QED BY <1>0, <2>1, <2>2, SharedGoes
<1>13. ASSUME Deliver PROVE SharedInv'
  <2>1. /\ UNCHANGED <<queue, acked, reported, crashes>> /\ pc = "deliver"
        /\ pc' = "deltemp" /\ delivered' = [delivered EXCEPT ![Current.msg] = @ + 1]
        /\ queue # <<>>
    BY <1>0, <1>13 DEF Deliver, Goto, counts, HeadInv
  <2>2. Current.msg \in Msgs /\ delivered \in [Msgs -> Nat] /\ Current' = Current
    BY <1>0, <2>1, CurrentType DEF Entry, TypeOK, ThreadsOK, OutcomeOK, Current
  <2>3. Handled(Current.msg)' /\ \A m : delivered[m] > 0 => delivered'[m] > 0
    BY <2>1, <2>2 DEF Handled
  <2>4. HandledKept /\ ToldFirst' /\ \A m : InProcess(m) => Handled(m)'
    BY <2>1, <2>2, <2>3 DEF HandledKept, Handled, ToldFirst, InProcess
  <2>5. Hashed' \subseteq Hashed
    BY <1>13, HashedSame DEF Deliver
  <2> QED BY <1>0, <2>1, <2>4, <2>5, SharedGoes
<1>14. ASSUME DeleteTemp PROVE SharedInv'
  <2>1. /\ queue # <<>> /\ pc = "deltemp" /\ HandledKept
        /\ UNCHANGED <<acked, crashes>> /\ PopThen(<<>>)
    BY <1>0, <1>14, <1>e DEF DeleteTemp, HeadInv, Pop, counts
  <2>2. Hashed' \subseteq Hashed
    BY <1>0, <1>14 DEF DeleteTemp, Statement, Hashed, TypeOK, StoreOK, Tables
  <2>3. HeadHandled
    BY <2>1 DEF SharedInv, ToldFirst, HandledKept, HeadHandled
  <2> QED BY <1>0, <1>a, <2>1, <2>2, <2>3, SharedPops
<1>15. ASSUME SendCommand \/ SendCommandFails PROVE SharedInv'
  <2>1. /\ queue # <<>> /\ pc = "idle" /\ Current.cmd # "raw" /\ PopThen(<<>>)
        /\ UNCHANGED <<acked, delivered, reported, crashes>>
    BY <1>15, <1>c DEF SendCommand, SendCommandFails, AtHead, Pop, outcome, counts
  <2>2. Hashed' \subseteq Hashed
    BY <1>15, HashedSame DEF SendCommand, SendCommandFails
  <2>3. HandledKept
    BY <2>1 DEF HandledKept, Handled
  <2> QED BY <1>0, <1>a, <2>1, <2>2, <2>3, SharedPops
<1>16. ASSUME Application PROVE SharedInv'
  <2>1. \E e \in Seq(Entry) : queue' = queue \o e
    <3>1. CASE RetryLoadTemp
      BY <1>0, <3>1, EntriesType DEF RetryLoadTemp, TypeOK, StoreOK, Tables
    <3>2. CASE RetryLoadRaw
      <4>1. PICK rows \in Ordered(db.raw) :
              queue' = queue \o (app.list \o Entries(rows, "raw"))
        BY <3>2 DEF RetryLoadRaw
      <4>2. Entries(rows, "raw") \in Seq(Entry) /\ app.list \in Seq(Entry)
        BY <1>0, EntriesType DEF TypeOK, StoreOK, Tables, ThreadsOK
      <4> DEFINE e == app.list \o Entries(rows, "raw")
      <4>3. e \in Seq(Entry)
        BY <4>2
      <4> QED BY <4>1, <4>3
    <3> QED BY <1>16, <3>1, <3>2 DEF Application
  <2>2. Hashed' \subseteq Hashed
    BY <1>16, HashedSame DEF Application, RetryLoadTemp, RetryLoadRaw
  <2> QED BY <1>0, <1>16, <2>1, <2>2, SharedAppends DEF Application, RetryLoadTemp,
          RetryLoadRaw, outcome, counts
<1> QED
  BY <1>1, <1>2, <1>3, <1>4, <1>5, <1>6, <1>7, <1>8, <1>9, <1>10, <1>11, <1>12, <1>13,
     <1>14, <1>15, <1>16 DEF Network, Process, Application

LEMMA SharedStep == SharedInv /\ [SharedNext]_sharedVars => SharedInv'
<1> SUFFICES ASSUME SharedInv, [SharedNext]_sharedVars PROVE SharedInv'
  OBVIOUS
<1>a. /\ TypeOK /\ HeadInv /\ queue \in Seq(Entry) /\ queue \o <<>> = queue
      /\ <<>> \in Seq(Entry)
  BY DEF SharedInv, TypeOK, ThreadsOK
<1>1. CASE GroupBegin \/ GroupCommit \/ GroupRollback
  <2>1. UNCHANGED <<threads, outcome, crashes>> /\ Hashed' \subseteq Hashed
    BY <1>1, HashedSame DEF GroupBegin, GroupCommit, GroupRollback, counts, Fault
  <2>2. StoreOK'
    BY <1>1, <1>a DEF GroupBegin, GroupCommit, GroupRollback, BeginTransaction,
       CommitTransaction, RollbackTransaction, TypeOK, StoreOK
  <2>3. CountsOK'
    BY <1>1, <1>a DEF GroupBegin, GroupCommit, GroupRollback, Fault, counts, TypeOK, CountsOK
  <2>4. ThreadsOK' /\ OutcomeOK' /\ HeadInv'
    BY <1>a, <2>1 DEF threads, outcome, TypeOK, ThreadsOK, OutcomeOK, HeadInv, Current
  <2>5. TypeOK'
    BY <2>2, <2>3, <2>4 DEF TypeOK
  <2> QED BY <1>a, <2>1, <2>4, <2>5, SharedAppends DEF threads, outcome
<1>2. CASE SharedCrash
  <2>1. Crash /\ TypeOK' /\ HeadInv'
    BY <1>2, <1>a, TypeStep DEF SharedCrash, Next
  <2>2. crashes' # 0 /\ pc' = "idle"
    BY <1>a, <2>1 DEF Crash, TypeOK, CountsOK
  <2> QED BY <2>1, <2>2 DEF SharedInv, WaitInv, HashedFirst, ToldFirst
<1>3. CASE UNCHANGED sharedVars
  <2>1. UNCHANGED vars
    BY <1>3 DEF sharedVars
  <2>2. TypeOK' /\ HeadInv'
    BY <1>a, <2>1, TypeStep
  <2>3. Hashed' \subseteq Hashed
    BY <2>1, HashedSame DEF vars
  <2> QED BY <1>a, <2>1, <2>2, <2>3, SharedAppends DEF vars, threads, outcome, counts
<1> QED BY <1>1, <1>2, <1>3, SharedReceives DEF SharedNext

LEMMA SharedStart == SharedInit => SharedInv
<1> SUFFICES ASSUME SharedInit PROVE SharedInv
  OBVIOUS
<1>1. TypeOK /\ HeadInv
  BY InitInv DEF SharedInit, IInv
<1>2. pc = "idle" /\ acked = {} /\ db.hash = {} /\ disk.hash = {}
  BY DEF SharedInit, Init, Empty
<1> QED BY <1>1, <1>2 DEF SharedInv, WaitInv, HashedFirst, ToldFirst, Hashed

LEMMA SharedAlways == SharedSpec => []SharedInv
BY SharedStart, SharedStep, PTL DEF SharedSpec

(* The same with group transactions on the connection, whichever of their  *)
(* BEGIN, COMMIT and ROLLBACK fall into the transaction of a message.      *)
THEOREM AckedIsQueuedShared == SharedSpec => []AckedQueued
<1>1. SharedInv => AckedQueued
  <2> SUFFICES ASSUME WaitInv PROVE AckedQueued
    BY DEF SharedInv
  <2>1. \A m : Waits(m) <=> \E i \in DOMAIN queue : queue[i].cmd = "raw" /\ queue[i].msg = m
    BY DEF Waits, Items
  <2> QED
    BY <2>1 DEF WaitInv, AckedQueued
<1> QED
  BY <1>1, SharedAlways, PTL

-----------------------------------------------------------------------------
(* Counting the entries of TempMsg that wait for a message.                *)

TempsAt(q, m) == {i \in DOMAIN q : q[i].cmd = "temp" /\ q[i].msg = m}
Temps(q, m) == Cardinality(TempsAt(q, m))

LEMMA ShiftedSet ==
  ASSUME NEW S \in SUBSET Int, IsFiniteSet(S), NEW k \in Int
  PROVE  IsFiniteSet({i + k : i \in S}) /\ Cardinality({i + k : i \in S}) <= Cardinality(S)
<1> DEFINE T == {i + k : i \in S}
           f == [i \in S |-> i + k]
<1>1. f \in Surjection(S, T)
  BY DEF Surjection
<1>2. \E g : g \in Surjection(S, T)
  BY <1>1
<1> HIDE DEF T
<1>3. IsFiniteSet(T) /\ Cardinality(T) <= Cardinality(S)
  BY <1>2, FS_Surjection DEF ExistsSurjection
<1> QED BY <1>3 DEF T

LEMMA TempsType ==
  ASSUME NEW q \in Seq(Entry), NEW m
  PROVE  /\ IsFiniteSet(TempsAt(q, m)) /\ TempsAt(q, m) \subseteq DOMAIN q
         /\ DOMAIN q \subseteq Int /\ Temps(q, m) \in Nat
<1>1. DOMAIN q = 1 .. Len(q) /\ Len(q) \in Nat
  OBVIOUS
<1>2. IsFiniteSet(1 .. Len(q))
  BY <1>1, FS_Interval
<1>3. TempsAt(q, m) \subseteq DOMAIN q
  BY DEF TempsAt
<1>4. IsFiniteSet(TempsAt(q, m))
  BY <1>1, <1>2, <1>3, FS_Subset
<1> QED BY <1>1, <1>3, <1>4, FS_CardinalityType DEF Temps

(* Appending adds no more than what is appended.                           *)
LEMMA TempsAppended ==
  ASSUME NEW q \in Seq(Entry), NEW e \in Seq(Entry), NEW m
  PROVE  Temps(q \o e, m) <= Temps(q, m) + Temps(e, m)
<1> DEFINE S == {i + Len(q) : i \in TempsAt(e, m)}
           U == TempsAt(q, m) \union S
<1>1. Len(q) \in Int /\ q \o e \in Seq(Entry)
  OBVIOUS
<1>2. TempsAt(q \o e, m) \subseteq U
  <2>1. \A i \in DOMAIN (q \o e) :
          \/ i \in DOMAIN q /\ (q \o e)[i] = q[i]
          \/ /\ i - Len(q) \in DOMAIN e /\ (q \o e)[i] = e[i - Len(q)]
             /\ i = (i - Len(q)) + Len(q)
    OBVIOUS
  <2>2. SUFFICES ASSUME NEW i \in TempsAt(q \o e, m) PROVE i \in U
    OBVIOUS
  <2>3. i \in DOMAIN (q \o e) /\ (q \o e)[i].cmd = "temp" /\ (q \o e)[i].msg = m
    BY <2>2 DEF TempsAt
  <2>4. CASE i \in DOMAIN q /\ (q \o e)[i] = q[i]
    BY <2>3, <2>4 DEF TempsAt
  <2>5. CASE /\ i - Len(q) \in DOMAIN e /\ (q \o e)[i] = e[i - Len(q)]
             /\ i = (i - Len(q)) + Len(q)
    <3>1. i - Len(q) \in TempsAt(e, m)
      BY <2>3, <2>5 DEF TempsAt
    <3> QED BY <2>5, <3>1
  <2> QED BY <2>1, <2>3, <2>4, <2>5
<1>3. IsFiniteSet(S) /\ Cardinality(S) <= Temps(e, m)
  <2>1. TempsAt(e, m) \in SUBSET Int /\ IsFiniteSet(TempsAt(e, m))
    BY TempsType
  <2> QED BY <1>1, <2>1, ShiftedSet DEF Temps
<1>4. /\ IsFiniteSet(TempsAt(q, m)) /\ Temps(q, m) \in Nat /\ Temps(e, m) \in Nat
      /\ Temps(q \o e, m) \in Nat
  BY <1>1, TempsType
<1> HIDE DEF S
<1>5. /\ IsFiniteSet(U)
      /\ Cardinality(U) = Temps(q, m) + Cardinality(S) - Cardinality(TempsAt(q, m) \intersect S)
  BY <1>3, <1>4, FS_Union DEF Temps
<1>6. Cardinality(TempsAt(q, m) \intersect S) \in Nat /\ Cardinality(S) \in Nat
  BY <1>3, <1>4, FS_Subset, FS_CardinalityType
<1> HIDE DEF U
<1>7. Temps(q \o e, m) <= Cardinality(U) /\ Cardinality(U) \in Nat
  BY <1>2, <1>5, FS_Subset, FS_CardinalityType DEF Temps
<1> QED BY <1>3, <1>4, <1>5, <1>6, <1>7

(* The head of the queue is counted, and not counted any more in its tail. *)
LEMMA TempsPopped ==
  ASSUME NEW q \in Seq(Entry), q # <<>>, NEW m
  PROVE  /\ Temps(Tail(q), m) <= Temps(q, m)
         /\ Head(q).cmd = "temp" /\ Head(q).msg = m => Temps(Tail(q), m) <= Temps(q, m) - 1
<1> DEFINE R == TempsAt(q, m) \ {1}
           S == {i + (-1) : i \in R}
<1>1. /\ Len(q) \in Nat \ {0} /\ DOMAIN q = 1 .. Len(q)
      /\ DOMAIN Tail(q) = 1 .. (Len(q) - 1)
      /\ Head(q) = q[1] /\ Tail(q) \in Seq(Entry)
      /\ \A i \in 1 .. (Len(q) - 1) : Tail(q)[i] = q[i + 1]
  OBVIOUS
<1>2. /\ IsFiniteSet(TempsAt(q, m)) /\ TempsAt(q, m) \subseteq DOMAIN q
      /\ Temps(q, m) \in Nat /\ Temps(Tail(q), m) \in Nat
  BY <1>1, TempsType
<1>3. TempsAt(Tail(q), m) \subseteq S
  <2>1. SUFFICES ASSUME NEW i \in TempsAt(Tail(q), m) PROVE i \in S
    OBVIOUS
  <2>2. i \in 1 .. (Len(q) - 1) /\ Tail(q)[i].cmd = "temp" /\ Tail(q)[i].msg = m
    BY <1>1 DEF TempsAt
  <2>3. i + 1 \in 1 .. Len(q) /\ i + 1 # 1 /\ i = (i + 1) + (-1) /\ Tail(q)[i] = q[i + 1]
    BY <1>1, <2>2
  <2>4. i + 1 \in R
    BY <1>1, <2>2, <2>3 DEF TempsAt
  <2> QED BY <2>3, <2>4
<1>4. /\ IsFiniteSet(R)
      /\ Cardinality(R) = IF 1 \in TempsAt(q, m) THEN Temps(q, m) - 1 ELSE Temps(q, m)
  BY <1>2, FS_RemoveElement DEF Temps
<1>5. IsFiniteSet(S) /\ Cardinality(S) <= Cardinality(R)
  <2>1. R \in SUBSET Int /\ -1 \in Int
    BY <1>1, <1>2
  <2> HIDE DEF R
  <2>2. \A k \in Int : /\ IsFiniteSet({i + k : i \in R})
                     /\ Cardinality({i + k : i \in R}) <= Cardinality(R)
    BY <1>4, <2>1, ShiftedSet
  <2> QED BY <2>1, <2>2
<1>6. Head(q).cmd = "temp" /\ Head(q).msg = m => 1 \in TempsAt(q, m)
  BY <1>1 DEF TempsAt
<1> HIDE DEF R, S
<1>7. Temps(Tail(q), m) <= Cardinality(S) /\ Cardinality(S) \in Nat
  BY <1>3, <1>5, FS_Subset, FS_CardinalityType DEF Temps
<1> QED BY <1>2, <1>4, <1>5, <1>6, <1>7

(* A table with one row for each message makes one entry for each.         *)
LEMMA TempsLoaded ==
  ASSUME NEW rows \in SUBSET Row, IsFiniteSet(rows), NEW s \in Ordered(rows), NEW m,
         \A q, r \in rows : q.msg = r.msg => q = r
  PROVE  Temps(Entries(s, "temp"), m) <= 1
<1> DEFINE e == Entries(s, "temp")
<1>1. s \in [1 .. Cardinality(rows) -> rows] /\ Cardinality(rows) \in Nat
      /\ \A i, j \in DOMAIN s : i < j => s[i].seq < s[j].seq
  BY FS_CardinalityType DEF Ordered
<1>2. DOMAIN e = DOMAIN s /\ \A i \in DOMAIN s : e[i].msg = s[i].msg /\ s[i] \in rows
  BY <1>1 DEF Entries
<1>3. \A i, j \in DOMAIN s : s[i] = s[j] => i = j
  <2> SUFFICES ASSUME NEW i \in DOMAIN s, NEW j \in DOMAIN s, s[i] = s[j], i # j PROVE FALSE
    OBVIOUS
  <2>1. i \in Int /\ j \in Int /\ s[i].seq \in Nat /\ s[j].seq \in Nat
    BY <1>1 DEF Row
  <2>2. i < j \/ j < i
    BY <2>1
  <2>3. s[i].seq < s[j].seq \/ s[j].seq < s[i].seq
    BY <1>1, <2>2
  <2> QED BY <2>1, <2>3
<1> HIDE DEF e
<1>4. \A i, j \in TempsAt(e, m) : i = j
  BY <1>2, <1>3 DEF TempsAt
<1>5. CASE TempsAt(e, m) = {}
  BY <1>5, FS_EmptySet DEF Temps, e
<1>6. CASE TempsAt(e, m) # {}
  <2>1. PICK i : TempsAt(e, m) = {i}
    BY <1>4, <1>6
  <2> QED BY <2>1, FS_Singleton DEF Temps, e
<1> QED BY <1>5, <1>6

(* Entries of other commands are not counted.                              *)
LEMMA TempsOfOthers ==
  ASSUME NEW e \in Seq(Entry), NEW m, \A x \in Items(e) : x.cmd # "temp"
  PROVE  Temps(e, m) = 0
<1>1. TempsAt(e, m) = {}
  BY DEF TempsAt, Items
<1> QED BY <1>1, FS_EmptySet DEF Temps

-----------------------------------------------------------------------------
(* What a redelivery costs.                                                *)

(* Every message of TempMsg has its hash, no message has two rows, and the *)
(* envelope in process was not decrypted before.                           *)
HashedInv ==
  /\ MsgsOf(db.temp) \subseteq db.hash
  /\ MsgsOf(disk.temp) \subseteq disk.hash
  /\ disk.hash \subseteq db.hash

OneRowInv ==
  /\ \A q, r \in db.temp : q.msg = r.msg => q = r
  /\ \A q, r \in disk.temp : q.msg = r.msg => q = r

FreshInv ==
  /\ pc \in {"begin", "hash"} => Current.msg \notin db.hash
  /\ pc \in {"staged", "conv", "temp", "delraw", "commit"} => Current.msg \in db.hash
  /\ pc \in {"staged", "conv", "temp", "rollback", "delraw", "commit"}
       => Current.msg \notin disk.hash
  /\ pc \in {"staged", "conv", "temp"} => Current.msg \notin MsgsOf(db.temp)

TablesInv == HashedInv /\ OneRowInv /\ FreshInv

(* The deliveries that were made or that the entries on their way to the   *)
(* callback will still make, and what was paid for them: the first is      *)
(* free once the hash is committed.                                        *)
Being(m) == IF pc \in {"receipt", "deliver"} /\ Current.cmd = "raw" /\ Current.msg = m
            THEN 1 ELSE 0
Done(m) == IF pc = "deltemp" /\ Current.cmd = "temp" /\ Current.msg = m THEN 1 ELSE 0
Load(m) == delivered[m] + Temps(queue, m) + Temps(app.list, m) + Being(m) - Done(m)
Paid(m) == retries + faults + (IF m \in disk.hash THEN 1 ELSE 0)

PaidInv == \A m \in Msgs : Load(m) <= Paid(m)

FewerTables ==
  /\ db'.temp \subseteq db.temp /\ disk'.temp \subseteq disk.temp
  /\ db'.hash = db.hash /\ disk'.hash = disk.hash

LEMMA StatementFewer ==
  ASSUME ~tx => db = disk, NEW new, Statement(new), new.temp \subseteq db.temp,
         new.hash = db.hash
  PROVE  FewerTables
BY DEF FewerTables, Statement

LEMMA RowsFewer ==
  ASSUME HashedInv, OneRowInv, FewerTables
  PROVE  HashedInv' /\ OneRowInv'
BY DEF HashedInv, OneRowInv, FewerTables, MsgsOf

(* The command thread stays where it is, or is done with the transaction.  *)
LEMMA TablesStay ==
  ASSUME TablesInv, FewerTables,
         \/ pc' \in {"idle", "receipt", "deliver", "deltemp"}
         \/ pc' = pc /\ (pc # "idle" => Current' = Current)
  PROVE  TablesInv'
<1>1. HashedInv' /\ OneRowInv'
  BY RowsFewer DEF TablesInv
<1>2. MsgsOf(db'.temp) \subseteq MsgsOf(db.temp)
  BY DEF FewerTables, MsgsOf
<1>3. FreshInv'
  BY <1>2 DEF TablesInv, FreshInv, FewerTables
<1> QED BY <1>1, <1>3 DEF TablesInv

(* Types of the counts.                                                    *)
LEMMA LoadType ==
  ASSUME TypeOK, HeadInv, NEW m \in Msgs
  PROVE  /\ delivered[m] \in Nat /\ Temps(queue, m) \in Nat /\ Temps(app.list, m) \in Nat
         /\ Being(m) \in {0, 1} /\ Done(m) \in {0, 1}
         /\ Load(m) \in Int /\ Paid(m) \in Nat
         /\ delivered[m] <= Load(m) - Temps(app.list, m)
<1>1. /\ delivered[m] \in Nat /\ Temps(queue, m) \in Nat /\ Temps(app.list, m) \in Nat
      /\ Being(m) \in {0, 1} /\ Done(m) \in {0, 1} /\ Paid(m) \in Nat
  BY TempsType DEF TypeOK, ThreadsOK, OutcomeOK, CountsOK, Being, Done, Paid
<1>2. Done(m) <= Temps(queue, m)
  <2>1. CASE Done(m) = 0
    BY <1>1, <2>1
  <2>2. CASE Done(m) = 1
    <3>1. queue # <<>> /\ Head(queue).cmd = "temp" /\ Head(queue).msg = m
      BY <2>2 DEF Done, HeadInv, Current
    <3>2. Temps(Tail(queue), m) <= Temps(queue, m) - 1 /\ Temps(Tail(queue), m) \in Nat
      <4>1. queue \in Seq(Entry) /\ Tail(queue) \in Seq(Entry)
        BY <3>1 DEF TypeOK, ThreadsOK
      <4> QED BY <3>1, <4>1, TempsPopped, TempsType
    <3> QED BY <1>1, <2>2, <3>2
  <2> QED BY <1>1, <2>1, <2>2
<1> QED BY <1>1, <1>2 DEF Load

LEMMA SumGrows ==
  ASSUME NEW a \in Int, NEW b \in Int, NEW c \in Int,
         NEW x \in Int, NEW y \in Int, NEW z \in Int, a <= x, b <= y, c <= z
  PROVE  a + b + c \in Int /\ x + y + z \in Int /\ a + b + c <= x + y + z
OBVIOUS

LEMMA PaidStays ==
  ASSUME TypeOK, HeadInv, TypeOK', HeadInv', PaidInv, disk.hash \subseteq disk'.hash,
         retries <= retries', faults <= faults', \A m \in Msgs : Load(m)' <= Load(m)
  PROVE  PaidInv'
<1> SUFFICES ASSUME NEW m \in Msgs PROVE Load(m)' <= Paid(m)'
  BY DEF PaidInv
<1>1. Load(m) \in Int /\ Paid(m) \in Nat
  BY LoadType
<1>2. Load(m)' \in Int
  <2>1. /\ delivered'[m] \in Nat /\ Temps(queue', m) \in Nat /\ Temps(app'.list, m) \in Nat
        /\ Being(m)' \in {0, 1} /\ Done(m)' \in {0, 1}
    BY TempsType DEF TypeOK, ThreadsOK, OutcomeOK, Being, Done
  <2> QED BY <2>1 DEF Load
<1>3. Paid(m)' \in Int /\ Paid(m) <= Paid(m)'
  <2>1. retries \in Int /\ faults \in Int /\ retries' \in Int /\ faults' \in Int
    BY DEF TypeOK, CountsOK
  <2>2. m \in disk.hash => m \in disk'.hash
    OBVIOUS
  <2> DEFINE h == IF m \in disk.hash THEN 1 ELSE 0
             g == IF m \in disk'.hash THEN 1 ELSE 0
  <2>3. h \in Int /\ g \in Int /\ h <= g
    BY <2>2
  <2>4. Paid(m) = retries + faults + h /\ Paid(m)' = retries' + faults' + g
    BY DEF Paid
  <2> HIDE DEF h, g
  <2>5. /\ retries + faults + h \in Int /\ retries' + faults' + g \in Int
        /\ retries + faults + h <= retries' + faults' + g
    BY <2>1, <2>3, SumGrows
  <2> QED BY <2>4, <2>5
<1>4. Load(m)' <= Load(m) /\ Load(m) <= Paid(m)
  BY DEF PaidInv
<1> QED BY <1>1, <1>2, <1>3, <1>4

(* The command thread goes on, in a step that delivers nothing.            *)
LEMMA LoadGoes ==
  ASSUME TypeOK, HeadInv, UNCHANGED <<queue, app, delivered>>,
         \/ pc' = pc
         \/ {pc, pc'} \intersect {"receipt", "deliver", "deltemp"} = {}
         \/ pc' = "deliver" /\ Current.cmd = "temp" /\ pc = "idle"
  PROVE  \A m \in Msgs : Load(m)' <= Load(m)
<1> SUFFICES ASSUME NEW m \in Msgs PROVE Load(m)' <= Load(m)
  OBVIOUS
<1>1. Being(m)' = Being(m) /\ Done(m)' = Done(m)
  BY DEF Being, Done, Current
<1>2. Load(m)' = Load(m)
  BY <1>1 DEF Load
<1>3. Load(m) \in Int
  BY LoadType
<1> QED BY <1>2, <1>3

(* Entries of other commands are appended.                                 *)
LEMMA LoadAppends ==
  ASSUME TypeOK, HeadInv, NEW e \in Seq(Entry), queue' = queue \o e,
         \A x \in Items(e) : x.cmd # "temp", UNCHANGED <<app, delivered>>,
         pc' = pc \/ (pc = "receipt" /\ pc' = "deliver")
  PROVE  \A m \in Msgs : Load(m)' <= Load(m)
<1> SUFFICES ASSUME NEW m \in Msgs PROVE Load(m)' <= Load(m)
  OBVIOUS
<1>0. queue \in Seq(Entry) /\ queue' \in Seq(Entry)
  BY DEF TypeOK, ThreadsOK
<1>1. queue # <<>> => Current' = Current
  BY <1>0 DEF Current
<1>2. Being(m)' = Being(m) /\ Done(m)' = Done(m)
  BY <1>1 DEF Being, Done, HeadInv
<1>3. Temps(queue', m) <= Temps(queue, m) /\ Temps(queue', m) \in Nat
  <2>1. Temps(queue \o e, m) <= Temps(queue, m) + Temps(e, m)
    BY <1>0, TempsAppended
  <2>2. Temps(e, m) = 0
    BY TempsOfOthers
  <2>3. Temps(queue, m) \in Nat /\ Temps(queue', m) \in Nat
    BY <1>0, TempsType
  <2> QED BY <2>1, <2>2, <2>3
<1>4. Load(m)' = delivered[m] + Temps(queue', m) + Temps(app.list, m) + Being(m) - Done(m)
  BY <1>2 DEF Load
<1>5. /\ delivered[m] \in Nat /\ Temps(queue, m) \in Nat /\ Temps(app.list, m) \in Nat
      /\ Being(m) \in {0, 1} /\ Done(m) \in {0, 1}
  BY LoadType
<1> QED BY <1>3, <1>4, <1>5 DEF Load

(* The head is popped: what is done is no longer counted.                  *)
LEMMA LoadPops ==
  ASSUME TypeOK, HeadInv, queue # <<>>, NEW e \in Seq(Entry), queue' = Tail(queue) \o e,
         \A x \in Items(e) : x.cmd # "temp", UNCHANGED <<app, delivered>>, pc' = "idle"
  PROVE  \A m \in Msgs : Load(m)' <= Load(m)
<1> SUFFICES ASSUME NEW m \in Msgs PROVE Load(m)' <= Load(m)
  OBVIOUS
<1>0. queue \in Seq(Entry) /\ Tail(queue) \in Seq(Entry) /\ queue' \in Seq(Entry)
  BY DEF TypeOK, ThreadsOK
<1>1. Being(m)' = 0 /\ Done(m)' = 0
  BY DEF Being, Done
<1>2. Temps(queue', m) <= Temps(queue, m) - Done(m)
  <2>1. Temps(Tail(queue) \o e, m) <= Temps(Tail(queue), m) + Temps(e, m)
    BY <1>0, TempsAppended
  <2>2. Temps(e, m) = 0
    BY TempsOfOthers
  <2>3. /\ Temps(queue, m) \in Nat /\ Temps(queue', m) \in Nat
        /\ Temps(Tail(queue), m) \in Nat
    BY <1>0, TempsType
  <2>4. /\ Temps(Tail(queue), m) <= Temps(queue, m)
        /\ Done(m) = 1 => Temps(Tail(queue), m) <= Temps(queue, m) - 1
    BY <1>0, TempsPopped DEF Done, Current
  <2> QED BY <2>1, <2>2, <2>3, <2>4, LoadType
<1>3. /\ delivered[m] \in Nat /\ Temps(queue, m) \in Nat /\ Temps(app.list, m) \in Nat
      /\ Being(m) \in {0, 1} /\ Done(m) \in {0, 1} /\ Temps(queue', m) \in Nat
  BY <1>0, LoadType, TempsType
<1>4. Load(m)' = delivered[m] + Temps(queue', m) + Temps(app.list, m)
  BY <1>1, <1>3 DEF Load
<1> QED BY <1>2, <1>3, <1>4 DEF Load

(* The steps that leave the tables alone, apart from deleting rows.        *)
LEMMA QuietPaid ==
  ASSUME TypeOK, HeadInv, TypeOK', HeadInv', TablesInv, PaidInv, FewerTables,
         UNCHANGED <<queue, app, delivered, pc, retries>>, retries \in Int, faults <= faults'
  PROVE  TablesInv' /\ PaidInv'
<1>1. TablesInv'
  BY TablesStay DEF Current
<1>2. \A k \in Msgs : Load(k)' <= Load(k)
  BY LoadGoes
<1> QED BY <1>1, <1>2, PaidStays DEF FewerTables

LEMMA AppendPaid ==
  ASSUME TypeOK, HeadInv, TypeOK', HeadInv', TablesInv, PaidInv, FewerTables,
         retries \in Int, faults \in Int,
         NEW e \in Seq(Entry), queue' = queue \o e, \A x \in Items(e) : x.cmd # "temp",
         pc' = pc \/ (pc = "receipt" /\ pc' = "deliver"),
         UNCHANGED <<app, delivered, retries, faults>>
  PROVE  TablesInv' /\ PaidInv'
<1>1. queue # <<>> => Current' = Current
  BY DEF TypeOK, ThreadsOK, Current
<1>2. TablesInv'
  BY <1>1, TablesStay DEF HeadInv
<1>3. \A k \in Msgs : Load(k)' <= Load(k)
  BY LoadAppends
<1> QED BY <1>2, <1>3, PaidStays DEF FewerTables

LEMMA PopPaid ==
  ASSUME TypeOK, HeadInv, TypeOK', HeadInv', TablesInv, PaidInv, FewerTables, retries \in Int,
         queue # <<>>, NEW e \in Seq(Entry), queue' = Tail(queue) \o e,
         \A x \in Items(e) : x.cmd # "temp", pc' = "idle",
         UNCHANGED <<app, delivered, retries>>, faults <= faults'
  PROVE  TablesInv' /\ PaidInv'
<1>1. TablesInv'
  BY TablesStay
<1>2. \A k \in Msgs : Load(k)' <= Load(k)
  BY LoadPops
<1> QED BY <1>1, <1>2, PaidStays DEF FewerTables

LEMMA GoPaid ==
  ASSUME TypeOK, HeadInv, TypeOK', HeadInv', TablesInv, PaidInv, FewerTables, retries \in Int,
         {pc, pc'} \intersect {"receipt", "deliver", "deltemp"} = {}, FreshInv',
         UNCHANGED <<queue, app, delivered, retries>>, faults <= faults'
  PROVE  TablesInv' /\ PaidInv'
<1>1. TablesInv'
  BY RowsFewer DEF TablesInv
<1>2. \A k \in Msgs : Load(k)' <= Load(k)
  BY LoadGoes
<1> QED BY <1>1, <1>2, PaidStays DEF FewerTables

(* Every step of every thread keeps it.                                    *)
LEMMA PaidStep == IInv /\ TablesInv /\ PaidInv /\ [Next]_vars => TablesInv' /\ PaidInv'
<1> SUFFICES ASSUME IInv, TablesInv, PaidInv, [Next]_vars PROVE TablesInv' /\ PaidInv'
  OBVIOUS
<1>0. /\ TypeOK /\ HeadInv /\ (~tx => db = disk)
      /\ db \in Tables /\ disk \in Tables /\ queue \in Seq(Entry) /\ app.list \in Seq(Entry)
  BY DEF IInv, TxInv, TypeOK, StoreOK, ThreadsOK
<1>t. TypeOK' /\ HeadInv'
  BY <1>0, TypeStep
<1>a. <<>> \in Seq(Entry) /\ Items(<<>>) = {} /\ queue \o <<>> = queue
  BY <1>0 DEF Items
<1>b. /\ retries \in Int /\ faults \in Int
  BY <1>0 DEF TypeOK, CountsOK
<1>c. queue # <<>> => (queue' = queue => Current' = Current)
  BY DEF Current
<1>1. ASSUME NEW m \in Msgs, ReceiveInsert(m) PROVE TablesInv' /\ PaidInv'
  <2>1. FewerTables
    BY <1>0, <1>1, StatementFewer DEF ReceiveInsert, store, FewerTables, Tables
  <2>2. UNCHANGED <<queue, app, delivered, pc, retries>> /\ faults <= faults'
    BY <1>b, <1>1 DEF ReceiveInsert, threads, outcome, counts
  <2> QED BY <1>0, <1>t, <1>b, <2>1, <2>2, QuietPaid
<1>2. ASSUME ReceiveInsertFails PROVE TablesInv' /\ PaidInv'
  <2>1. FewerTables
    BY <1>0, <1>2, StatementFewer DEF ReceiveInsertFails, store, FewerTables, Tables
  <2>2. UNCHANGED <<queue, app, delivered, pc, retries>> /\ faults <= faults'
    BY <1>b, <1>2 DEF ReceiveInsertFails, threads, outcome, counts
  <2> QED BY <1>0, <1>t, <1>b, <2>1, <2>2, QuietPaid
<1>3. ASSUME ReceiveGetSequence PROVE TablesInv' /\ PaidInv'
  <2>1. FewerTables
    BY <1>0, <1>3, StatementFewer DEF ReceiveGetSequence, store, FewerTables, Tables
  <2>2. UNCHANGED <<queue, app, delivered, pc, retries>> /\ faults <= faults'
    BY <1>b, <1>3 DEF ReceiveGetSequence, threads, outcome, counts
  <2> QED BY <1>0, <1>t, <1>b, <2>1, <2>2, QuietPaid
<1>4. ASSUME ReceiveEnqueue PROVE TablesInv' /\ PaidInv'
  <2> DEFINE x == [cmd |-> "raw", seq |-> net.seq, msg |-> net.msg]
  <2>1. x \in Entry /\ x.cmd = "raw"
    BY <1>0 DEF Entry, TypeOK, ThreadsOK
  <2>2. queue' = Append(queue, x)
    BY <1>4 DEF ReceiveEnqueue
  <2> HIDE DEF x
  <2>3. queue' = queue \o <<x>> /\ <<x>> \in Seq(Entry) /\ Items(<<x>>) = {x}
    BY <1>0, <2>1, <2>2 DEF Items
  <2>4. UNCHANGED <<app, delivered, pc, db, disk, counts>>
    BY <1>4 DEF ReceiveEnqueue, store
  <2> QED BY <1>0, <1>t, <1>b, <2>1, <2>3, <2>4, AppendPaid DEF FewerTables, counts
<1>5. ASSUME DropDuplicate PROVE TablesInv' /\ PaidInv'
  <2>1. FewerTables
    BY <1>0, <1>5, StatementFewer DEF DropDuplicate, RejectEnvelope, DeleteRawRow,
       SavepointLeftOpen, FewerTables, Tables, store, Without
  <2>2. queue # <<>> /\ queue' = Tail(queue) \o <<>> /\ pc' = "idle"
    BY <1>0, <1>5 DEF DropDuplicate, RejectEnvelope, Pop, PopThen, AtHead, NewEnvelope,
       Acceptable, HeadInv
  <2>3. UNCHANGED <<app, delivered, retries>> /\ faults <= faults'
    BY <1>b, <1>5 DEF DropDuplicate, RejectEnvelope, Report, Fault, outcome, counts
  <2>4. <<>> \in Seq(Entry) /\ \A x \in Items(<<>>) : x.cmd # "temp"
    BY <1>a
  <2> QED BY <1>0, <1>t, <1>b, <2>1, <2>2, <2>3, <2>4, PopPaid
<1>6. ASSUME DropMalformed PROVE TablesInv' /\ PaidInv'
  <2>1. FewerTables
    BY <1>0, <1>6, StatementFewer DEF DropMalformed, RejectEnvelope, DeleteRawRow,
       SavepointLeftOpen, FewerTables, Tables, store, Without
  <2>2. queue # <<>> /\ queue' = Tail(queue) \o <<>> /\ pc' = "idle"
    BY <1>0, <1>6 DEF DropMalformed, RejectEnvelope, Pop, PopThen, AtHead, NewEnvelope,
       Acceptable, HeadInv
  <2>3. UNCHANGED <<app, delivered, retries>> /\ faults <= faults'
    BY <1>b, <1>6 DEF DropMalformed, RejectEnvelope, Report, Fault, outcome, counts
  <2>4. <<>> \in Seq(Entry) /\ \A x \in Items(<<>>) : x.cmd # "temp"
    BY <1>a
  <2> QED BY <1>0, <1>t, <1>b, <2>1, <2>2, <2>3, <2>4, PopPaid
<1>7. ASSUME RefuseEnvelope \/ LoadConversationFails \/ DecryptFails
      PROVE  TablesInv' /\ PaidInv'
  <2>1. FewerTables
    BY <1>0, <1>7, Rejected, StatementFewer DEF DeleteRawRow, Tables
  <2>2. UNCHANGED <<queue, app, delivered, retries>> /\ faults <= faults'
    BY <1>b, <1>7, Rejected DEF outcome
  <2>3. {pc, pc'} \intersect {"receipt", "deliver", "deltemp"} = {} /\ FreshInv'
    BY <1>7, Rejected DEF AtHead, FreshInv
  <2> QED BY <1>0, <1>t, <1>b, <2>1, <2>2, <2>3, GoPaid
<1>8. ASSUME ReportRejected PROVE TablesInv' /\ PaidInv'
  <2>1. FewerTables
    BY <1>0, <1>8, StatementFewer DEF ReportRejected, DeleteRawRow,
       SavepointLeftOpen, FewerTables, Tables, store, Without
  <2>2. queue # <<>> /\ queue' = Tail(queue) \o <<>> /\ pc' = "idle"
    BY <1>0, <1>8 DEF ReportRejected, Pop, PopThen, AtHead, NewEnvelope,
       Acceptable, HeadInv
  <2>3. UNCHANGED <<app, delivered, retries>> /\ faults <= faults'
    BY <1>b, <1>8 DEF ReportRejected, Report, Fault, outcome, counts
  <2>4. <<>> \in Seq(Entry) /\ \A x \in Items(<<>>) : x.cmd # "temp"
    BY <1>a
  <2> QED BY <1>0, <1>t, <1>b, <2>1, <2>2, <2>3, <2>4, PopPaid
<1>9. ASSUME DecryptStaged PROVE TablesInv' /\ PaidInv'
  <2>1. FewerTables
    BY <1>0, <1>9, StatementFewer DEF DecryptStaged, BeginTransaction, SavepointLeftOpen,
       DeleteRawRow, FewerTables, Tables, store
  <2>2. UNCHANGED <<queue, app, delivered, retries>> /\ faults <= faults' /\ queue # <<>>
    BY <1>0, <1>b, <1>9 DEF DecryptStaged, Goto, Fault, outcome, counts, Acceptable,
       NewEnvelope, AtHead, HeadInv
  <2>3. {pc, pc'} \intersect {"receipt", "deliver", "deltemp"} = {}
    BY <1>9 DEF DecryptStaged, Goto, Acceptable, NewEnvelope, AtHead
  <2>4. FreshInv'
    BY <1>9, <1>c, <2>1, <2>2 DEF DecryptStaged, Goto, TablesInv, FreshInv, HashedInv,
       MsgsOf, FewerTables, Acceptable, NewEnvelope, AtHead
  <2> QED BY <1>0, <1>t, <1>b, <2>1, <2>2, <2>3, <2>4, GoPaid
<1>10. ASSUME DecryptChain PROVE TablesInv' /\ PaidInv'
  <2>1. FewerTables
    BY <1>0, <1>10, StatementFewer DEF DecryptChain, BeginTransaction, SavepointLeftOpen,
       DeleteRawRow, FewerTables, Tables, store
  <2>2. UNCHANGED <<queue, app, delivered, retries>> /\ faults <= faults' /\ queue # <<>>
    BY <1>0, <1>b, <1>10 DEF DecryptChain, Goto, Fault, outcome, counts, Acceptable,
       NewEnvelope, AtHead, HeadInv
  <2>3. {pc, pc'} \intersect {"receipt", "deliver", "deltemp"} = {}
    BY <1>10 DEF DecryptChain, Goto, Acceptable, NewEnvelope, AtHead
  <2>4. FreshInv'
    BY <1>10, <1>c, <2>1, <2>2 DEF DecryptChain, Goto, TablesInv, FreshInv, HashedInv,
       MsgsOf, FewerTables, Acceptable, NewEnvelope, AtHead
  <2> QED BY <1>0, <1>t, <1>b, <2>1, <2>2, <2>3, <2>4, GoPaid
<1>11. ASSUME ReportUndecryptable PROVE TablesInv' /\ PaidInv'
  <2>1. FewerTables
    BY <1>0, <1>11, StatementFewer DEF ReportUndecryptable, DeleteRawRow,
       SavepointLeftOpen, FewerTables, Tables, store, Without
  <2>2. /\ queue # <<>> /\ pc' = "idle"
        /\ queue' = Tail(queue) \o <<[cmd |-> "error", seq |-> 0, msg |-> Current.msg]>>
    BY <1>0, <1>11 DEF ReportUndecryptable, Pop, PopThen, AtHead, HeadInv, HeadInv
  <2>3. UNCHANGED <<app, delivered, retries>> /\ faults <= faults'
    BY <1>b, <1>11 DEF ReportUndecryptable, Report, Fault, outcome, counts
  <2>4. /\ <<[cmd |-> "error", seq |-> 0, msg |-> Current.msg]>> \in Seq(Entry)
        /\ \A x \in Items(<<[cmd |-> "error", seq |-> 0, msg |-> Current.msg]>>) :
             x.cmd # "temp"
    BY <1>0, <1>11, CurrentType DEF Items, Entry, ReportUndecryptable, HeadInv, TypeOK, ThreadsOK
  <2> QED BY <1>0, <1>t, <1>b, <2>1, <2>2, <2>3, <2>4, PopPaid
<1>12. ASSUME Begin PROVE TablesInv' /\ PaidInv'
  <2>1. FewerTables
    BY <1>0, <1>12, StatementFewer DEF Begin, BeginTransaction, SavepointLeftOpen,
       DeleteRawRow, FewerTables, Tables, store
  <2>2. UNCHANGED <<queue, app, delivered, retries>> /\ faults <= faults' /\ queue # <<>>
    BY <1>0, <1>b, <1>12 DEF Begin, Goto, Fault, outcome, counts, Acceptable, NewEnvelope,
       AtHead, HeadInv
  <2>3. {pc, pc'} \intersect {"receipt", "deliver", "deltemp"} = {}
    BY <1>12 DEF Begin, Goto, Acceptable, NewEnvelope, AtHead
  <2>4. FreshInv'
    BY <1>12, <1>c, <2>1, <2>2 DEF Begin, Goto, TablesInv, FreshInv, HashedInv, MsgsOf,
       FewerTables
  <2> QED BY <1>0, <1>t, <1>b, <2>1, <2>2, <2>3, <2>4, GoPaid
<1>13. ASSUME InsertMsgHash PROVE TablesInv' /\ PaidInv'
  <2>1. tx /\ pc = "hash" /\ pc' = "staged" /\ Current.msg \notin db.hash
    BY <1>13 DEF InsertMsgHash, Goto, IInv, TxInv
  <2>2. /\ db'.temp = db.temp /\ db'.hash = db.hash \union {Current.msg} /\ disk' = disk
    BY <1>0, <1>13, <2>1 DEF InsertMsgHash, Statement, Tables
  <2>3. UNCHANGED <<queue, app, delivered, retries, faults>> /\ queue # <<>>
    BY <1>0, <1>13 DEF InsertMsgHash, Goto, outcome, counts, HeadInv
  <2>4. TablesInv'
    BY <1>c, <2>1, <2>2, <2>3 DEF TablesInv, HashedInv, OneRowInv, FreshInv, MsgsOf
  <2>5. \A k \in Msgs : Load(k)' <= Load(k)
    BY <1>0, <2>1, <2>3, LoadGoes
  <2> QED BY <1>0, <1>t, <1>b, <2>2, <2>3, <2>4, <2>5, PaidStays
<1>14. ASSUME StoreStagedMks PROVE TablesInv' /\ PaidInv'
  <2>1. FewerTables
    BY <1>0, <1>14, StatementFewer DEF StoreStagedMks, BeginTransaction,
       SavepointLeftOpen, DeleteRawRow, FewerTables, Tables, store
  <2>2. UNCHANGED <<queue, app, delivered, retries>> /\ faults <= faults' /\ queue # <<>>
    BY <1>0, <1>b, <1>14 DEF StoreStagedMks, Goto, Fault, outcome, counts, Acceptable,
       NewEnvelope, AtHead, HeadInv
  <2>3. {pc, pc'} \intersect {"receipt", "deliver", "deltemp"} = {}
    BY <1>14 DEF StoreStagedMks, Goto, Acceptable, NewEnvelope, AtHead
  <2>4. FreshInv'
    BY <1>14, <1>c, <2>1, <2>2 DEF StoreStagedMks, Goto, TablesInv, FreshInv, HashedInv,
       MsgsOf, FewerTables
  <2> QED BY <1>0, <1>t, <1>b, <2>1, <2>2, <2>3, <2>4, GoPaid
<1>15. ASSUME StoreConversation PROVE TablesInv' /\ PaidInv'
  <2>1. FewerTables
    BY <1>0, <1>15, StatementFewer DEF StoreConversation, BeginTransaction,
       SavepointLeftOpen, DeleteRawRow, FewerTables, Tables, store
  <2>2. UNCHANGED <<queue, app, delivered, retries>> /\ faults <= faults' /\ queue # <<>>
    BY <1>0, <1>b, <1>15 DEF StoreConversation, Goto, Fault, outcome, counts, Acceptable,
       NewEnvelope, AtHead, HeadInv
  <2>3. {pc, pc'} \intersect {"receipt", "deliver", "deltemp"} = {}
    BY <1>15 DEF StoreConversation, Goto, Acceptable, NewEnvelope, AtHead
  <2>4. FreshInv'
    BY <1>15, <1>c, <2>1, <2>2 DEF StoreConversation, Goto, TablesInv, FreshInv,
       HashedInv, MsgsOf, FewerTables
  <2> QED BY <1>0, <1>t, <1>b, <2>1, <2>2, <2>3, <2>4, GoPaid
<1>16. ASSUME InsertTempMsg PROVE TablesInv' /\ PaidInv'
  <2> DEFINE r == [seq |-> db.tempSeq + 1, msg |-> Current.msg]
  <2>1. tx /\ pc = "temp" /\ pc' = "delraw"
    BY <1>16 DEF InsertTempMsg, IInv, TxInv
  <2>2. r.msg = Current.msg
    OBVIOUS
  <2>3. db'.temp = db.temp \union {r} /\ db'.hash = db.hash /\ disk' = disk
    BY <1>0, <1>16, <2>1 DEF InsertTempMsg, Statement, Tables
  <2> HIDE DEF r
  <2>4. UNCHANGED <<queue, app, delivered, retries, faults>> /\ queue # <<>>
    BY <1>0, <1>16 DEF InsertTempMsg, outcome, counts, HeadInv
  <2>5. TablesInv'
    BY <1>c, <2>1, <2>2, <2>3, <2>4 DEF TablesInv, HashedInv, OneRowInv, FreshInv, MsgsOf
  <2>6. \A k \in Msgs : Load(k)' <= Load(k)
    BY <1>0, <2>1, <2>4, LoadGoes
  <2> QED BY <1>0, <1>t, <1>b, <2>3, <2>4, <2>5, <2>6, PaidStays
<1>17. ASSUME StoreFails PROVE TablesInv' /\ PaidInv'
  <2>1. FewerTables
    BY <1>0, <1>17, StatementFewer DEF StoreFails, BeginTransaction, SavepointLeftOpen,
       DeleteRawRow, FewerTables, Tables, store
  <2>2. UNCHANGED <<queue, app, delivered, retries>> /\ faults <= faults' /\ queue # <<>>
    BY <1>0, <1>b, <1>17 DEF StoreFails, Goto, Fault, outcome, counts, Acceptable,
       NewEnvelope, AtHead, HeadInv
  <2>3. {pc, pc'} \intersect {"receipt", "deliver", "deltemp"} = {}
    BY <1>17 DEF StoreFails, Goto, Acceptable, NewEnvelope, AtHead
  <2>4. FreshInv'
    BY <1>17, <1>c, <2>1, <2>2 DEF StoreFails, Goto, TablesInv, FreshInv, HashedInv,
       MsgsOf, FewerTables
  <2> QED BY <1>0, <1>t, <1>b, <2>1, <2>2, <2>3, <2>4, GoPaid
<1>18. ASSUME Rollback PROVE TablesInv' /\ PaidInv'
  <2>1. /\ db' = disk /\ disk' = disk
        /\ queue # <<>> /\ queue' = Tail(queue) \o <<>> /\ pc' = "idle"
    BY <1>0, <1>18 DEF Rollback, RollbackTransaction, Pop, PopThen, HeadInv
  <2>2. UNCHANGED <<app, delivered, retries, faults>>
    BY <1>18 DEF Rollback, Report, counts
  <2>3. TablesInv'
    BY <2>1 DEF TablesInv, HashedInv, OneRowInv, FreshInv
  <2>4. \A k \in Msgs : Load(k)' <= Load(k)
    BY <1>0, <1>a, <2>1, <2>2, LoadPops
  <2> QED BY <1>0, <1>t, <1>b, <2>1, <2>2, <2>3, <2>4, PaidStays
<1>19. ASSUME DeleteRaw PROVE TablesInv' /\ PaidInv'
  <2>1. FewerTables
    BY <1>0, <1>19, StatementFewer DEF DeleteRaw, BeginTransaction, SavepointLeftOpen,
       DeleteRawRow, FewerTables, Tables, store
  <2>2. UNCHANGED <<queue, app, delivered, retries>> /\ faults <= faults' /\ queue # <<>>
    BY <1>0, <1>b, <1>19 DEF DeleteRaw, Goto, Fault, outcome, counts, Acceptable,
       NewEnvelope, AtHead, HeadInv
  <2>3. {pc, pc'} \intersect {"receipt", "deliver", "deltemp"} = {}
    BY <1>19 DEF DeleteRaw, Goto, Acceptable, NewEnvelope, AtHead
  <2>4. FreshInv'
    BY <1>19, <1>c, <2>1, <2>2 DEF DeleteRaw, Goto, TablesInv, FreshInv, HashedInv,
       MsgsOf, FewerTables
  <2> QED BY <1>0, <1>t, <1>b, <2>1, <2>2, <2>3, <2>4, GoPaid
<1>20. ASSUME Commit PROVE TablesInv' /\ PaidInv'
  <2>1. /\ pc = "commit" /\ pc' = "receipt" /\ queue # <<>>
        /\ db' = db /\ disk' = db /\ UNCHANGED faults
    BY <1>0, <1>20 DEF Commit, CommitTransaction, Goto, HeadInv, counts
  <2>2. UNCHANGED <<queue, app, delivered, retries>>
    BY <1>20 DEF Commit, Goto, outcome, counts, Fault
  <2>3. TablesInv'
    BY <2>1 DEF TablesInv, HashedInv, OneRowInv, FreshInv
  <2>4. SUFFICES ASSUME NEW k \in Msgs PROVE Load(k)' <= Paid(k)'
    BY <2>3 DEF PaidInv
  <2>5. Load(k)' = Load(k) + (IF Current.msg = k THEN 1 ELSE 0)
    <3>1. /\ Being(k) = 0 /\ Done(k) = 0 /\ Done(k)' = 0
          /\ Being(k)' = IF Current.msg = k THEN 1 ELSE 0
      BY <1>0, <1>c, <2>1, <2>2 DEF Being, Done, HeadInv
    <3>2. Load(k)' = delivered[k] + Temps(queue, k) + Temps(app.list, k) + Being(k)' - Done(k)'
      BY <2>2 DEF Load
    <3>3. delivered[k] \in Nat /\ Temps(queue, k) \in Nat /\ Temps(app.list, k) \in Nat
      BY <1>0, LoadType
    <3> QED BY <3>1, <3>2, <3>3 DEF Load
  <2>6. Paid(k) + (IF Current.msg = k THEN 1 ELSE 0) <= Paid(k)'
    <3>1. /\ Current.msg \in db.hash /\ Current.msg \notin disk.hash
          /\ disk.hash \subseteq db.hash
      BY <2>1 DEF TablesInv, FreshInv, HashedInv
    <3>2. Paid(k)' = retries + faults + (IF k \in db.hash THEN 1 ELSE 0)
      BY <2>1, <2>2 DEF Paid
    <3> QED BY <1>b, <3>1, <3>2 DEF Paid
  <2>7. Load(k) <= Paid(k) /\ Load(k) \in Int /\ Paid(k) \in Nat
    BY <1>0, LoadType DEF PaidInv
  <2>8. Paid(k)' \in Int
    <3>1. retries' \in Int /\ faults' \in Int
      BY <1>t DEF TypeOK, CountsOK
    <3>2. Paid(k)' = retries' + faults' + (IF k \in disk'.hash THEN 1 ELSE 0)
      BY DEF Paid
    <3> QED BY <3>1, <3>2
  <2> QED BY <2>5, <2>6, <2>7, <2>8
<1>21. ASSUME CommitFails PROVE TablesInv' /\ PaidInv'
  <2>1. /\ pc = "commit" /\ pc' = "receipt" /\ queue # <<>>
        /\ db' = disk /\ disk' = disk /\ faults' = faults + 1
    BY <1>0, <1>21 DEF CommitFails, Fault, RollbackTransaction, Goto, HeadInv, counts
  <2>2. UNCHANGED <<queue, app, delivered, retries>>
    BY <1>21 DEF CommitFails, Goto, outcome, counts, Fault
  <2>3. TablesInv'
    BY <2>1 DEF TablesInv, HashedInv, OneRowInv, FreshInv
  <2>4. SUFFICES ASSUME NEW k \in Msgs PROVE Load(k)' <= Paid(k)'
    BY <2>3 DEF PaidInv
  <2>5. Load(k)' = Load(k) + (IF Current.msg = k THEN 1 ELSE 0)
    <3>1. /\ Being(k) = 0 /\ Done(k) = 0 /\ Done(k)' = 0
          /\ Being(k)' = IF Current.msg = k THEN 1 ELSE 0
      BY <1>0, <1>c, <2>1, <2>2 DEF Being, Done, HeadInv
    <3>2. Load(k)' = delivered[k] + Temps(queue, k) + Temps(app.list, k) + Being(k)' - Done(k)'
      BY <2>2 DEF Load
    <3>3. delivered[k] \in Nat /\ Temps(queue, k) \in Nat /\ Temps(app.list, k) \in Nat
      BY <1>0, LoadType
    <3> QED BY <3>1, <3>2, <3>3 DEF Load
  <2>6. Paid(k) + (IF Current.msg = k THEN 1 ELSE 0) <= Paid(k)'
    <3>1. Paid(k)' = retries + faults + 1 + (IF k \in disk.hash THEN 1 ELSE 0)
      BY <1>b, <2>1, <2>2 DEF Paid
    <3> QED BY <1>b, <3>1 DEF Paid
  <2>7. Load(k) <= Paid(k) /\ Load(k) \in Int /\ Paid(k) \in Nat
    BY <1>0, LoadType DEF PaidInv
  <2>8. Paid(k)' \in Int
    <3>1. retries' \in Int /\ faults' \in Int
      BY <1>t DEF TypeOK, CountsOK
    <3>2. Paid(k)' = retries' + faults' + (IF k \in disk'.hash THEN 1 ELSE 0)
      BY DEF Paid
    <3> QED BY <3>1, <3>2
  <2> QED BY <2>5, <2>6, <2>7, <2>8
<1>22. ASSUME SendDeliveryReceipt PROVE TablesInv' /\ PaidInv'
  <2> DEFINE x == [cmd |-> "receipt", seq |-> 0, msg |-> Current.msg]
  <2>1. x \in Entry /\ x.cmd = "receipt"
    BY <1>0, <1>22, CurrentType DEF Entry, SendDeliveryReceipt, HeadInv, TypeOK
  <2>2. queue' = Append(queue, x) /\ pc = "receipt" /\ pc' = "deliver"
    BY <1>22 DEF SendDeliveryReceipt
  <2> HIDE DEF x
  <2>3. queue' = queue \o <<x>> /\ <<x>> \in Seq(Entry) /\ Items(<<x>>) = {x}
    BY <1>0, <2>1, <2>2 DEF Items
  <2>4. UNCHANGED <<app, delivered, db, disk, counts>>
    BY <1>22 DEF SendDeliveryReceipt, store, outcome
  <2> QED BY <1>0, <1>t, <1>b, <2>1, <2>2, <2>3, <2>4, AppendPaid DEF FewerTables, counts
<1>23. ASSUME TakeTemp PROVE TablesInv' /\ PaidInv'
  <2>1. /\ UNCHANGED <<queue, app, delivered, db, disk, counts>>
        /\ pc = "idle" /\ Current.cmd = "temp" /\ pc' = "deliver"
    BY <1>23 DEF TakeTemp, AtHead, store, outcome
  <2>2. TablesInv'
    BY <2>1, TablesStay DEF FewerTables
  <2>3. \A k \in Msgs : Load(k)' <= Load(k)
    BY <1>0, <2>1, LoadGoes
  <2> QED BY <1>0, <1>t, <1>b, <2>1, <2>2, <2>3, PaidStays DEF counts
<1>24. ASSUME Deliver PROVE TablesInv' /\ PaidInv'
  <2>1. /\ UNCHANGED <<queue, app, db, disk, counts>> /\ queue # <<>>
        /\ Current.cmd \in {"raw", "temp"}
        /\ pc = "deliver" /\ pc' = "deltemp" /\ Current.msg \in Msgs
        /\ delivered' = [delivered EXCEPT ![Current.msg] = @ + 1]
    BY <1>0, <1>24, CurrentType DEF Deliver, Goto, HeadInv, store, TypeOK
  <2>2. TablesInv'
    BY <2>1, TablesStay DEF FewerTables
  <2>3. ASSUME NEW k \in Msgs PROVE Load(k)' <= Load(k)
    <3>1. /\ delivered[k] \in Nat /\ Temps(queue, k) \in Nat /\ Temps(app.list, k) \in Nat
      BY <1>0, LoadType
    <3>2. Load(k)' = delivered'[k] + Temps(queue, k) + Temps(app.list, k) + Being(k)' - Done(k)'
      BY <2>1 DEF Load
    <3>3. delivered'[k] = delivered[k] + (IF Current.msg = k THEN 1 ELSE 0)
      BY <1>0, <2>1, <3>1 DEF TypeOK, OutcomeOK
    <3>4. /\ Done(k) = 0 /\ Being(k)' = 0
          /\ Being(k) = IF Current.cmd = "raw" /\ Current.msg = k THEN 1 ELSE 0
          /\ Done(k)' = IF Current.cmd = "temp" /\ Current.msg = k THEN 1 ELSE 0
      BY <1>c, <2>1 DEF Being, Done
    <3>5. CASE Current.msg = k
      BY <2>1, <3>1, <3>2, <3>3, <3>4, <3>5 DEF Load
    <3>6. CASE Current.msg # k
      BY <3>1, <3>2, <3>3, <3>4, <3>6 DEF Load
    <3> QED BY <3>5, <3>6
  <2> QED BY <1>0, <1>t, <1>b, <2>1, <2>2, <2>3, PaidStays DEF counts
<1>25. ASSUME DeliverRejected PROVE TablesInv' /\ PaidInv'
  <2>1. FewerTables
    BY <1>0, <1>25, StatementFewer DEF DeliverRejected, RejectEnvelope, DeleteRawRow,
       SavepointLeftOpen, FewerTables, Tables, store, Without
  <2>2. queue # <<>> /\ queue' = Tail(queue) \o <<>> /\ pc' = "idle"
    BY <1>0, <1>25 DEF DeliverRejected, RejectEnvelope, Pop, PopThen, AtHead, NewEnvelope,
       Acceptable, HeadInv
  <2>3. UNCHANGED <<app, delivered, retries>> /\ faults <= faults'
    BY <1>b, <1>25 DEF DeliverRejected, RejectEnvelope, Report, Fault, outcome, counts
  <2>4. <<>> \in Seq(Entry) /\ \A x \in Items(<<>>) : x.cmd # "temp"
    BY <1>a
  <2> QED BY <1>0, <1>t, <1>b, <2>1, <2>2, <2>3, <2>4, PopPaid
<1>26. ASSUME DeleteTemp PROVE TablesInv' /\ PaidInv'
  <2>1. FewerTables
    BY <1>0, <1>26, StatementFewer DEF DeleteTemp, RejectEnvelope, DeleteRawRow,
       SavepointLeftOpen, FewerTables, Tables, store, Without
  <2>2. queue # <<>> /\ queue' = Tail(queue) \o <<>> /\ pc' = "idle"
    BY <1>0, <1>26 DEF DeleteTemp, RejectEnvelope, Pop, PopThen, AtHead, NewEnvelope,
       Acceptable, HeadInv
  <2>3. UNCHANGED <<app, delivered, retries>> /\ faults <= faults'
    BY <1>b, <1>26 DEF DeleteTemp, RejectEnvelope, Report, Fault, outcome, counts
  <2>4. <<>> \in Seq(Entry) /\ \A x \in Items(<<>>) : x.cmd # "temp"
    BY <1>a
  <2> QED BY <1>0, <1>t, <1>b, <2>1, <2>2, <2>3, <2>4, PopPaid
<1>27. ASSUME SendCommand PROVE TablesInv' /\ PaidInv'
  <2>1. FewerTables
    BY <1>0, <1>27, StatementFewer DEF SendCommand, RejectEnvelope, DeleteRawRow,
       SavepointLeftOpen, FewerTables, Tables, store, Without
  <2>2. queue # <<>> /\ queue' = Tail(queue) \o <<>> /\ pc' = "idle"
    BY <1>0, <1>27 DEF SendCommand, RejectEnvelope, Pop, PopThen, AtHead, NewEnvelope,
       Acceptable, HeadInv
  <2>3. UNCHANGED <<app, delivered, retries>> /\ faults <= faults'
    BY <1>b, <1>27 DEF SendCommand, RejectEnvelope, Report, Fault, outcome, counts
  <2>4. <<>> \in Seq(Entry) /\ \A x \in Items(<<>>) : x.cmd # "temp"
    BY <1>a
  <2> QED BY <1>0, <1>t, <1>b, <2>1, <2>2, <2>3, <2>4, PopPaid
<1>28. ASSUME SendCommandFails PROVE TablesInv' /\ PaidInv'
  <2>1. FewerTables
    BY <1>0, <1>28, StatementFewer DEF SendCommandFails, RejectEnvelope, DeleteRawRow,
       SavepointLeftOpen, FewerTables, Tables, store, Without
  <2>2. queue # <<>> /\ queue' = Tail(queue) \o <<>> /\ pc' = "idle"
    BY <1>0, <1>28 DEF SendCommandFails, RejectEnvelope, Pop, PopThen, AtHead,
       NewEnvelope, Acceptable, HeadInv
  <2>3. UNCHANGED <<app, delivered, retries>> /\ faults <= faults'
    BY <1>b, <1>28 DEF SendCommandFails, RejectEnvelope, Report, Fault, outcome, counts
  <2>4. <<>> \in Seq(Entry) /\ \A x \in Items(<<>>) : x.cmd # "temp"
    BY <1>a
  <2> QED BY <1>0, <1>t, <1>b, <2>1, <2>2, <2>3, <2>4, PopPaid
<1>29. ASSUME RetryLoadTemp PROVE TablesInv' /\ PaidInv'
  <2>1. PICK rows \in Ordered(db.temp) :
          /\ app' = [pc |-> "raw", list |-> Entries(rows, "temp")]
          /\ queue' = queue \o Entries(rows, "receipt")
    BY <1>29 DEF RetryLoadTemp
  <2>2. UNCHANGED <<db, disk, pc, delivered, faults>> /\ retries' = retries + 1
    BY <1>29 DEF RetryLoadTemp, store, outcome
  <2>3. db.temp \in SUBSET Row /\ IsFiniteSet(db.temp)
    BY <1>0 DEF TypeOK, StoreOK, Tables
  <2>4. /\ Entries(rows, "receipt") \in Seq(Entry)
        /\ \A x \in Items(Entries(rows, "receipt")) : x.cmd # "temp"
        /\ Entries(rows, "temp") \in Seq(Entry)
    BY <2>1, <2>3, EntriesType DEF Items
  <2>5. queue' \in Seq(Entry) /\ (queue # <<>> => Current' = Current)
    BY <1>0, <2>1, <2>4 DEF Current
  <2>6. TablesInv'
    BY <2>2, <2>5, <1>0, TablesStay DEF FewerTables, HeadInv
  <2>7. SUFFICES ASSUME NEW k \in Msgs PROVE Load(k)' <= Paid(k)'
    BY <2>6 DEF PaidInv
  <2>8. Temps(queue', k) <= Temps(queue, k) /\ Temps(queue', k) \in Nat
    <3>1. Temps(queue \o Entries(rows, "receipt"), k)
            <= Temps(queue, k) + Temps(Entries(rows, "receipt"), k)
      BY <1>0, <2>4, TempsAppended
    <3>2. Temps(Entries(rows, "receipt"), k) = 0
      BY <2>4, TempsOfOthers
    <3>3. Temps(queue, k) \in Nat /\ Temps(queue', k) \in Nat
      BY <1>0, <2>5, TempsType
    <3> QED BY <2>1, <3>1, <3>2, <3>3
  <2>9. Temps(app'.list, k) <= 1 /\ Temps(app'.list, k) \in Nat
    <3>1. app'.list = Entries(rows, "temp")
      BY <2>1
    <3>2. Temps(Entries(rows, "temp"), k) <= 1
      BY <2>1, <2>3, TempsLoaded DEF TablesInv, OneRowInv
    <3> QED BY <2>4, <3>1, <3>2, TempsType
  <2>10. Being(k)' = Being(k) /\ Done(k)' = Done(k)
    BY <1>0, <2>2, <2>5 DEF Being, Done, HeadInv
  <2>11. Load(k)' = delivered[k] + Temps(queue', k) + Temps(app'.list, k) + Being(k) - Done(k)
    BY <2>2, <2>10 DEF Load
  <2>12. Paid(k)' = Paid(k) + 1
    BY <1>b, <2>2 DEF Paid
  <2>13. /\ delivered[k] \in Nat /\ Temps(queue, k) \in Nat /\ Temps(app.list, k) \in Nat
         /\ Being(k) \in {0, 1} /\ Done(k) \in {0, 1} /\ Paid(k) \in Nat
         /\ Load(k) <= Paid(k)
    BY <1>0, LoadType DEF PaidInv
  <2> QED BY <2>8, <2>9, <2>11, <2>12, <2>13 DEF Load
<1>30. ASSUME RetryLoadRaw PROVE TablesInv' /\ PaidInv'
  <2>1. PICK rows \in Ordered(db.raw) : queue' = queue \o (app.list \o Entries(rows, "raw"))
    BY <1>30 DEF RetryLoadRaw
  <2>2. /\ UNCHANGED <<db, disk, pc, delivered, counts>>
        /\ app' = [pc |-> "idle", list |-> <<>>]
    BY <1>30 DEF RetryLoadRaw, store, outcome
  <2>3. db.raw \in SUBSET Row /\ IsFiniteSet(db.raw)
    BY <1>0 DEF TypeOK, StoreOK, Tables
  <2>4. /\ Entries(rows, "raw") \in Seq(Entry)
        /\ \A x \in Items(Entries(rows, "raw")) : x.cmd # "temp"
    BY <2>1, <2>3, EntriesType DEF Items
  <2>5. /\ queue' \in Seq(Entry) /\ app.list \o Entries(rows, "raw") \in Seq(Entry)
        /\ queue # <<>> => Current' = Current
    <3> DEFINE e == app.list \o Entries(rows, "raw")
    <3>1. e \in Seq(Entry)
      BY <1>0, <2>4
    <3>2. queue' = queue \o e
      BY <2>1
    <3> HIDE DEF e
    <3>3. queue' \in Seq(Entry) /\ (queue # <<>> => Current' = Current)
      BY <1>0, <3>1, <3>2 DEF Current
    <3> QED BY <3>1, <3>3 DEF e
  <2>6. TablesInv'
    BY <2>2, <2>5, <1>0, TablesStay DEF FewerTables, HeadInv
  <2>7. ASSUME NEW k \in Msgs PROVE Load(k)' <= Load(k)
    <3>1. Temps(queue', k) <= Temps(queue, k) + Temps(app.list, k) /\ Temps(queue', k) \in Nat
      <4>1. /\ Temps(queue', k) <= Temps(queue, k) + Temps(app.list \o Entries(rows, "raw"), k)
            /\ Temps(app.list \o Entries(rows, "raw"), k)
                 <= Temps(app.list, k) + Temps(Entries(rows, "raw"), k)
        BY <1>0, <2>1, <2>4, <2>5, TempsAppended
      <4>2. Temps(Entries(rows, "raw"), k) = 0
        BY <2>4, TempsOfOthers
      <4>3. /\ Temps(queue, k) \in Nat /\ Temps(queue', k) \in Nat /\ Temps(app.list, k) \in Nat
            /\ Temps(app.list \o Entries(rows, "raw"), k) \in Nat
        BY <1>0, <2>5, TempsType
      <4> QED BY <4>1, <4>2, <4>3
    <3>2. Temps(app'.list, k) = 0
      BY <1>a, <2>2, TempsOfOthers
    <3>3. Being(k)' = Being(k) /\ Done(k)' = Done(k)
      BY <1>0, <2>2, <2>5 DEF Being, Done, HeadInv
    <3>4. /\ delivered[k] \in Nat /\ Temps(queue, k) \in Nat /\ Temps(app.list, k) \in Nat
          /\ Being(k) \in {0, 1} /\ Done(k) \in {0, 1}
      BY <1>0, LoadType
    <3>5. Load(k)' = delivered[k] + Temps(queue', k) + Temps(app'.list, k) + Being(k) - Done(k)
      BY <2>2, <3>3 DEF Load
    <3> QED BY <3>1, <3>2, <3>4, <3>5 DEF Load
  <2> QED BY <1>0, <1>t, <1>b, <2>2, <2>6, <2>7, PaidStays DEF counts
<1>31. ASSUME Crash PROVE TablesInv' /\ PaidInv'
  <2>1. /\ db' = disk /\ disk' = disk /\ queue' = <<>> /\ pc' = "idle" /\ app'.list = <<>>
        /\ UNCHANGED <<delivered, retries, faults>>
    BY <1>31 DEF Crash, ConnectionLost, RollbackTransaction, outcome
  <2>2. TablesInv'
    BY <2>1 DEF TablesInv, HashedInv, OneRowInv, FreshInv
  <2>3. ASSUME NEW k \in Msgs PROVE Load(k)' <= Load(k)
    <3>1. Temps(queue', k) = 0 /\ Temps(app'.list, k) = 0 /\ Being(k)' = 0 /\ Done(k)' = 0
      BY <1>a, <2>1, TempsOfOthers DEF Being, Done
    <3>2. /\ delivered[k] \in Nat /\ Temps(app.list, k) \in Nat /\ Load(k) \in Int
          /\ delivered[k] <= Load(k) - Temps(app.list, k)
      BY <1>0, LoadType
    <3>3. Load(k)' = delivered[k]
      BY <2>1, <3>1, <3>2 DEF Load
    <3> QED BY <3>2, <3>3
  <2> QED BY <1>0, <1>t, <1>b, <2>1, <2>2, <2>3, PaidStays
<1>32. ASSUME UNCHANGED vars PROVE TablesInv' /\ PaidInv'
  <2>1. FewerTables /\ UNCHANGED <<queue, app, delivered, pc, retries>> /\ faults <= faults'
    BY <1>b, <1>32 DEF vars, store, threads, outcome, counts, FewerTables
  <2> QED BY <1>0, <1>t, <1>b, <2>1, QuietPaid
<1> QED
  BY <1>1, <1>2, <1>3, <1>4, <1>5, <1>6, <1>7, <1>8, <1>9, <1>10, <1>11, <1>12, <1>13,
     <1>14, <1>15, <1>16, <1>17, <1>18, <1>19, <1>20, <1>21, <1>22, <1>23, <1>24, <1>25,
     <1>26, <1>27, <1>28, <1>29, <1>30, <1>31, <1>32 DEF Next, Network,
     Process, Application

LEMMA InitPaid == Init => TablesInv /\ PaidInv
<1> SUFFICES ASSUME Init PROVE TablesInv /\ PaidInv
  OBVIOUS
<1>1. TablesInv
  BY DEF Init, Empty, TablesInv, HashedInv, OneRowInv, FreshInv, MsgsOf
<1>2. ASSUME NEW m \in Msgs PROVE Load(m) <= Paid(m)
  <2>1. <<>> \in Seq(Entry) /\ Items(<<>>) = {}
    BY DEF Items
  <2>2. Temps(queue, m) = 0 /\ Temps(app.list, m) = 0
    BY <2>1, TempsOfOthers DEF Init
  <2>3. delivered[m] = 0 /\ Being(m) = 0 /\ Done(m) = 0 /\ Paid(m) = 0
    BY DEF Init, Empty, Being, Done, Paid
  <2> QED BY <2>2, <2>3 DEF Load
<1> QED BY <1>1, <1>2 DEF PaidInv

(* Every delivery of a message beyond the first takes a retry or a failed  *)
(* statement, whatever the process dies in between.                        *)
THEOREM DeliveriesPaid == Spec => []DeliveryPaid
<1>1. IInv /\ (TablesInv /\ PaidInv) /\ [Next]_vars => (TablesInv /\ PaidInv)'
  BY PaidStep
<1>2. IInv /\ PaidInv => DeliveryPaid
  <2> SUFFICES ASSUME IInv, PaidInv, NEW m \in Msgs
               PROVE  delivered[m] <= 1 + retries + faults
    BY DEF DeliveryPaid
  <2>1. /\ delivered[m] \in Nat /\ Temps(app.list, m) \in Nat /\ Load(m) \in Int
        /\ delivered[m] <= Load(m) - Temps(app.list, m) /\ Load(m) <= Paid(m)
    BY LoadType DEF PaidInv, IInv
  <2>2. retries \in Int /\ faults \in Int
    BY DEF IInv, TypeOK, CountsOK
  <2> QED BY <2>1, <2>2 DEF Paid
<1> QED
  BY InitPaid, <1>1, <1>2, Invariant, PTL DEF Spec

-----------------------------------------------------------------------------
(* The raw rows, as long as no statement has failed.                       *)

RawRows == db.raw \union disk.raw

(* Who holds number s for envelope m may delete the row s.                 *)
NumberOf(s, m) == s <= db.rawSeq /\ \A r \in RawRows : r.seq = s => r.msg = m

RawTablesInv ==
  /\ disk.rawSeq <= db.rawSeq
  /\ \A r \in RawRows : r.seq <= db.rawSeq
  /\ \A r \in disk.raw : r.seq <= disk.rawSeq
  /\ \A q, r \in RawRows : q.seq = r.seq => q = r

(* Nothing but the command thread's own transaction is ever open, it never *)
(* rolls back, and it takes no row from the disk but that of the envelope  *)
(* in process, whose plain text it commits along with it.                  *)
RawTxInv ==
  /\ tx <=> pc \in {"hash", "staged", "conv", "temp", "delraw", "commit"}
  /\ pc # "rollback"
  /\ \A r \in disk.raw \ db.raw : pc = "commit" /\ r.msg = Current.msg
  /\ pc \in {"delraw", "commit"} => Current.msg \in MsgsOf(db.temp)

NumbersInv ==
  /\ net.pc = "inserted" => NumberOf(db.rawSeq, net.msg)
  /\ net.pc = "numbered" => NumberOf(net.seq, net.msg)
  /\ \A x \in Items(queue) : x.cmd = "raw" => NumberOf(x.seq, x.msg)

RawInv == faults = 0 => RawTablesInv /\ RawTxInv /\ NumbersInv

FewerRaw ==
  /\ db'.raw \subseteq db.raw /\ disk'.raw \subseteq disk.raw
  /\ db'.rawSeq = db.rawSeq /\ disk'.rawSeq = disk.rawSeq

LEMMA StatementFewerRaw ==
  ASSUME ~tx => db = disk, NEW new, Statement(new), new.raw \subseteq db.raw,
         new.rawSeq = db.rawSeq
  PROVE  FewerRaw
BY DEF FewerRaw, Statement

LEMMA RawFewer ==
  ASSUME FewerRaw, RawTablesInv
  PROVE  RawTablesInv' /\ \A s, m : NumberOf(s, m) => NumberOf(s, m)'
BY DEF FewerRaw, RawTablesInv, RawRows, NumberOf

(* Fewer rows, and no raw entries that were not there before.              *)
LEMMA RawStays ==
  ASSUME FewerRaw, RawTablesInv, NumbersInv, RawTxInv', UNCHANGED net,
         \A x \in Items(queue') : x.cmd = "raw" => x \in Items(queue)
  PROVE  RawTablesInv' /\ RawTxInv' /\ NumbersInv'
<1>1. RawTablesInv' /\ \A s, m : NumberOf(s, m) => NumberOf(s, m)'
  BY RawFewer
<1>2. NumbersInv'
  BY <1>1 DEF NumbersInv, FewerRaw
<1> QED BY <1>1, <1>2

LEMMA ItemsPopped ==
  ASSUME queue \in Seq(Entry), queue # <<>>, NEW e \in Seq(Entry), queue' = Tail(queue) \o e,
         \A x \in Items(e) : x.cmd # "raw"
  PROVE  \A x \in Items(queue') : x.cmd = "raw" => x \in Items(queue)
<1>1. Tail(queue) \in Seq(Entry)
  OBVIOUS
<1>2. /\ Items(queue) = {Head(queue)} \union Items(Tail(queue))
      /\ Items(queue') = Items(Tail(queue)) \union Items(e)
  BY <1>1, ItemsOf
<1> QED BY <1>2

LEMMA ItemsAppended ==
  ASSUME queue \in Seq(Entry), NEW e \in Seq(Entry), queue' = queue \o e,
         \A x \in Items(e) : x.cmd # "raw"
  PROVE  \A x \in Items(queue') : x.cmd = "raw" => x \in Items(queue)
BY ItemsOf

(* Every step of every thread keeps it.                                    *)
LEMMA RawStep == IInv /\ ListInv /\ RawInv /\ [Next]_vars => RawInv'
<1> SUFFICES ASSUME IInv, ListInv, RawInv, [Next]_vars, faults' = 0
             PROVE  (RawTablesInv /\ RawTxInv /\ NumbersInv)'
  BY DEF RawInv
<1>0. /\ TypeOK /\ HeadInv /\ (~tx => db = disk)
      /\ db \in Tables /\ disk \in Tables /\ queue \in Seq(Entry) /\ app.list \in Seq(Entry)
      /\ faults \in Nat
  BY DEF IInv, TxInv, TypeOK, StoreOK, ThreadsOK, CountsOK
<1>a. <<>> \in Seq(Entry) /\ Items(<<>>) = {} /\ queue \o <<>> = queue
  BY <1>0 DEF Items
<1>b. ~Fault
  BY <1>0 DEF Fault
<1>c. faults = 0
  <2>1. CASE Network \/ Application \/ Crash \/ UNCHANGED vars
    <3>1. faults' = faults \/ faults' = faults + 1
      BY <2>1 DEF vars, counts, Network, Application, Crash, ReceiveInsert,
         ReceiveInsertFails, ReceiveGetSequence, ReceiveEnqueue, RetryLoadTemp,
         RetryLoadRaw
    <3> QED BY <1>0, <3>1
  <2>2. CASE Process
    <3>1. faults' = faults
      BY <1>b, <2>2 DEF counts, Process, DropDuplicate, DropMalformed, RefuseEnvelope,
         LoadConversationFails, DecryptStaged, DecryptChain, DecryptFails, RejectEnvelope,
         ReportRejected, ReportUndecryptable, Begin,
         InsertMsgHash, StoreStagedMks, StoreConversation, InsertTempMsg, StoreFails,
         Rollback, DeleteRaw, Commit, CommitFails, SendDeliveryReceipt, TakeTemp, Deliver,
         DeliverRejected, DeleteTemp, SendCommand, SendCommandFails
    <3> QED BY <3>1
  <2> QED BY <2>1, <2>2 DEF Next
<1>d. RawTablesInv /\ RawTxInv /\ NumbersInv
  BY <1>c DEF RawInv
<1>e. queue # <<>> => Current \in Entry /\ Current \in Items(queue)
  BY <1>0, CurrentType, ItemsOf DEF Current, TypeOK
<1>f. queue # <<>> => (queue' = queue => Current' = Current)
  BY DEF Current
<1>1. ASSUME NEW m \in Msgs, ReceiveInsert(m) PROVE (RawTablesInv /\ RawTxInv /\ NumbersInv)'
  <2> DEFINE r == [seq |-> db.rawSeq + 1, msg |-> m]
  <2>1. r.seq = db.rawSeq + 1 /\ r.msg = m
    OBVIOUS
  <2>2. /\ db'.raw = db.raw \union {r} /\ db'.rawSeq = db.rawSeq + 1 /\ db'.temp = db.temp
        /\ disk' = IF tx THEN disk ELSE db'
        /\ net'.pc = "inserted" /\ net'.msg = m
        /\ UNCHANGED <<tx, queue, pc>>
    BY <1>0, <1>1 DEF ReceiveInsert, Statement, Tables
  <2> HIDE DEF r
  <2>3. /\ db.rawSeq \in Nat /\ disk.rawSeq \in Nat
        /\ \A q \in RawRows : q.seq \in Nat
    BY <1>0 DEF Tables, Row, RawRows
  <2>4. RawRows' = RawRows \union {r}
    BY <1>0, <2>2 DEF RawRows
  <2>5. RawTablesInv'
    <3>1. disk'.rawSeq <= db'.rawSeq
      BY <1>0, <1>d, <2>2, <2>3 DEF RawTablesInv
    <3>2. \A q \in RawRows' : q.seq <= db'.rawSeq
      BY <1>d, <2>1, <2>2, <2>3, <2>4 DEF RawTablesInv
    <3>3. \A q \in disk'.raw : q.seq <= disk'.rawSeq
      BY <1>0, <1>d, <2>1, <2>2, <2>3, <3>2 DEF RawTablesInv, RawRows
    <3>4. \A q, t \in RawRows' : q.seq = t.seq => q = t
      BY <1>d, <2>1, <2>3, <2>4 DEF RawTablesInv
    <3> QED BY <3>1, <3>2, <3>3, <3>4 DEF RawTablesInv
  <2>6. RawTxInv'
    BY <1>0, <1>d, <1>f, <2>2 DEF RawTxInv, HeadInv
  <2>7. ASSUME NEW s \in Nat, NEW k, NumberOf(s, k) PROVE NumberOf(s, k)'
    <3>1. s # db.rawSeq + 1 /\ s <= db.rawSeq + 1
      BY <2>3, <2>7 DEF NumberOf
    <3> QED BY <2>1, <2>2, <2>4, <2>7, <3>1 DEF NumberOf
  <2>8. NumberOf(db.rawSeq, m)'
    <3>1. \A q \in RawRows : q.seq # db.rawSeq + 1
      BY <1>d, <2>3 DEF RawTablesInv
    <3> QED BY <2>1, <2>2, <2>3, <2>4, <3>1 DEF NumberOf
  <2>9. \A x \in Items(queue) : x.seq \in Nat
    BY <1>0, ItemsOf DEF Entry
  <2>10. NumbersInv'
    BY <1>d, <2>2, <2>7, <2>8, <2>9 DEF NumbersInv
  <2> QED BY <2>5, <2>6, <2>10
<1>2. ASSUME ReceiveInsertFails PROVE FALSE
  BY <1>0, <1>c, <1>2 DEF ReceiveInsertFails
<1>3. ASSUME ReceiveGetSequence PROVE (RawTablesInv /\ RawTxInv /\ NumbersInv)'
  <2>1. /\ net.pc = "inserted" /\ net'.pc = "numbered" /\ net'.seq = db.rawSeq
        /\ net'.msg = net.msg /\ UNCHANGED <<db, disk, tx, queue, pc>>
    BY <1>0, <1>3 DEF ReceiveGetSequence, store, TypeOK, ThreadsOK
  <2> QED BY <1>d, <2>1 DEF RawTablesInv, RawTxInv, NumbersInv, NumberOf, RawRows, Current
<1>4. ASSUME ReceiveEnqueue PROVE (RawTablesInv /\ RawTxInv /\ NumbersInv)'
  <2> DEFINE x == [cmd |-> "raw", seq |-> net.seq, msg |-> net.msg]
  <2>1. x \in Entry /\ x.seq = net.seq /\ x.msg = net.msg
    BY <1>0 DEF Entry, TypeOK, ThreadsOK
  <2>2. queue' = Append(queue, x)
    BY <1>4 DEF ReceiveEnqueue
  <2> HIDE DEF x
  <2>3. Items(queue') = Items(queue) \union {x}
    <3>1. queue' = queue \o <<x>> /\ <<x>> \in Seq(Entry) /\ Items(<<x>>) = {x}
      BY <1>0, <2>1, <2>2 DEF Items
    <3>2. Items(queue \o <<x>>) = Items(queue) \union Items(<<x>>)
      BY <1>0, <3>1, ItemsOf
    <3> QED BY <3>1, <3>2
  <2>4. queue # <<>> => Current' = Current
    BY <1>0, <2>1, <2>2 DEF Current
  <2>5. net.pc = "numbered" /\ net'.pc = "idle" /\ UNCHANGED <<db, disk, tx, pc>>
    BY <1>0, <1>4 DEF ReceiveEnqueue, store, TypeOK, ThreadsOK
  <2>6. RawTxInv' /\ RawTablesInv'
    BY <1>0, <1>d, <2>4, <2>5 DEF RawTxInv, HeadInv, RawTablesInv, RawRows
  <2>7. NumbersInv'
    BY <1>d, <2>1, <2>3, <2>5 DEF NumbersInv, NumberOf, RawRows
  <2> QED BY <2>6, <2>7
<1>5. ASSUME DropDuplicate PROVE (RawTablesInv /\ RawTxInv /\ NumbersInv)'
  <2>1. FewerRaw
    BY <1>0, <1>5, StatementFewerRaw DEF DropDuplicate, RejectEnvelope, DeleteRawRow,
       FewerRaw, Tables, store, Without
  <2>2. /\ queue # <<>> /\ queue' = Tail(queue) \o <<>> /\ pc' = "idle" /\ UNCHANGED net
        /\ pc \in {"idle", "deliver", "deltemp"}
    BY <1>0, <1>5 DEF DropDuplicate, RejectEnvelope, Pop, PopThen, AtHead, NewEnvelope,
       Acceptable, HeadInv
  <2>3. <<>> \in Seq(Entry) /\ \A x \in Items(<<>>) : x.cmd # "raw"
    BY <1>a
  <2>4. ~tx' /\ db'.raw = disk'.raw
    BY <1>0, <1>5, <1>d, <2>2 DEF DropDuplicate, RejectEnvelope, DeleteRawRow, Statement,
       RawTxInv, store
  <2>5. RawTxInv'
    BY <2>2, <2>4 DEF RawTxInv
  <2>6. \A x \in Items(queue') : x.cmd = "raw" => x \in Items(queue)
    BY <1>0, <2>2, <2>3, ItemsPopped
  <2> QED BY <1>d, <2>1, <2>2, <2>5, <2>6, RawStays
<1>6. ASSUME DropMalformed PROVE (RawTablesInv /\ RawTxInv /\ NumbersInv)'
  <2>1. FewerRaw
    BY <1>0, <1>6, StatementFewerRaw DEF DropMalformed, RejectEnvelope, DeleteRawRow,
       FewerRaw, Tables, store, Without
  <2>2. /\ queue # <<>> /\ queue' = Tail(queue) \o <<>> /\ pc' = "idle" /\ UNCHANGED net
        /\ pc \in {"idle", "deliver", "deltemp"}
    BY <1>0, <1>6 DEF DropMalformed, RejectEnvelope, Pop, PopThen, AtHead, NewEnvelope,
       Acceptable, HeadInv
  <2>3. <<>> \in Seq(Entry) /\ \A x \in Items(<<>>) : x.cmd # "raw"
    BY <1>a
  <2>4. ~tx' /\ db'.raw = disk'.raw
    BY <1>0, <1>6, <1>d, <2>2 DEF DropMalformed, RejectEnvelope, DeleteRawRow, Statement,
       RawTxInv, store
  <2>5. RawTxInv'
    BY <2>2, <2>4 DEF RawTxInv
  <2>6. \A x \in Items(queue') : x.cmd = "raw" => x \in Items(queue)
    BY <1>0, <2>2, <2>3, ItemsPopped
  <2> QED BY <1>d, <2>1, <2>2, <2>5, <2>6, RawStays
<1>7. ASSUME RefuseEnvelope \/ LoadConversationFails \/ DecryptFails
      PROVE  (RawTablesInv /\ RawTxInv /\ NumbersInv)'
  <2>1. FewerRaw
    BY <1>0, <1>7, Rejected, StatementFewerRaw DEF DeleteRawRow, Without, Tables
  <2>2. UNCHANGED <<queue, net>> /\ pc = "idle" /\ pc' \in {"reject", "failed"}
    BY <1>7, Rejected DEF AtHead
  <2>3. ~tx' /\ db'.raw = disk'.raw
    BY <1>0, <1>7, <1>d, <2>2, Rejected DEF DeleteRawRow, Statement, RawTxInv
  <2>4. RawTxInv'
    BY <2>2, <2>3 DEF RawTxInv
  <2> QED BY <1>d, <2>1, <2>2, <2>4, RawStays
<1>8. ASSUME ReportRejected PROVE (RawTablesInv /\ RawTxInv /\ NumbersInv)'
  <2>1. FewerRaw
    BY <1>0, <1>8, StatementFewerRaw DEF ReportRejected, DeleteRawRow,
       FewerRaw, Tables, store, Without
  <2>2. /\ queue # <<>> /\ queue' = Tail(queue) \o <<>> /\ pc' = "idle" /\ UNCHANGED net
        /\ pc \in {"idle", "reject", "deliver", "deltemp"}
    BY <1>0, <1>8 DEF ReportRejected, Pop, PopThen, AtHead, NewEnvelope,
       Acceptable, HeadInv
  <2>3. <<>> \in Seq(Entry) /\ \A x \in Items(<<>>) : x.cmd # "raw"
    BY <1>a
  <2>4. ~tx' /\ db'.raw = disk'.raw
    BY <1>0, <1>8, <1>d, <2>2 DEF ReportRejected, DeleteRawRow,
       Statement, RawTxInv, store
  <2>5. RawTxInv'
    BY <2>2, <2>4 DEF RawTxInv
  <2>6. \A x \in Items(queue') : x.cmd = "raw" => x \in Items(queue)
    BY <1>0, <2>2, <2>3, ItemsPopped
  <2> QED BY <1>d, <2>1, <2>2, <2>5, <2>6, RawStays
<1>9. ASSUME DecryptStaged PROVE (RawTablesInv /\ RawTxInv /\ NumbersInv)'
  <2>1. FewerRaw
    BY <1>0, <1>9, StatementFewerRaw DEF DecryptStaged, BeginTransaction,
       CommitTransaction, DeleteRawRow, Without, FewerRaw, Tables, store
  <2>2. queue # <<>> /\ UNCHANGED <<queue, net>>
    BY <1>0, <1>9 DEF DecryptStaged, Goto, NewEnvelope, Acceptable, AtHead, HeadInv
  <2>3. RawTxInv'
    BY <1>0, <1>9, <1>d, <1>f, <2>1, <2>2 DEF DecryptStaged, Goto, NewEnvelope,
       Acceptable, AtHead, RawTxInv, Statement, BeginTransaction, Tables, FewerRaw,
       MsgsOf, store
  <2> QED BY <1>d, <2>1, <2>2, <2>3, RawStays
<1>10. ASSUME DecryptChain PROVE (RawTablesInv /\ RawTxInv /\ NumbersInv)'
  <2>1. FewerRaw
    BY <1>0, <1>10, StatementFewerRaw DEF DecryptChain, BeginTransaction,
       CommitTransaction, DeleteRawRow, Without, FewerRaw, Tables, store
  <2>2. queue # <<>> /\ UNCHANGED <<queue, net>>
    BY <1>0, <1>10 DEF DecryptChain, Goto, NewEnvelope, Acceptable, AtHead, HeadInv
  <2>3. RawTxInv'
    BY <1>0, <1>10, <1>d, <1>f, <2>1, <2>2 DEF DecryptChain, Goto, NewEnvelope,
       Acceptable, AtHead, RawTxInv, Statement, BeginTransaction, Tables, FewerRaw,
       MsgsOf, store
  <2> QED BY <1>d, <2>1, <2>2, <2>3, RawStays
<1>11. ASSUME ReportUndecryptable PROVE (RawTablesInv /\ RawTxInv /\ NumbersInv)'
  <2>1. FewerRaw
    BY <1>0, <1>11, StatementFewerRaw DEF ReportUndecryptable, DeleteRawRow,
       FewerRaw, Tables, store, Without
  <2>2. /\ queue # <<>> /\ pc' = "idle" /\ UNCHANGED net
        /\ queue' = Tail(queue) \o <<[cmd |-> "error", seq |-> 0, msg |-> Current.msg]>>
        /\ pc \in {"idle", "failed", "deliver", "deltemp"}
    BY <1>0, <1>11 DEF ReportUndecryptable, Pop, PopThen, AtHead, HeadInv, HeadInv
  <2>3. /\ <<[cmd |-> "error", seq |-> 0, msg |-> Current.msg]>> \in Seq(Entry)
        /\ \A x \in Items(<<[cmd |-> "error", seq |-> 0, msg |-> Current.msg]>>) :
             x.cmd # "raw"
    BY <1>0, <1>11, CurrentType DEF Items, Entry, ReportUndecryptable, HeadInv, TypeOK, ThreadsOK
  <2>4. ~tx' /\ db'.raw = disk'.raw
    BY <1>0, <1>11, <1>d, <2>2 DEF ReportUndecryptable, DeleteRawRow, Statement,
       RawTxInv, store
  <2>5. RawTxInv'
    BY <2>2, <2>4 DEF RawTxInv
  <2>6. \A x \in Items(queue') : x.cmd = "raw" => x \in Items(queue)
    BY <1>0, <2>2, <2>3, ItemsPopped
  <2> QED BY <1>d, <2>1, <2>2, <2>5, <2>6, RawStays
<1>12. ASSUME Begin PROVE (RawTablesInv /\ RawTxInv /\ NumbersInv)'
  <2>1. FewerRaw
    BY <1>0, <1>12, StatementFewerRaw DEF Begin, BeginTransaction, CommitTransaction,
       DeleteRawRow, Without, FewerRaw, Tables, store
  <2>2. queue # <<>> /\ UNCHANGED <<queue, net>>
    BY <1>0, <1>12 DEF Begin, Goto, NewEnvelope, Acceptable, AtHead, HeadInv
  <2>3. RawTxInv'
    BY <1>0, <1>12, <1>d, <1>f, <2>1, <2>2 DEF Begin, Goto, NewEnvelope, Acceptable,
       AtHead, RawTxInv, Statement, BeginTransaction, Tables, FewerRaw, MsgsOf, store
  <2> QED BY <1>d, <2>1, <2>2, <2>3, RawStays
<1>13. ASSUME InsertMsgHash PROVE (RawTablesInv /\ RawTxInv /\ NumbersInv)'
  <2>1. FewerRaw
    BY <1>0, <1>13, StatementFewerRaw DEF InsertMsgHash, BeginTransaction,
       CommitTransaction, DeleteRawRow, Without, FewerRaw, Tables, store
  <2>2. queue # <<>> /\ UNCHANGED <<queue, net>>
    BY <1>0, <1>13 DEF InsertMsgHash, Goto, NewEnvelope, Acceptable, AtHead, HeadInv
  <2>3. RawTxInv'
    BY <1>0, <1>13, <1>d, <1>f, <2>1, <2>2 DEF InsertMsgHash, Goto, NewEnvelope,
       Acceptable, AtHead, RawTxInv, Statement, BeginTransaction, Tables, FewerRaw,
       MsgsOf, store
  <2> QED BY <1>d, <2>1, <2>2, <2>3, RawStays
<1>14. ASSUME StoreStagedMks PROVE (RawTablesInv /\ RawTxInv /\ NumbersInv)'
  <2>1. FewerRaw
    BY <1>0, <1>14, StatementFewerRaw DEF StoreStagedMks, BeginTransaction,
       CommitTransaction, DeleteRawRow, Without, FewerRaw, Tables, store
  <2>2. queue # <<>> /\ UNCHANGED <<queue, net>>
    BY <1>0, <1>14 DEF StoreStagedMks, Goto, NewEnvelope, Acceptable, AtHead, HeadInv
  <2>3. RawTxInv'
    BY <1>0, <1>14, <1>d, <1>f, <2>1, <2>2 DEF StoreStagedMks, Goto, NewEnvelope,
       Acceptable, AtHead, RawTxInv, Statement, BeginTransaction, Tables, FewerRaw,
       MsgsOf, store
  <2> QED BY <1>d, <2>1, <2>2, <2>3, RawStays
<1>15. ASSUME StoreConversation PROVE (RawTablesInv /\ RawTxInv /\ NumbersInv)'
  <2>1. FewerRaw
    BY <1>0, <1>15, StatementFewerRaw DEF StoreConversation, BeginTransaction,
       CommitTransaction, DeleteRawRow, Without, FewerRaw, Tables, store
  <2>2. queue # <<>> /\ UNCHANGED <<queue, net>>
    BY <1>0, <1>15 DEF StoreConversation, Goto, NewEnvelope, Acceptable, AtHead, HeadInv
  <2>3. RawTxInv'
    BY <1>0, <1>15, <1>d, <1>f, <2>1, <2>2 DEF StoreConversation, Goto, NewEnvelope,
       Acceptable, AtHead, RawTxInv, Statement, BeginTransaction, Tables, FewerRaw,
       MsgsOf, store
  <2> QED BY <1>d, <2>1, <2>2, <2>3, RawStays
<1>16. ASSUME InsertTempMsg PROVE (RawTablesInv /\ RawTxInv /\ NumbersInv)'
  <2> DEFINE r == [seq |-> db.tempSeq + 1, msg |-> Current.msg]
  <2>1. FewerRaw
    BY <1>0, <1>16, StatementFewerRaw DEF InsertTempMsg, Tables
  <2>2. r.msg = Current.msg
    OBVIOUS
  <2>3. /\ queue # <<>> /\ UNCHANGED <<queue, net, tx, disk>>
        /\ tx /\ pc = "temp" /\ pc' = "delraw"
        /\ db'.raw = db.raw /\ db'.temp = db.temp \union {r}
    BY <1>0, <1>16, <1>d DEF InsertTempMsg, HeadInv, RawTxInv, Statement, Tables
  <2> HIDE DEF r
  <2>4. RawTxInv'
    BY <1>d, <1>f, <2>2, <2>3 DEF RawTxInv, MsgsOf
  <2> QED BY <1>d, <2>1, <2>3, <2>4, RawStays
<1>17. ASSUME StoreFails PROVE FALSE
  BY <1>b, <1>d, <1>17 DEF StoreFails, RawTxInv
<1>18. ASSUME Rollback PROVE FALSE
  BY <1>b, <1>d, <1>18 DEF Rollback, RawTxInv
<1>19. ASSUME DeleteRaw PROVE (RawTablesInv /\ RawTxInv /\ NumbersInv)'
  <2>1. FewerRaw
    BY <1>0, <1>19, StatementFewerRaw DEF DeleteRaw, DeleteRawRow, Without, Tables
  <2>2. /\ queue # <<>> /\ UNCHANGED <<queue, net, tx, disk>>
        /\ tx /\ pc = "delraw" /\ pc' = "commit"
        /\ db'.raw = Without(db.raw, Current.seq) /\ db'.temp = db.temp
    BY <1>0, <1>19, <1>d DEF DeleteRaw, Goto, HeadInv, RawTxInv, DeleteRawRow, Statement,
       Tables
  <2>3. \A r \in disk'.raw \ db'.raw : r.msg = Current.msg
    <3>1. disk.raw \subseteq db.raw
      BY <1>d, <2>2 DEF RawTxInv
    <3>2. Current.cmd = "raw"
      BY <1>0, <2>2 DEF HeadInv
    <3>3. \A r \in disk.raw : r.seq = Current.seq => r.msg = Current.msg
      BY <1>d, <1>e, <2>2, <3>2 DEF NumbersInv, NumberOf, RawRows
    <3> QED BY <2>2, <3>1, <3>3 DEF Without
  <2>4. RawTxInv'
    BY <1>d, <1>f, <2>2, <2>3 DEF RawTxInv, MsgsOf
  <2> QED BY <1>d, <2>1, <2>2, <2>4, RawStays
<1>20. ASSUME Commit PROVE (RawTablesInv /\ RawTxInv /\ NumbersInv)'
  <2>1. /\ UNCHANGED <<db, queue, net>> /\ disk' = db /\ ~tx' /\ pc' = "receipt"
    BY <1>20 DEF Commit, CommitTransaction, Goto
  <2>2. RawTablesInv' /\ RawTxInv'
    BY <1>0, <1>d, <2>1 DEF RawTablesInv, RawTxInv, RawRows, Tables
  <2>3. NumbersInv'
    BY <1>d, <2>1 DEF NumbersInv, NumberOf, RawRows
  <2> QED BY <2>2, <2>3
<1>21. ASSUME CommitFails PROVE FALSE
  BY <1>b, <1>d, <1>21 DEF CommitFails, RawTxInv
<1>22. ASSUME SendDeliveryReceipt PROVE (RawTablesInv /\ RawTxInv /\ NumbersInv)'
  <2> DEFINE x == [cmd |-> "receipt", seq |-> 0, msg |-> Current.msg]
  <2>1. x \in Entry /\ x.cmd = "receipt"
    BY <1>0, <1>22, CurrentType DEF Entry, SendDeliveryReceipt, HeadInv, TypeOK
  <2>2. queue' = Append(queue, x)
    BY <1>22 DEF SendDeliveryReceipt
  <2> HIDE DEF x
  <2>3. queue' = queue \o <<x>> /\ <<x>> \in Seq(Entry) /\ Items(<<x>>) = {x}
    BY <1>0, <2>1, <2>2 DEF Items
  <2>4. UNCHANGED <<db, disk, tx, net>> /\ (pc' = pc \/ (pc = "receipt" /\ pc' = "deliver"))
    BY <1>22 DEF SendDeliveryReceipt, store
  <2>5. \A y \in Items(queue') : y.cmd = "raw" => y \in Items(queue)
    BY <1>0, <2>1, <2>3, ItemsAppended
  <2>6. queue # <<>> => Current' = Current
    BY <1>0, <2>1, <2>2 DEF Current
  <2>7. RawTxInv'
    BY <1>0, <1>d, <2>4, <2>6 DEF RawTxInv, HeadInv
  <2> QED BY <1>d, <2>4, <2>5, <2>7, RawStays DEF FewerRaw
<1>23. ASSUME TakeTemp PROVE (RawTablesInv /\ RawTxInv /\ NumbersInv)'
  <2>1. FewerRaw
    BY <1>0, <1>23, StatementFewerRaw DEF TakeTemp, BeginTransaction, CommitTransaction,
       DeleteRawRow, Without, FewerRaw, Tables, store
  <2>2. queue # <<>> /\ UNCHANGED <<queue, net>>
    BY <1>0, <1>23 DEF TakeTemp, Goto, NewEnvelope, Acceptable, AtHead, HeadInv
  <2>3. RawTxInv'
    BY <1>0, <1>23, <1>d, <1>f, <2>1, <2>2 DEF TakeTemp, Goto, NewEnvelope, Acceptable,
       AtHead, RawTxInv, Statement, BeginTransaction, Tables, FewerRaw, MsgsOf, store
  <2> QED BY <1>d, <2>1, <2>2, <2>3, RawStays
<1>24. ASSUME Deliver PROVE (RawTablesInv /\ RawTxInv /\ NumbersInv)'
  <2>1. FewerRaw
    BY <1>0, <1>24, StatementFewerRaw DEF Deliver, BeginTransaction, CommitTransaction,
       DeleteRawRow, Without, FewerRaw, Tables, store
  <2>2. queue # <<>> /\ UNCHANGED <<queue, net>>
    BY <1>0, <1>24 DEF Deliver, Goto, NewEnvelope, Acceptable, AtHead, HeadInv
  <2>3. RawTxInv'
    BY <1>0, <1>24, <1>d, <1>f, <2>1, <2>2 DEF Deliver, Goto, NewEnvelope, Acceptable,
       AtHead, RawTxInv, Statement, BeginTransaction, Tables, FewerRaw, MsgsOf, store
  <2> QED BY <1>d, <2>1, <2>2, <2>3, RawStays
<1>25. ASSUME DeliverRejected PROVE (RawTablesInv /\ RawTxInv /\ NumbersInv)'
  <2>1. FewerRaw
    BY <1>0, <1>25, StatementFewerRaw DEF DeliverRejected, RejectEnvelope, DeleteRawRow,
       FewerRaw, Tables, store, Without
  <2>2. /\ queue # <<>> /\ queue' = Tail(queue) \o <<>> /\ pc' = "idle" /\ UNCHANGED net
        /\ pc \in {"idle", "deliver", "deltemp"}
    BY <1>0, <1>25 DEF DeliverRejected, RejectEnvelope, Pop, PopThen, AtHead, NewEnvelope,
       Acceptable, HeadInv
  <2>3. <<>> \in Seq(Entry) /\ \A x \in Items(<<>>) : x.cmd # "raw"
    BY <1>a
  <2>4. ~tx' /\ db'.raw = disk'.raw
    BY <1>0, <1>25, <1>d, <2>2 DEF DeliverRejected, RejectEnvelope, DeleteRawRow,
       Statement, RawTxInv, store
  <2>5. RawTxInv'
    BY <2>2, <2>4 DEF RawTxInv
  <2>6. \A x \in Items(queue') : x.cmd = "raw" => x \in Items(queue)
    BY <1>0, <2>2, <2>3, ItemsPopped
  <2> QED BY <1>d, <2>1, <2>2, <2>5, <2>6, RawStays
<1>26. ASSUME DeleteTemp PROVE (RawTablesInv /\ RawTxInv /\ NumbersInv)'
  <2>1. FewerRaw
    BY <1>0, <1>26, StatementFewerRaw DEF DeleteTemp, RejectEnvelope, DeleteRawRow,
       FewerRaw, Tables, store, Without
  <2>2. /\ queue # <<>> /\ queue' = Tail(queue) \o <<>> /\ pc' = "idle" /\ UNCHANGED net
        /\ pc \in {"idle", "deliver", "deltemp"}
    BY <1>0, <1>26 DEF DeleteTemp, RejectEnvelope, Pop, PopThen, AtHead, NewEnvelope,
       Acceptable, HeadInv
  <2>3. <<>> \in Seq(Entry) /\ \A x \in Items(<<>>) : x.cmd # "raw"
    BY <1>a
  <2>4. ~tx' /\ db'.raw = disk'.raw
    BY <1>0, <1>26, <1>d, <2>2 DEF DeleteTemp, RejectEnvelope, DeleteRawRow, Statement,
       RawTxInv, store
  <2>5. RawTxInv'
    BY <2>2, <2>4 DEF RawTxInv
  <2>6. \A x \in Items(queue') : x.cmd = "raw" => x \in Items(queue)
    BY <1>0, <2>2, <2>3, ItemsPopped
  <2> QED BY <1>d, <2>1, <2>2, <2>5, <2>6, RawStays
<1>27. ASSUME SendCommand PROVE (RawTablesInv /\ RawTxInv /\ NumbersInv)'
  <2>1. FewerRaw
    BY <1>0, <1>27, StatementFewerRaw DEF SendCommand, RejectEnvelope, DeleteRawRow,
       FewerRaw, Tables, store, Without
  <2>2. /\ queue # <<>> /\ queue' = Tail(queue) \o <<>> /\ pc' = "idle" /\ UNCHANGED net
        /\ pc \in {"idle", "deliver", "deltemp"}
    BY <1>0, <1>27 DEF SendCommand, RejectEnvelope, Pop, PopThen, AtHead, NewEnvelope,
       Acceptable, HeadInv
  <2>3. <<>> \in Seq(Entry) /\ \A x \in Items(<<>>) : x.cmd # "raw"
    BY <1>a
  <2>4. ~tx' /\ db'.raw = disk'.raw
    BY <1>0, <1>27, <1>d, <2>2 DEF SendCommand, RejectEnvelope, DeleteRawRow, Statement,
       RawTxInv, store
  <2>5. RawTxInv'
    BY <2>2, <2>4 DEF RawTxInv
  <2>6. \A x \in Items(queue') : x.cmd = "raw" => x \in Items(queue)
    BY <1>0, <2>2, <2>3, ItemsPopped
  <2> QED BY <1>d, <2>1, <2>2, <2>5, <2>6, RawStays
<1>28. ASSUME SendCommandFails PROVE FALSE
  BY <1>b, <1>d, <1>28 DEF SendCommandFails, RawTxInv
<1>29. ASSUME RetryLoadTemp PROVE (RawTablesInv /\ RawTxInv /\ NumbersInv)'
  <2>1. PICK rows \in Ordered(db.temp) : queue' = queue \o Entries(rows, "receipt")
    BY <1>29 DEF RetryLoadTemp
  <2>2. UNCHANGED <<db, disk, tx, net, pc>>
    BY <1>29 DEF RetryLoadTemp, store
  <2>3. db.temp \in SUBSET Row /\ IsFiniteSet(db.temp)
    BY <1>0 DEF TypeOK, StoreOK, Tables
  <2>4. /\ Entries(rows, "receipt") \in Seq(Entry)
        /\ \A x \in Items(Entries(rows, "receipt")) : x.cmd # "raw"
    BY <2>1, <2>3, EntriesType DEF Items
  <2>5. queue # <<>> => Current' = Current
    BY <1>0, <2>1, <2>4 DEF Current
  <2>6. \A x \in Items(queue') : x.cmd = "raw" => x \in Items(queue)
    BY <1>0, <2>1, <2>4, ItemsAppended
  <2>7. RawTxInv'
    BY <1>0, <1>d, <2>2, <2>5 DEF RawTxInv, HeadInv
  <2> QED BY <1>d, <2>2, <2>6, <2>7, RawStays DEF FewerRaw
<1>30. ASSUME RetryLoadRaw PROVE (RawTablesInv /\ RawTxInv /\ NumbersInv)'
  <2>1. PICK rows \in Ordered(db.raw) : queue' = queue \o (app.list \o Entries(rows, "raw"))
    BY <1>30 DEF RetryLoadRaw
  <2>2. UNCHANGED <<db, disk, tx, net, pc>>
    BY <1>30 DEF RetryLoadRaw, store
  <2>3. db.raw \in SUBSET Row /\ IsFiniteSet(db.raw)
    BY <1>0 DEF TypeOK, StoreOK, Tables
  <2>4. /\ Entries(rows, "raw") \in Seq(Entry)
        /\ \A x \in Items(Entries(rows, "raw")) :
             \E r \in db.raw : x = [cmd |-> "raw", seq |-> r.seq, msg |-> r.msg]
    <3>1. /\ Entries(rows, "raw") \in Seq(Entry)
          /\ \A i \in DOMAIN Entries(rows, "raw") : \E r \in db.raw :
               Entries(rows, "raw")[i] = [cmd |-> "raw", seq |-> r.seq, msg |-> r.msg]
      BY <2>1, <2>3, EntriesType
    <3> QED BY <3>1 DEF Items
  <2>5. Items(queue') = Items(queue) \union (Items(app.list) \union Items(Entries(rows, "raw")))
    <3>1. app.list \o Entries(rows, "raw") \in Seq(Entry)
      BY <1>0, <2>4
    <3>2. Items(queue') = Items(queue) \union Items(app.list \o Entries(rows, "raw"))
      BY <1>0, <2>1, <3>1, ItemsOf
    <3> QED BY <1>0, <2>4, <3>2, ItemsOf
  <2>6. queue # <<>> => Current' = Current
    <3> DEFINE e == app.list \o Entries(rows, "raw")
    <3>1. e \in Seq(Entry) /\ queue' = queue \o e
      BY <1>0, <2>1, <2>4
    <3> HIDE DEF e
    <3> QED BY <1>0, <3>1 DEF Current
  <2>7. RawTxInv' /\ RawTablesInv'
    BY <1>0, <1>d, <2>2, <2>6 DEF RawTxInv, HeadInv, RawTablesInv, RawRows
  <2>8. \A r \in db.raw : NumberOf(r.seq, r.msg)
    BY <1>d DEF RawTablesInv, NumberOf, RawRows
  <2>9. \A x \in Items(queue') : x.cmd = "raw" => NumberOf(x.seq, x.msg)
    BY <1>d, <2>4, <2>5, <2>8 DEF ListInv, NumbersInv
  <2>10. NumbersInv'
    BY <1>d, <2>2, <2>9 DEF NumbersInv, NumberOf, RawRows
  <2> QED BY <2>7, <2>10
<1>31. ASSUME Crash PROVE (RawTablesInv /\ RawTxInv /\ NumbersInv)'
  <2>1. /\ db' = disk /\ disk' = disk /\ ~tx'
        /\ pc' = "idle" /\ queue' = <<>> /\ net'.pc = "idle"
    BY <1>0, <1>31 DEF Crash, ConnectionLost, RollbackTransaction, TypeOK, ThreadsOK
  <2>2. RawTablesInv' /\ RawTxInv'
    BY <1>0, <1>d, <2>1 DEF RawTablesInv, RawTxInv, RawRows, Tables
  <2>3. NumbersInv'
    BY <1>a, <2>1 DEF NumbersInv
  <2> QED BY <2>2, <2>3
<1>32. ASSUME UNCHANGED vars PROVE (RawTablesInv /\ RawTxInv /\ NumbersInv)'
  BY <1>d, <1>32 DEF vars, store, threads, RawTablesInv, RawTxInv, NumbersInv, NumberOf,
     RawRows, Current
<1> QED
  BY <1>1, <1>2, <1>3, <1>4, <1>5, <1>6, <1>7, <1>8, <1>9, <1>10, <1>11, <1>12, <1>13,
     <1>14, <1>15, <1>16, <1>17, <1>18, <1>19, <1>20, <1>21, <1>22, <1>23, <1>24, <1>25,
     <1>26, <1>27, <1>28, <1>29, <1>30, <1>31, <1>32 DEF Next, Network,
     Process, Application

(* A row that is deleted outside the transaction is the row of the entry   *)
(* at the head.                                                            *)
LEMMA DeletedRow ==
  ASSUME IInv, RawInv, faults = 0, pc = "idle", queue # <<>>, Current.cmd = "raw",
         DeleteRawRow(Current.seq)
  PROVE  /\ db = disk /\ disk'.temp = disk.temp
         /\ \A m \in MsgsOf(disk.raw) : m = Current.msg \/ m \in MsgsOf(disk'.raw)
<1>0. queue \in Seq(Entry) /\ db \in Tables
  BY DEF IInv, TypeOK, ThreadsOK, StoreOK
<1>1. Current \in Items(queue)
  BY <1>0, ItemsOf DEF Current
<1>2. ~tx /\ db = disk
  BY DEF RawInv, RawTxInv, IInv, TxInv
<1>3. disk'.raw = Without(disk.raw, Current.seq) /\ disk'.temp = disk.temp
  BY <1>0, <1>2 DEF DeleteRawRow, Statement, Tables
<1>4. \A r \in disk.raw : r.seq = Current.seq => r.msg = Current.msg
  BY <1>1 DEF RawInv, NumbersInv, NumberOf, RawRows
<1>5. ASSUME NEW r \in disk.raw PROVE r.msg = Current.msg \/ r \in disk'.raw
  BY <1>3, <1>4 DEF Without
<1> QED BY <1>2, <1>3, <1>5 DEF MsgsOf

(* As long as no statement has failed, every step hands over what it takes *)
(* from the committed receivedRaw.                                         *)
LEMMA HandoverStep ==
  ASSUME IInv, RawInv, faults = 0, Next
  PROVE  \A m \in MsgsOf(disk.raw) \ Malformed : HandedOver(m)
<1>0. /\ HeadInv /\ (~tx => db = disk) /\ db \in Tables /\ disk \in Tables /\ RawTxInv
      /\ OutcomeOK
  BY DEF IInv, TxInv, TypeOK, StoreOK, RawInv
<1>k. ASSUME disk.raw \subseteq disk'.raw
      PROVE  \A m \in MsgsOf(disk.raw) \ Malformed : HandedOver(m)
  BY <1>k DEF HandedOver, MsgsOf
<1>1. ASSUME NEW k \in Msgs, ReceiveInsert(k)
      PROVE  \A m \in MsgsOf(disk.raw) \ Malformed : HandedOver(m)
  <2>1. disk.raw \subseteq disk'.raw
    BY <1>0, <1>1 DEF ReceiveInsert, Statement, Tables, store, RawTxInv, BeginTransaction,
       RollbackTransaction, SavepointLeftOpen, DeleteRawRow, ConnectionLost
  <2> QED BY <1>k, <2>1
<1>2. ASSUME ReceiveInsertFails PROVE \A m \in MsgsOf(disk.raw) \ Malformed : HandedOver(m)
  <2>1. disk.raw \subseteq disk'.raw
    BY <1>0, <1>2 DEF ReceiveInsertFails, Statement, Tables, store, RawTxInv,
       BeginTransaction, RollbackTransaction, SavepointLeftOpen, DeleteRawRow,
       ConnectionLost
  <2> QED BY <1>k, <2>1
<1>3. ASSUME ReceiveGetSequence PROVE \A m \in MsgsOf(disk.raw) \ Malformed : HandedOver(m)
  <2>1. disk.raw \subseteq disk'.raw
    BY <1>0, <1>3 DEF ReceiveGetSequence, Statement, Tables, store, RawTxInv,
       BeginTransaction, RollbackTransaction, SavepointLeftOpen, DeleteRawRow,
       ConnectionLost
  <2> QED BY <1>k, <2>1
<1>4. ASSUME ReceiveEnqueue PROVE \A m \in MsgsOf(disk.raw) \ Malformed : HandedOver(m)
  <2>1. disk.raw \subseteq disk'.raw
    BY <1>0, <1>4 DEF ReceiveEnqueue, Statement, Tables, store, RawTxInv,
       BeginTransaction, RollbackTransaction, SavepointLeftOpen, DeleteRawRow,
       ConnectionLost
  <2> QED BY <1>k, <2>1
<1>5. ASSUME DropDuplicate PROVE \A m \in MsgsOf(disk.raw) \ Malformed : HandedOver(m)
  <2>1. /\ pc = "idle" /\ queue # <<>> /\ Current.cmd = "raw" /\ DeleteRawRow(Current.seq)
    BY <1>5 DEF DropDuplicate, RejectEnvelope, Acceptable, NewEnvelope, AtHead
  <2>2. Current.msg \in db.hash /\ UNCHANGED <<delivered, reported>>
    BY <1>5 DEF DropDuplicate, outcome
  <2>3. Current.msg \in MsgsOf(db.temp) \/ Handled(Current.msg)
    BY <2>1, <2>2 DEF IInv, HashInv, Pending
  <2> QED BY <2>1, <2>2, <2>3, DeletedRow DEF HandedOver, MsgsOf, Handled
<1>6. ASSUME DropMalformed PROVE \A m \in MsgsOf(disk.raw) \ Malformed : HandedOver(m)
  <2>1. /\ pc = "idle" /\ queue # <<>> /\ Current.cmd = "raw" /\ DeleteRawRow(Current.seq)
    BY <1>6 DEF DropMalformed, RejectEnvelope, Acceptable, NewEnvelope, AtHead
  <2>2. Current.msg \in Malformed
    BY <1>6 DEF DropMalformed
  <2> QED BY <2>1, <2>2, DeletedRow DEF HandedOver, MsgsOf
<1>7. ASSUME RefuseEnvelope \/ LoadConversationFails \/ DecryptFails
      PROVE  \A m \in MsgsOf(disk.raw) \ Malformed : HandedOver(m)
  <2>1. /\ pc = "idle" /\ queue # <<>> /\ Current.cmd = "raw" /\ DeleteRawRow(Current.seq)
        /\ pc' \in {"reject", "failed"} /\ queue' = queue
    BY <1>7, Rejected DEF AtHead
  <2>2. \A m : m = Current.msg => Rejecting(m)'
    BY <2>1 DEF Rejecting, Current
  <2>3. \A m \in MsgsOf(disk.raw) : m = Current.msg \/ m \in MsgsOf(disk'.raw \union disk'.temp)
    BY <2>1, DeletedRow DEF MsgsOf
  <2> QED BY <2>2, <2>3 DEF HandedOver
<1>8. ASSUME ReportRejected PROVE \A m \in MsgsOf(disk.raw) \ Malformed : HandedOver(m)
  <2>1. disk.raw \subseteq disk'.raw
    BY <1>8 DEF ReportRejected, store
  <2> QED BY <1>k, <2>1
<1>9. ASSUME ReportUndecryptable PROVE \A m \in MsgsOf(disk.raw) \ Malformed : HandedOver(m)
  <2>1. disk.raw \subseteq disk'.raw
    BY <1>9 DEF ReportUndecryptable, store
  <2> QED BY <1>k, <2>1
<1>10. ASSUME DecryptStaged PROVE \A m \in MsgsOf(disk.raw) \ Malformed : HandedOver(m)
  <2>1. disk.raw \subseteq disk'.raw
    BY <1>0, <1>10 DEF DecryptStaged, Statement, Tables, store, RawTxInv,
       BeginTransaction, RollbackTransaction, SavepointLeftOpen, DeleteRawRow,
       ConnectionLost
  <2> QED BY <1>k, <2>1
<1>11. ASSUME DecryptChain PROVE \A m \in MsgsOf(disk.raw) \ Malformed : HandedOver(m)
  <2>1. disk.raw \subseteq disk'.raw
    BY <1>0, <1>11 DEF DecryptChain, Statement, Tables, store, RawTxInv, BeginTransaction,
       RollbackTransaction, SavepointLeftOpen, DeleteRawRow, ConnectionLost
  <2> QED BY <1>k, <2>1
<1>12. ASSUME Begin PROVE \A m \in MsgsOf(disk.raw) \ Malformed : HandedOver(m)
  <2>1. disk.raw \subseteq disk'.raw
    BY <1>0, <1>12 DEF Begin, Statement, Tables, store, RawTxInv, BeginTransaction,
       RollbackTransaction, SavepointLeftOpen, DeleteRawRow, ConnectionLost
  <2> QED BY <1>k, <2>1
<1>13. ASSUME InsertMsgHash PROVE \A m \in MsgsOf(disk.raw) \ Malformed : HandedOver(m)
  <2>1. disk.raw \subseteq disk'.raw
    BY <1>0, <1>13 DEF InsertMsgHash, Statement, Tables, store, RawTxInv,
       BeginTransaction, RollbackTransaction, SavepointLeftOpen, DeleteRawRow,
       ConnectionLost
  <2> QED BY <1>k, <2>1
<1>14. ASSUME StoreStagedMks PROVE \A m \in MsgsOf(disk.raw) \ Malformed : HandedOver(m)
  <2>1. disk.raw \subseteq disk'.raw
    BY <1>0, <1>14 DEF StoreStagedMks, Statement, Tables, store, RawTxInv,
       BeginTransaction, RollbackTransaction, SavepointLeftOpen, DeleteRawRow,
       ConnectionLost
  <2> QED BY <1>k, <2>1
<1>15. ASSUME StoreConversation PROVE \A m \in MsgsOf(disk.raw) \ Malformed : HandedOver(m)
  <2>1. disk.raw \subseteq disk'.raw
    BY <1>0, <1>15 DEF StoreConversation, Statement, Tables, store, RawTxInv,
       BeginTransaction, RollbackTransaction, SavepointLeftOpen, DeleteRawRow,
       ConnectionLost
  <2> QED BY <1>k, <2>1
<1>16. ASSUME InsertTempMsg PROVE \A m \in MsgsOf(disk.raw) \ Malformed : HandedOver(m)
  <2>1. disk.raw \subseteq disk'.raw
    BY <1>0, <1>16 DEF InsertTempMsg, Statement, Tables, store, RawTxInv,
       BeginTransaction, RollbackTransaction, SavepointLeftOpen, DeleteRawRow,
       ConnectionLost
  <2> QED BY <1>k, <2>1
<1>17. ASSUME StoreFails PROVE \A m \in MsgsOf(disk.raw) \ Malformed : HandedOver(m)
  <2>1. disk.raw \subseteq disk'.raw
    BY <1>0, <1>17 DEF StoreFails, Statement, Tables, store, RawTxInv, BeginTransaction,
       RollbackTransaction, SavepointLeftOpen, DeleteRawRow, ConnectionLost
  <2> QED BY <1>k, <2>1
<1>18. ASSUME Rollback PROVE \A m \in MsgsOf(disk.raw) \ Malformed : HandedOver(m)
  <2>1. disk.raw \subseteq disk'.raw
    BY <1>0, <1>18 DEF Rollback, Statement, Tables, store, RawTxInv, BeginTransaction,
       RollbackTransaction, SavepointLeftOpen, DeleteRawRow, ConnectionLost
  <2> QED BY <1>k, <2>1
<1>19. ASSUME DeleteRaw PROVE \A m \in MsgsOf(disk.raw) \ Malformed : HandedOver(m)
  <2>1. disk.raw \subseteq disk'.raw
    BY <1>0, <1>19 DEF DeleteRaw, Statement, Tables, store, RawTxInv, BeginTransaction,
       RollbackTransaction, SavepointLeftOpen, DeleteRawRow, ConnectionLost
  <2> QED BY <1>k, <2>1
<1>20. ASSUME Commit PROVE \A m \in MsgsOf(disk.raw) \ Malformed : HandedOver(m)
  <2>1. disk' = db /\ pc = "commit"
    BY <1>20 DEF Commit, CommitTransaction
  <2>2. \A r \in disk.raw \ db.raw : r.msg \in MsgsOf(db.temp)
    BY <1>0, <2>1 DEF RawTxInv
  <2> QED BY <2>1, <2>2 DEF HandedOver, MsgsOf
<1>21. ASSUME CommitFails PROVE \A m \in MsgsOf(disk.raw) \ Malformed : HandedOver(m)
  <2>1. disk.raw \subseteq disk'.raw
    BY <1>0, <1>21 DEF CommitFails, Statement, Tables, store, RawTxInv, BeginTransaction,
       RollbackTransaction, SavepointLeftOpen, DeleteRawRow, ConnectionLost
  <2> QED BY <1>k, <2>1
<1>22. ASSUME SendDeliveryReceipt PROVE \A m \in MsgsOf(disk.raw) \ Malformed : HandedOver(m)
  <2>1. disk.raw \subseteq disk'.raw
    BY <1>0, <1>22 DEF SendDeliveryReceipt, Statement, Tables, store, RawTxInv,
       BeginTransaction, RollbackTransaction, SavepointLeftOpen, DeleteRawRow,
       ConnectionLost
  <2> QED BY <1>k, <2>1
<1>23. ASSUME TakeTemp PROVE \A m \in MsgsOf(disk.raw) \ Malformed : HandedOver(m)
  <2>1. disk.raw \subseteq disk'.raw
    BY <1>0, <1>23 DEF TakeTemp, Statement, Tables, store, RawTxInv, BeginTransaction,
       RollbackTransaction, SavepointLeftOpen, DeleteRawRow, ConnectionLost
  <2> QED BY <1>k, <2>1
<1>24. ASSUME Deliver PROVE \A m \in MsgsOf(disk.raw) \ Malformed : HandedOver(m)
  <2>1. disk.raw \subseteq disk'.raw
    BY <1>0, <1>24 DEF Deliver, Statement, Tables, store, RawTxInv, BeginTransaction,
       RollbackTransaction, SavepointLeftOpen, DeleteRawRow, ConnectionLost
  <2> QED BY <1>k, <2>1
<1>25. ASSUME DeliverRejected PROVE \A m \in MsgsOf(disk.raw) \ Malformed : HandedOver(m)
  <2>1. disk.raw \subseteq disk'.raw
    BY <1>0, <1>25 DEF DeliverRejected, Statement, Tables, store, RawTxInv,
       BeginTransaction, RollbackTransaction, SavepointLeftOpen, DeleteRawRow,
       ConnectionLost
  <2> QED BY <1>k, <2>1
<1>26. ASSUME DeleteTemp PROVE \A m \in MsgsOf(disk.raw) \ Malformed : HandedOver(m)
  <2>1. disk.raw \subseteq disk'.raw
    BY <1>0, <1>26 DEF DeleteTemp, Statement, Tables, store, RawTxInv, BeginTransaction,
       RollbackTransaction, SavepointLeftOpen, DeleteRawRow, ConnectionLost
  <2> QED BY <1>k, <2>1
<1>27. ASSUME SendCommand PROVE \A m \in MsgsOf(disk.raw) \ Malformed : HandedOver(m)
  <2>1. disk.raw \subseteq disk'.raw
    BY <1>0, <1>27 DEF SendCommand, Statement, Tables, store, RawTxInv, BeginTransaction,
       RollbackTransaction, SavepointLeftOpen, DeleteRawRow, ConnectionLost
  <2> QED BY <1>k, <2>1
<1>28. ASSUME SendCommandFails PROVE \A m \in MsgsOf(disk.raw) \ Malformed : HandedOver(m)
  <2>1. disk.raw \subseteq disk'.raw
    BY <1>0, <1>28 DEF SendCommandFails, Statement, Tables, store, RawTxInv,
       BeginTransaction, RollbackTransaction, SavepointLeftOpen, DeleteRawRow,
       ConnectionLost
  <2> QED BY <1>k, <2>1
<1>29. ASSUME RetryLoadTemp PROVE \A m \in MsgsOf(disk.raw) \ Malformed : HandedOver(m)
  <2>1. disk.raw \subseteq disk'.raw
    BY <1>0, <1>29 DEF RetryLoadTemp, Statement, Tables, store, RawTxInv,
       BeginTransaction, RollbackTransaction, SavepointLeftOpen, DeleteRawRow,
       ConnectionLost
  <2> QED BY <1>k, <2>1
<1>30. ASSUME RetryLoadRaw PROVE \A m \in MsgsOf(disk.raw) \ Malformed : HandedOver(m)
  <2>1. disk.raw \subseteq disk'.raw
    BY <1>0, <1>30 DEF RetryLoadRaw, Statement, Tables, store, RawTxInv, BeginTransaction,
       RollbackTransaction, SavepointLeftOpen, DeleteRawRow, ConnectionLost
  <2> QED BY <1>k, <2>1
<1>31. ASSUME Crash PROVE \A m \in MsgsOf(disk.raw) \ Malformed : HandedOver(m)
  <2>1. disk.raw \subseteq disk'.raw
    BY <1>0, <1>31 DEF Crash, Statement, Tables, store, RawTxInv, BeginTransaction,
       RollbackTransaction, SavepointLeftOpen, DeleteRawRow, ConnectionLost
  <2> QED BY <1>k, <2>1
<1> QED
  BY <1>1, <1>2, <1>3, <1>4, <1>5, <1>6, <1>7, <1>8, <1>9, <1>10, <1>11, <1>12, <1>13,
     <1>14, <1>15, <1>16, <1>17, <1>18, <1>19, <1>20, <1>21, <1>22, <1>23, <1>24, <1>25,
     <1>26, <1>27, <1>28, <1>29, <1>30, <1>31 DEF Next, Network, Process,
     Application

(* The command thread does not leave the point between the delete and the  *)
(* report but to report, or to die.                                        *)
LEMMA RejectionStep ==
  ASSUME IInv, Next
  PROVE  \A m \in Msgs : RejectionReported(m)
<1> SUFFICES ASSUME NEW m \in Msgs, Rejecting(m)
             PROVE  Rejecting(m)' \/ Handled(m)' \/ crashes' > crashes
  BY DEF RejectionReported
<1>1. /\ queue \in Seq(Entry) /\ queue # <<>> /\ crashes \in Nat
      /\ pc \in {"reject", "failed"} /\ Current.msg = m
  BY DEF IInv, TypeOK, ThreadsOK, CountsOK, HeadInv, Rejecting
<1>2. ASSUME NEW e \in Seq(Entry), queue' = queue \o e, pc' = pc
      PROVE  Rejecting(m)'
  <2>1. Current' = Current
    BY <1>1, <1>2 DEF Current
  <2> QED BY <1>1, <1>2, <2>1 DEF Rejecting
<1>3. <<>> \in Seq(Entry) /\ queue \o <<>> = queue
  BY <1>1
<1>4. CASE Network
  <2>1. ASSUME ReceiveEnqueue PROVE Rejecting(m)'
    <3> DEFINE x == [cmd |-> "raw", seq |-> net.seq, msg |-> net.msg]
    <3>1. x \in Entry /\ queue' = Append(queue, x) /\ pc' = pc
      BY <2>1 DEF ReceiveEnqueue, IInv, TypeOK, ThreadsOK, Entry
    <3> HIDE DEF x
    <3>2. queue' = queue \o <<x>> /\ <<x>> \in Seq(Entry)
      BY <1>1, <3>1
    <3> QED BY <1>2, <3>1, <3>2
  <2> QED BY <1>2, <1>3, <1>4, <2>1 DEF Network, ReceiveInsert, ReceiveInsertFails,
          ReceiveGetSequence, threads
<1>5. CASE Process
  <2>1. ReportRejected \/ ReportUndecryptable
    BY <1>1, <1>5 DEF Process, DropDuplicate, DropMalformed, RefuseEnvelope,
       LoadConversationFails, DecryptStaged, DecryptChain, DecryptFails, Begin,
       InsertMsgHash, StoreStagedMks, StoreConversation, InsertTempMsg, StoreFails,
       Rollback, DeleteRaw, Commit, CommitFails, SendDeliveryReceipt, TakeTemp, Deliver,
       DeliverRejected, DeleteTemp, SendCommand, SendCommandFails, Acceptable,
       NewEnvelope, AtHead
  <2>2. Report
    BY <2>1 DEF ReportRejected, ReportUndecryptable
  <2> QED BY <1>1, <2>2 DEF Report, Handled
<1>6. CASE Application
  <2>1. CASE RetryLoadTemp
    <3>1. PICK rows \in Ordered(db.temp) : queue' = queue \o Entries(rows, "receipt")
      BY <2>1 DEF RetryLoadTemp
    <3>2. Entries(rows, "receipt") \in Seq(Entry)
      BY <3>1, EntriesType DEF IInv, TypeOK, StoreOK, Tables
    <3> QED BY <1>2, <2>1, <3>1, <3>2 DEF RetryLoadTemp
  <2>2. CASE RetryLoadRaw
    <3>1. PICK rows \in Ordered(db.raw) : queue' = queue \o (app.list \o Entries(rows, "raw"))
      BY <2>2 DEF RetryLoadRaw
    <3>2. Entries(rows, "raw") \in Seq(Entry) /\ app.list \in Seq(Entry)
      BY <3>1, EntriesType DEF IInv, TypeOK, StoreOK, Tables, ThreadsOK
    <3>3. app.list \o Entries(rows, "raw") \in Seq(Entry)
      BY <3>2
    <3> QED BY <1>2, <2>2, <3>1, <3>3 DEF RetryLoadRaw
  <2> QED BY <1>6, <2>1, <2>2 DEF Application
<1>7. CASE Crash
  BY <1>1, <1>7 DEF Crash
<1> QED
  BY <1>4, <1>5, <1>6, <1>7 DEF Next

LEMMA InitRaw == Init => RawInv
<1> SUFFICES ASSUME Init PROVE RawInv
  OBVIOUS
<1>1. db.raw = {} /\ disk.raw = {} /\ db.rawSeq = 0 /\ disk.rawSeq = 0 /\ ~tx
  BY DEF Init, Empty
<1>2. Items(queue) = {} /\ net.pc = "idle" /\ pc = "idle"
  BY DEF Init, Items
<1> QED
  BY <1>1, <1>2 DEF RawInv, RawTablesInv, RawTxInv, NumbersInv, RawRows

(* As long as no statement has failed, an envelope leaves the committed    *)
(* receivedRaw only in the step that commits its plain text to TempMsg,    *)
(* when the application has been told, or by the command thread that tells *)
(* it in its next step, unless the process dies before that step.          *)
THEOREM RawHandedOver == Spec => RawHandover
<1>1. IInv /\ ListInv /\ RawInv /\ [Next]_vars => RawInv'
  BY RawStep
<1>2. IInv /\ RawInv /\ [Next]_vars
      => [faults = 0 => /\ \A m \in MsgsOf(disk.raw) \ Malformed : HandedOver(m)
                        /\ \A m \in Msgs : RejectionReported(m)]_vars
  <2>1. ASSUME IInv, RawInv, Next
        PROVE  faults = 0 => /\ \A m \in MsgsOf(disk.raw) \ Malformed : HandedOver(m)
                             /\ \A m \in Msgs : RejectionReported(m)
    BY <2>1, HandoverStep, RejectionStep
  <2> QED BY <2>1
<1> QED
  BY InitRaw, <1>1, <1>2, Invariant, ToldAlways, PTL DEF Spec, RawHandover
=============================================================================
