----------------------------- MODULE ZinaReceive -----------------------------
(***************************************************************************)
(* The receive side of libzina for one sender device: from the network     *)
(* thread that stores an envelope (AppInterfaceImpl::receiveMessage) over  *)
(* the run queue and its one command thread (commandQueueHandler) to the   *)
(* application's receive callback, with the persistent tables receivedRaw, *)
(* TempMsg, MsgHash, stagedMk and Conversations, the retry of left-over    *)
(* rows, failing SQL statements and the death of the process at any step.  *)
(*                                                                         *)
(* An envelope is its number in the sender's message chain.  The ratchet   *)
(* is the receiving chain: envelope m decrypts with the chain when         *)
(* m >= nr, which skips and stages nr..m-1, and with its staged message    *)
(* key otherwise.  Module ZinaRatchet has the ratchet itself.              *)
(***************************************************************************)
EXTENDS Integers, Sequences, FiniteSets, SqliteConnection

CONSTANTS
  NMsgs,        \* envelopes 0 .. NMsgs-1 of the chain
  Malformed,    \* envelopes that fail base64 or protobuf decoding
  Refused,      \* envelopes refused undecrypted: bad or old id, other device
  MaxReceives,  \* bound: calls of receiveMessage
  MaxRetries,   \* bound: retryReceivedMessages calls per process life
  MaxFaults,    \* bound: failing SQL statements
  MaxCrashes    \* bound: process deaths

Msgs == 0 .. (NMsgs - 1)

ASSUME MsgsAssumption ==
  /\ NMsgs \in Nat \ {0}
  /\ Malformed \subseteq Msgs
  /\ Refused \subseteq Msgs
ASSUME BoundsAssumption ==
  {MaxReceives, MaxRetries, MaxFaults, MaxCrashes} \subseteq Nat

VARIABLES
  queue,      \* commandQueue: the entry in process stays at its head
  pc,         \* where the command thread is in the entry at the head
  loc,        \* its local variables: nr, skipped keys, TempMsg sequence
  net,        \* the network thread in receiveMessage
  app,        \* the application thread in retryReceivedMessages
  acked,      \* envelopes for which receiveMessage returned OK
  delivered,  \* per envelope: receive callbacks the application accepted
  reported,   \* envelopes reported by a state report callback
  receipted,  \* envelopes whose delivery receipt went to the transport
  receives, retries, faults, crashes   \* bounded by the Max constants

threads == <<queue, pc, loc, net, app>>
outcome == <<acked, delivered, reported, receipted>>
counts == <<receives, retries, faults, crashes>>
vars == <<store, threads, outcome, counts>>

Row == [seq : Nat, msg : Msgs]
Tables == [raw : SUBSET Row, rawSeq : Nat, temp : SUBSET Row, tempSeq : Nat,
           hash : SUBSET Msgs, nr : Nat, staged : SUBSET Msgs]
Entry == [cmd : {"raw", "temp", "receipt", "error"},
          seq : Nat, msg : Msgs]

Empty == [raw |-> {}, rawSeq |-> 0, temp |-> {}, tempSeq |-> 0,
          hash |-> {}, nr |-> 0, staged |-> {}]
NoLocals == [nr |-> 0, skipped |-> {}, seq |-> 0]

Without(rows, s) == {r \in rows : r.seq # s}
MsgsOf(rows) == {r.msg : r \in rows}
Handled(m) == delivered[m] > 0 \/ m \in reported

StoreOK ==
  /\ db \in Tables /\ disk \in Tables /\ tx \in BOOLEAN
  /\ IsFiniteSet(db.raw) /\ IsFiniteSet(db.temp)
  /\ IsFiniteSet(disk.raw) /\ IsFiniteSet(disk.temp)

ThreadsOK ==
  /\ queue \in Seq(Entry)
  /\ pc \in {"idle", "begin", "hash", "staged", "conv", "temp", "rollback",
             "delraw", "commit", "receipt", "deliver", "deltemp",
             "reject", "failed"}
  /\ loc \in [nr : Nat, skipped : SUBSET Msgs, seq : Nat]
  /\ net \in [pc : {"idle", "inserted", "numbered"}, msg : Msgs, seq : Nat]
  /\ app \in [pc : {"idle", "raw"}, list : Seq(Entry)]

OutcomeOK ==
  /\ acked \in SUBSET Msgs /\ reported \in SUBSET Msgs
  /\ receipted \in SUBSET Msgs /\ delivered \in [Msgs -> Nat]

CountsOK ==
  /\ receives \in Nat /\ retries \in Nat
  /\ faults \in Nat /\ crashes \in Nat

TypeOK == StoreOK /\ ThreadsOK /\ OutcomeOK /\ CountsOK

Init ==
  /\ db = Empty /\ disk = Empty /\ tx = FALSE
  /\ queue = <<>> /\ pc = "idle" /\ loc = NoLocals
  /\ net = [pc |-> "idle", msg |-> 0, seq |-> 0]
  /\ app = [pc |-> "idle", list |-> <<>>]
  /\ acked = {} /\ reported = {} /\ receipted = {}
  /\ delivered = [m \in Msgs |-> 0]
  /\ receives = 0 /\ retries = 0 /\ faults = 0 /\ crashes = 0

Fault ==
  /\ faults < MaxFaults
  /\ faults' = faults + 1
  /\ UNCHANGED <<receives, retries, crashes>>

-----------------------------------------------------------------------------
(* The network thread.  receiveMessage runs two statements, the INSERT and *)
(* the SELECT of the sequence number, then appends to the run queue.       *)

ReceiveInsert(m) ==
  /\ net.pc = "idle"
  /\ receives < MaxReceives
  /\ Statement([db EXCEPT !.raw = @ \union {[seq |-> db.rawSeq + 1, msg |-> m]},
                          !.rawSeq = @ + 1])
  /\ net' = [pc |-> "inserted", msg |-> m, seq |-> 0]
  /\ receives' = receives + 1
  /\ UNCHANGED <<queue, pc, loc, app, outcome, retries, faults, crashes>>

(* The INSERT fails: DATABASE_ERROR goes back, the envelope is not queued. *)
ReceiveInsertFails ==
  /\ net.pc = "idle"
  /\ receives < MaxReceives
  /\ faults < MaxFaults
  /\ receives' = receives + 1
  /\ faults' = faults + 1
  /\ UNCHANGED <<store, threads, outcome, retries, crashes>>

(* getSequenceNumber reads the table's current counter.                    *)
ReceiveGetSequence ==
  /\ net.pc = "inserted"
  /\ net' = [net EXCEPT !.pc = "numbered", !.seq = db.rawSeq]
  /\ UNCHANGED <<store, queue, pc, loc, app, outcome, counts>>

ReceiveEnqueue ==
  /\ net.pc = "numbered"
  /\ queue' = Append(queue, [cmd |-> "raw", seq |-> net.seq, msg |-> net.msg])
  /\ acked' = acked \union {net.msg}
  /\ net' = [net EXCEPT !.pc = "idle"]
  /\ UNCHANGED <<store, pc, loc, app, delivered, reported, receipted, counts>>

-----------------------------------------------------------------------------
(* The command thread: commandQueueHandler takes the head, processes it    *)
(* with the lock released and pops it afterwards.                          *)

Current == Head(queue)

AtHead(cmd) == pc = "idle" /\ queue # <<>> /\ Current.cmd = cmd

(* The entry is done: pop it, with what its processing appended.           *)
PopThen(extra) ==
  /\ queue' = Tail(queue) \o extra
  /\ pc' = "idle"
  /\ loc' = NoLocals
Pop == PopThen(<<>>)

Goto(next) == pc' = next /\ UNCHANGED <<queue, loc>>

DeleteRawRow(s) == Statement([db EXCEPT !.raw = Without(@, s)])

Report == /\ reported' = reported \union {Current.msg}
          /\ UNCHANGED <<acked, delivered, receipted>>

(* errorMessage_ of processMessageRaw: the raw row goes, in a statement    *)
(* that commits itself; the application is told after it.                  *)
RejectEnvelope(why) ==
  /\ DeleteRawRow(Current.seq)
  /\ Goto(why)
  /\ UNCHANGED <<net, app, outcome>>

(* The command thread has deleted the row and is about to tell.            *)
Rejecting(m) == pc \in {"reject", "failed"} /\ Current.msg = m

ReportRejected ==
  /\ pc = "reject"
  /\ Report
  /\ Pop
  /\ UNCHANGED <<store, net, app, counts>>

(* After MAC_CHECK_FAILED the sender gets an error command, too, which is  *)
(* queued for sending.                                                     *)
ReportUndecryptable ==
  /\ pc = "failed"
  /\ Report
  /\ PopThen(<<[cmd |-> "error", seq |-> 0, msg |-> Current.msg]>>)
  /\ UNCHANGED <<store, net, app, counts>>

NewEnvelope == AtHead("raw") /\ Current.msg \notin db.hash
Acceptable == NewEnvelope /\ Current.msg \notin Malformed \union Refused

DropDuplicate ==
  /\ AtHead("raw")
  /\ Current.msg \in db.hash
  /\ DeleteRawRow(Current.seq)
  /\ Pop
  /\ UNCHANGED <<net, app, outcome, counts>>

DropMalformed ==
  /\ NewEnvelope
  /\ Current.msg \in Malformed
  /\ DeleteRawRow(Current.seq)
  /\ Pop
  /\ UNCHANGED <<net, app, outcome, counts>>

RefuseEnvelope ==
  /\ NewEnvelope
  /\ Current.msg \in Refused \ Malformed
  /\ RejectEnvelope("reject")
  /\ UNCHANGED counts

LoadConversationFails ==
  /\ Acceptable
  /\ Fault
  /\ RejectEnvelope("reject")

(* trySkippedMessageKeys found the key: it deletes the row of stagedMk at  *)
(* once, before the transaction below begins.                              *)
DecryptStaged ==
  /\ Acceptable
  /\ Current.msg \in db.staged
  /\ Statement([db EXCEPT !.staged = @ \ {Current.msg}])
  /\ loc' = [nr |-> db.nr, skipped |-> {}, seq |-> 0]
  /\ pc' = "begin"
  /\ UNCHANGED <<queue, net, app, outcome, counts>>

(* A mutant of DecryptChain: the loop over the skipped keys runs two too   *)
(* far.                                                                    *)
DecryptChainTooFar ==
  /\ Acceptable
  /\ Current.msg \notin db.staged
  /\ Current.msg >= db.nr
  /\ loc' = [nr |-> Current.msg + 1, skipped |-> db.nr .. (Current.msg + 1),
             seq |-> 0]
  /\ pc' = "begin"
  /\ UNCHANGED <<store, queue, net, app, outcome, counts>>

(* The chain key gives the message key; the keys it skips stay in memory.  *)
DecryptChain ==
  /\ Acceptable
  /\ Current.msg \notin db.staged
  /\ Current.msg >= db.nr
  /\ loc' = [nr |-> Current.msg + 1, skipped |-> db.nr .. (Current.msg - 1),
             seq |-> 0]
  /\ pc' = "begin"
  /\ UNCHANGED <<store, queue, net, app, outcome, counts>>

(* No key: MAC_CHECK_FAILED.                                               *)
DecryptFails ==
  /\ Acceptable
  /\ Current.msg \notin db.staged
  /\ Current.msg < db.nr
  /\ RejectEnvelope("failed")
  /\ UNCHANGED counts

Begin ==
  /\ pc = "begin"
  /\ BeginTransaction
  /\ Goto("hash")
  /\ UNCHANGED <<net, app, outcome, counts>>

InsertMsgHash ==
  /\ pc = "hash"
  /\ Current.msg \notin db.hash
  /\ Statement([db EXCEPT !.hash = @ \union {Current.msg}])
  /\ Goto("staged")
  /\ UNCHANGED <<net, app, outcome, counts>>

StoreStagedMks ==
  /\ pc = "staged"
  /\ Statement([db EXCEPT !.staged = @ \union loc.skipped])
  /\ Goto("conv")
  /\ UNCHANGED <<net, app, outcome, counts>>

StoreConversation ==
  /\ pc = "conv"
  /\ Statement([db EXCEPT !.nr = loc.nr])
  /\ Goto("temp")
  /\ UNCHANGED <<net, app, outcome, counts>>

(* A mutant of InsertTempMsg: the plain text is not kept.                  *)
InsertTempMsgForgotten ==
  /\ pc = "temp"
  /\ pc' = "delraw"
  /\ UNCHANGED <<store, queue, loc, net, app, outcome, counts>>

InsertTempMsg ==
  /\ pc = "temp"
  /\ Statement([db EXCEPT
       !.temp = @ \union {[seq |-> db.tempSeq + 1, msg |-> Current.msg]},
       !.tempSeq = @ + 1])
  /\ pc' = "delraw"
  /\ loc' = [loc EXCEPT !.seq = db.tempSeq + 1]
  /\ UNCHANGED <<queue, net, app, outcome, counts>>

(* One of the four statements fails.                                       *)
StoreFails ==
  /\ pc \in {"hash", "staged", "conv", "temp"}
  /\ Fault
  /\ IF pc = "conv" THEN SavepointLeftOpen ELSE UNCHANGED store
  /\ Goto("rollback")
  /\ UNCHANGED <<net, app, outcome>>

(* A mutant of Rollback: the application gets no report.                   *)
RollbackSilently ==
  /\ pc = "rollback"
  /\ RollbackTransaction
  /\ Pop
  /\ UNCHANGED <<net, app, outcome, counts>>

(* error_ of processMessageRaw: the raw row stays for a later retry.       *)
Rollback ==
  /\ pc = "rollback"
  /\ RollbackTransaction
  /\ Report
  /\ Pop
  /\ UNCHANGED <<net, app, counts>>

DeleteRaw ==
  /\ pc = "delraw"
  /\ DeleteRawRow(Current.seq)
  /\ Goto("commit")
  /\ UNCHANGED <<net, app, outcome, counts>>

Commit ==
  /\ pc = "commit"
  /\ CommitTransaction
  /\ Goto("receipt")
  /\ UNCHANGED <<net, app, outcome, counts>>

(* COMMIT fails (disk full, I/O error) and SQLite rolls back; the code     *)
(* does not look at the result and goes on.                                *)
CommitFails ==
  /\ pc = "commit"
  /\ Fault
  /\ RollbackTransaction
  /\ Goto("receipt")
  /\ UNCHANGED <<net, app, outcome>>

SendDeliveryReceipt ==
  /\ pc = "receipt"
  /\ queue' = Append(queue, [cmd |-> "receipt", seq |-> 0, msg |-> Current.msg])
  /\ pc' = "deliver"
  /\ UNCHANGED <<store, loc, net, app, outcome, counts>>

(* A mutant of TakeTemp: the row is deleted before the callback.           *)
TakeTempDeletes ==
  /\ AtHead("temp")
  /\ Statement([db EXCEPT !.temp = Without(@, Current.seq)])
  /\ pc' = "deliver"
  /\ loc' = [NoLocals EXCEPT !.seq = Current.seq]
  /\ UNCHANGED <<queue, net, app, outcome, counts>>

TakeTemp ==
  /\ AtHead("temp")
  /\ pc' = "deliver"
  /\ loc' = [NoLocals EXCEPT !.seq = Current.seq]
  /\ UNCHANGED <<store, queue, net, app, outcome, counts>>

(* processMessagePlain: the application accepts the message ...            *)
Deliver ==
  /\ pc = "deliver"
  /\ delivered' = [delivered EXCEPT ![Current.msg] = @ + 1]
  /\ Goto("deltemp")
  /\ UNCHANGED <<store, net, app, acked, reported, receipted, counts>>

(* ... or returns an error: report it and keep the row of TempMsg.         *)
DeliverRejected ==
  /\ pc = "deliver"
  /\ Report
  /\ Pop
  /\ UNCHANGED <<store, net, app, counts>>

(* A mutant of DeleteTemp: the entry in process stays at the head.         *)
DeleteTempOnly ==
  /\ pc = "deltemp"
  /\ Statement([db EXCEPT !.temp = Without(@, loc.seq)])
  /\ Goto("idle")
  /\ UNCHANGED <<net, app, outcome, counts>>

DeleteTemp ==
  /\ pc = "deltemp"
  /\ Statement([db EXCEPT !.temp = Without(@, loc.seq)])
  /\ Pop
  /\ UNCHANGED <<net, app, outcome, counts>>

(* SendMessage of a delivery receipt or an error command.                  *)
SendCommand ==
  /\ AtHead("receipt") \/ AtHead("error")
  /\ receipted' = IF Current.cmd = "receipt"
                  THEN receipted \union {Current.msg} ELSE receipted
  /\ Pop
  /\ UNCHANGED <<store, net, app, acked, delivered, reported, counts>>

(* ... whose storeConversation fails: nothing is handed to the transport.  *)
SendCommandFails ==
  /\ AtHead("receipt") \/ AtHead("error")
  /\ Fault
  /\ SavepointLeftOpen
  /\ Pop
  /\ UNCHANGED <<net, app, outcome>>

-----------------------------------------------------------------------------
(* The application thread.                                                 *)

RetryAllowed == retries < MaxRetries * (crashes + 1)

(* The rows of a table in the order of their sequence numbers.             *)
Ordered(rows) == {s \in [1 .. Cardinality(rows) -> rows] :
                    \A i, j \in DOMAIN s : i < j => s[i].seq < s[j].seq}

Entries(rows, cmd) == [i \in DOMAIN rows |->
                        [cmd |-> cmd, seq |-> rows[i].seq, msg |-> rows[i].msg]]

(* retryReceivedMessages first loads TempMsg and queues a delivery receipt *)
(* for every row; its own entries wait in a local list ...                 *)
RetryLoadTemp ==
  /\ app.pc = "idle"
  /\ RetryAllowed
  /\ \E rows \in Ordered(db.temp) :
       /\ app' = [pc |-> "raw", list |-> Entries(rows, "temp")]
       /\ queue' = queue \o Entries(rows, "receipt")
  /\ retries' = retries + 1
  /\ UNCHANGED <<store, pc, loc, net, outcome,
                 receives, faults, crashes>>

(* A mutant of RetryLoadRaw: only TempMsg is retried.                      *)
RetryLoadRawForgotten ==
  /\ app.pc = "raw"
  /\ queue' = queue \o app.list
  /\ app' = [pc |-> "idle", list |-> <<>>]
  /\ UNCHANGED <<store, pc, loc, net, outcome, counts>>

(* ... until receivedRaw is loaded, too.                                   *)
RetryLoadRaw ==
  /\ app.pc = "raw"
  /\ \E rows \in Ordered(db.raw) :
       queue' = queue \o (app.list \o Entries(rows, "raw"))
  /\ app' = [pc |-> "idle", list |-> <<>>]
  /\ UNCHANGED <<store, pc, loc, net, outcome, counts>>

-----------------------------------------------------------------------------
(* The process dies and starts again.                                      *)
Crash ==
  /\ crashes < MaxCrashes
  /\ ConnectionLost
  /\ queue' = <<>> /\ pc' = "idle" /\ loc' = NoLocals
  /\ net' = [net EXCEPT !.pc = "idle"]
  /\ app' = [pc |-> "idle", list |-> <<>>]
  /\ crashes' = crashes + 1
  /\ UNCHANGED <<outcome, receives, retries, faults>>

Network == \/ \E m \in Msgs : ReceiveInsert(m)
           \/ ReceiveInsertFails \/ ReceiveGetSequence \/ ReceiveEnqueue

Process ==
  \/ DropDuplicate \/ DropMalformed \/ RefuseEnvelope \/ LoadConversationFails
  \/ ReportRejected \/ ReportUndecryptable
  \/ DecryptStaged \/ DecryptChain \/ DecryptFails
  \/ Begin \/ InsertMsgHash \/ StoreStagedMks \/ StoreConversation
  \/ InsertTempMsg \/ StoreFails \/ Rollback \/ DeleteRaw
  \/ Commit \/ CommitFails \/ SendDeliveryReceipt \/ TakeTemp
  \/ Deliver \/ DeliverRejected \/ DeleteTemp
  \/ SendCommand \/ SendCommandFails

Application == RetryLoadTemp \/ RetryLoadRaw

Next == Network \/ Process \/ Application \/ Crash

Spec == Init /\ [][Next]_vars

(* Scheduling: the threads run, and the application runs the retry after   *)
(* it went online (once per connection, so at least once per process).     *)
FairSpec ==
  /\ Spec
  /\ WF_vars(Process)
  /\ WF_vars(ReceiveGetSequence \/ ReceiveEnqueue)
  /\ WF_vars(RetryLoadTemp)
  /\ WF_vars(RetryLoadRaw)

-----------------------------------------------------------------------------
(* Properties.                                                             *)

(* The hash of an envelope makes every later copy of it a duplicate that   *)
(* is dropped without a word.  So whenever a hash is committed, the        *)
(* message it stands for is committed to TempMsg, or the application has   *)
(* got it or a report of it: a crash, a failing statement or a failing     *)
(* COMMIT never leaves a hash that swallows an unseen message.             *)
DuplicateMeansHandled ==
  \A m \in disk.hash : m \in MsgsOf(disk.temp) \/ Handled(m)

(* Redelivery is the price of recovery and of nothing else: every delivery *)
(* of a message beyond the first takes a retry or a failed statement.      *)
DeliveryPaid ==
  \A m \in Msgs : delivered[m] <= 1 + retries + faults

(* The sender is told "delivered" only for a message that the process can  *)
(* lose no more: its plain text is committed, or the application has seen  *)
(* it.                                                                     *)
ReceiptIsTruthful ==
  \A m \in receipted : m \in MsgsOf(disk.temp) \/ Handled(m)

(* While the process lives, an envelope the transport was told is OK waits *)
(* in the run queue until the application has it or a report of it: no     *)
(* error path and no taking for a duplicate drops it.                      *)
AckedQueued ==
  crashes = 0 =>
    \A m \in acked \ Malformed :
      Handled(m) \/ \E i \in DOMAIN queue : queue[i].cmd = "raw" /\ queue[i].msg = m

(* As long as no statement fails, an envelope leaves the committed         *)
(* receivedRaw only in the step that commits its plain text to TempMsg,    *)
(* when the application has been told, or by the command thread that tells *)
(* it next.  Between that delete and the report the process may die: this  *)
(* is the one way such an envelope goes untold.                            *)
HandedOver(m) ==
  m \in MsgsOf(disk'.raw \union disk'.temp) \/ Handled(m)' \/ Rejecting(m)'

RejectionReported(m) ==
  Rejecting(m) => Rejecting(m)' \/ Handled(m)' \/ crashes' > crashes

RawHandover ==
  [][faults = 0 => /\ \A m \in MsgsOf(disk.raw) \ Malformed : HandedOver(m)
                   /\ \A m \in Msgs : RejectionReported(m)]_vars

(* Whatever is left over in the committed tables is brought to the         *)
(* application in the end, or rejected, however often the process dies on  *)
(* the way.                                                                *)
LeftOverHandled ==
  \A m \in Msgs \ Malformed :
    (m \in MsgsOf(disk.raw \union disk.temp))
      ~> (Handled(m) \/ Rejecting(m) \/ faults > 0)

(* While the process lives, every envelope the transport was told is OK    *)
(* is delivered or reported, whatever statements fail.                     *)
AckedHandled ==
  \A m \in Msgs \ Malformed : (m \in acked) ~> (Handled(m) \/ crashes > 0)

-----------------------------------------------------------------------------
(* What comments of the code say, and the code does not do.                *)

(* ReceiveMessage.cpp: "delete raw message data because it's processed".   *)
(* The row is found by its sequence number, of which the comment on        *)
(* receivedRaw says that it is "a monotonically increasing sequence        *)
(* number".  But the row of an envelope that arrives while the command     *)
(* thread is in its transaction belongs to that transaction: a rollback    *)
(* takes it back, acknowledged as it is, and the number goes to the next   *)
(* envelope, whose row is then deleted with the entry of the first one.    *)
RawIsProcessed ==
  [][\A m \in MsgsOf(disk.raw) \ Malformed : HandedOver(m)]_vars
=============================================================================
