---------------------------- MODULE SipTransport ----------------------------
(***************************************************************************)
(* The send queue of SipTransport between the command thread, which calls  *)
(* sendAxoMessage, and the send thread (runSendQueue), on top of the       *)
(* session table of the SIP engine.  The send thread owns runLock and      *)
(* releases it only inside sendCv.wait; the command thread sets runSend    *)
(* and notifies under sendListLock, never under runLock.                   *)
(***************************************************************************)
EXTENDS SipSessions, FiniteSets

CONSTANTS
  KeepSlots,   \* entries of the table that sending leaves to others
  MaxWakeups   \* bound: spurious wake-ups of sendCv

ASSUME TransportAssumption == KeepSlots \in Nat /\ MaxWakeups \in Nat

VARIABLES
  list,     \* sendMessageList
  lock,     \* who holds sendListLock
  runSend,
  cmd,      \* the command thread in sendAxoMessage
  snd,      \* the send thread in runSendQueue
  cur,      \* the table entry its message got
  queued,   \* messages queued so far
  handed,   \* the messages taken from the list, in order
  wakeups

sending == <<list, lock, runSend, cmd, snd, cur, queued, handed, wakeups>>
vars == <<engine, sending>>

SendingOK ==
  /\ list \in Seq(Msgs)
  /\ lock \in {"free", "command", "send"}
  /\ runSend \in BOOLEAN
  /\ cmd \in {"idle", "pushed", "flagged", "notified"}
  /\ snd \in {"none", "check", "decided", "waiting", "wantlock", "loop",
              "sleep", "send", "setid", "refused"}
  /\ cur \in 0 .. MaxSessions
  /\ queued \in 0 .. NMsgs
  /\ handed \in Seq(Msgs)
  /\ wakeups \in Nat

TypeOK == EngineOK /\ SendingOK

Init ==
  /\ EngineInit
  /\ list = <<>> /\ lock = "free" /\ runSend = FALSE
  /\ cmd = "idle" /\ snd = "none" /\ cur = 0
  /\ queued = 0 /\ handed = <<>> /\ wakeups = 0

-----------------------------------------------------------------------------
(* The command thread: sendAxoMessage.                                     *)

(* The first call starts the send thread.                                  *)
StartSendThread ==
  /\ cmd = "idle" /\ queued < NMsgs
  /\ snd = "none"
  /\ snd' = "check"
  /\ UNCHANGED <<engine, list, lock, runSend, cmd, cur, queued, handed, wakeups>>

(* A mutant of PushMessage: the newest message goes first.                 *)
PushInFront ==
  /\ cmd = "idle" /\ queued < NMsgs
  /\ snd # "none"
  /\ lock = "free"
  /\ lock' = "command"
  /\ queued' = queued + 1
  /\ list' = <<queued'>> \o list
  /\ cmd' = "pushed"
  /\ UNCHANGED <<engine, runSend, snd, cur, handed, wakeups>>

PushMessage ==
  /\ cmd = "idle" /\ queued < NMsgs
  /\ snd # "none"
  /\ lock = "free"
  /\ lock' = "command"
  /\ queued' = queued + 1
  /\ list' = Append(list, queued')
  /\ cmd' = "pushed"
  /\ UNCHANGED <<engine, runSend, snd, cur, handed, wakeups>>

SetRunSend ==
  /\ cmd = "pushed"
  /\ runSend' = TRUE
  /\ cmd' = "flagged"
  /\ UNCHANGED <<engine, list, lock, snd, cur, queued, handed, wakeups>>

(* notify_one: without a waiting thread it does nothing.                   *)
Notify ==
  /\ cmd = "flagged"
  /\ snd' = IF snd = "waiting" THEN "check" ELSE snd
  /\ cmd' = "notified"
  /\ UNCHANGED <<engine, list, lock, runSend, cur, queued, handed, wakeups>>

UnlockList ==
  /\ cmd = "notified"
  /\ lock' = "free"
  /\ cmd' = "idle"
  /\ UNCHANGED <<engine, list, runSend, snd, cur, queued, handed, wakeups>>

-----------------------------------------------------------------------------
(* The send thread.                                                        *)

(* while (!runSend): the flag is read without sendListLock ...             *)
CheckRunSend ==
  /\ snd = "check"
  /\ snd' = IF runSend THEN "wantlock" ELSE "decided"
  /\ UNCHANGED <<engine, list, lock, runSend, cmd, cur, queued, handed, wakeups>>

(* ... and the thread begins to wait later.                                *)
Wait ==
  /\ snd = "decided"
  /\ snd' = "waiting"
  /\ UNCHANGED <<engine, list, lock, runSend, cmd, cur, queued, handed, wakeups>>

SpuriousWakeup ==
  /\ snd = "waiting"
  /\ wakeups < MaxWakeups
  /\ snd' = "check"
  /\ wakeups' = wakeups + 1
  /\ UNCHANGED <<engine, list, lock, runSend, cmd, cur, queued, handed>>

LockList ==
  /\ snd \in {"wantlock", "sleep"}
  /\ lock = "free"
  /\ lock' = "send"
  /\ snd' = "loop"
  /\ UNCHANGED <<engine, list, runSend, cmd, cur, queued, handed, wakeups>>

FewSlots == Cardinality(Free) < KeepSlots

(* A mutant of NoSlots: the thread gives up until the next message.        *)
GiveUp ==
  /\ snd = "loop" /\ list # <<>> /\ FewSlots
  /\ lock' = "free"
  /\ runSend' = FALSE
  /\ snd' = "check"
  /\ UNCHANGED <<engine, list, cmd, cur, queued, handed, wakeups>>

(* Too few entries are free: unlock, sleep, look again.                    *)
NoSlots ==
  /\ snd = "loop" /\ list # <<>> /\ FewSlots
  /\ lock' = "free"
  /\ snd' = "sleep"
  /\ UNCHANGED <<engine, list, runSend, cmd, cur, queued, handed, wakeups>>

EnoughSlots ==
  /\ snd = "loop" /\ list # <<>> /\ ~FewSlots
  /\ snd' = "send"
  /\ UNCHANGED <<engine, list, lock, runSend, cmd, cur, queued, handed, wakeups>>

(* sendAxoData_ with sendListLock held.  The engine sends the message ...  *)
HandOver(s) ==
  /\ snd = "send"
  /\ SendSipMsg(s, Head(list))
  /\ cur' = s
  /\ handed' = Append(handed, Head(list))
  /\ snd' = "setid"
  /\ UNCHANGED <<list, lock, runSend, cmd, queued, wakeups>>

(* ... and its session learns the identifier, when the mutex is unlocked.  *)
NameSession ==
  /\ snd = "setid"
  /\ SetMsgId(cur, Head(list))
  /\ list' = Tail(list)
  /\ cur' = 0
  /\ snd' = "loop"
  /\ UNCHANGED <<lock, runSend, cmd, queued, handed, wakeups>>

(* The account is offline, or all entries are in use by now.               *)
Refuse ==
  /\ snd = "send"
  /\ handed' = Append(handed, Head(list))
  /\ snd' = "refused"
  /\ UNCHANGED <<engine, list, lock, runSend, cmd, cur, queued, wakeups>>

(* State report 503.                                                       *)
ReportRefused ==
  /\ snd = "refused"
  /\ Report(Head(list), Head(list))
  /\ list' = Tail(list)
  /\ snd' = "loop"
  /\ UNCHANGED <<ses, prev, others, lock, runSend, cmd, cur, queued, handed,
                 wakeups>>

LoopEnds ==
  /\ snd = "loop" /\ list = <<>>
  /\ runSend' = FALSE
  /\ lock' = "free"
  /\ snd' = "check"
  /\ UNCHANGED <<engine, list, cmd, cur, queued, handed, wakeups>>

CommandThread == SetRunSend \/ Notify \/ UnlockList

SendThread ==
  \/ CheckRunSend \/ Wait \/ LockList \/ NoSlots \/ EnoughSlots
  \/ (\E s \in Entries : HandOver(s))
  \/ NameSession \/ Refuse \/ ReportRefused \/ LoopEnds

Engine == EngineNext /\ UNCHANGED sending

Next ==
  \/ StartSendThread \/ PushMessage \/ CommandThread
  \/ SendThread \/ SpuriousWakeup
  \/ Engine

Spec == Init /\ [][Next]_vars

(* The threads run; the engine ends what it began: a message by its        *)
(* response or its timeout, a call by hanging up.  A spurious wake-up may  *)
(* happen and need not.                                                    *)
FairSpec ==
  /\ Spec
  /\ WF_vars(CommandThread)
  /\ WF_vars(SendThread)
  /\ WF_vars(MessageEnds /\ UNCHANGED sending)
  /\ WF_vars(OtherEnds /\ UNCHANGED sending)

-----------------------------------------------------------------------------
(* Properties.                                                             *)

(* The message at the head of the list is already with the engine, or      *)
(* refused by it, before it is popped.                                     *)
Waiting == IF snd \in {"setid", "refused"} THEN Tail(list) ELSE list

Box == INSTANCE Outbox WITH Messages <- Msgs, waiting <- Waiting

(* The queue implements the outbox: while the send thread sleeps without   *)
(* the lock, and messages arrive at the other end, every message reaches   *)
(* the engine once and in the order of sendAxoMessage.                     *)
BoxSpec == Box!Spec

(* A message has one fate, and no identifier is reported twice, whatever   *)
(* the engine's responses, timeouts and redirections do to its entry.      *)
(* Identifier 0 goes with a response that is handled before SetMsgId.      *)
ReportedOnce ==
  \A i, j \in DOMAIN reports : i # j =>
    /\ reports[i].about # reports[j].about
    /\ reports[i].id = reports[j].id => reports[i].id = 0

(* A message that is left in the list when nobody works on it leaves       *)
(* runSend set: the next wake-up of the send thread finds it.              *)
LeftOverIsFlagged ==
  list # <<>> /\ lock = "free" /\ snd # "sleep" => runSend

(* Once the send thread works on the list it empties it, however scarce    *)
(* the entries of the engine are on the way.                               *)
ActiveDrains == (snd = "loop") ~> (list = <<>>)

(* The application hears of every message that left the list.              *)
EachReported ==
  \A m \in Msgs : (\E i \in DOMAIN handed : handed[i] = m)
                    ~> (\E i \in DOMAIN reports : reports[i].about = m)

-----------------------------------------------------------------------------
(* What comments of the code say, and the code does not do.                *)

(* SipTransport.cpp: runSendQueue sends the queued messages and goes on    *)
(* "until the queue is empty".                                             *)
QueuedIsSent ==
  \A m \in Msgs : (queued >= m) ~> (\E i \in DOMAIN handed : handed[i] = m)
=============================================================================
