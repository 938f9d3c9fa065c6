---------------------------- MODULE SipSessions ----------------------------
(***************************************************************************)
(* The session table of the SIP engine (CPhSesions), as far as it carries  *)
(* messages: a SIP MESSAGE takes a free entry, which ends with a final     *)
(* response or a timeout.  Every action here runs under the mutex of the   *)
(* engine, except SetMsgId.                                                *)
(***************************************************************************)
EXTENDS Integers, Sequences

CONSTANTS
  NMsgs,        \* messages 1 .. NMsgs, numbered as they are queued
  MaxSessions,  \* entries of the table
  MaxOthers     \* bound: calls and other requests that take an entry

ASSUME SessionsAssumption ==
  /\ NMsgs \in Nat
  /\ MaxSessions \in Nat \ {0}
  /\ MaxOthers \in Nat

VARIABLES
  ses,      \* the table
  prev,     \* prevRetSes, the entry given out last; 0 if none
  reports,  \* the state reports to the application, in order
  others    \* counts the other requests

engine == <<ses, prev, reports, others>>

Msgs == 1 .. NMsgs
Entries == 1 .. MaxSessions

(* What an entry is used for, the message it carries, the identifier the   *)
(* report will name (sentSimpleMsgId64bit), and iStopReasonSet.            *)
Session == [use : {"free", "message", "other"}, msg : 0 .. NMsgs,
            id : 0 .. NMsgs, told : BOOLEAN]

(* freeSes zeroes the whole entry.                                         *)
Cleared == [use |-> "free", msg |-> 0, id |-> 0, told |-> FALSE]

EngineOK ==
  /\ ses \in [Entries -> Session]
  /\ prev \in 0 .. MaxSessions
  /\ reports \in Seq([id : 0 .. NMsgs, about : Msgs])
  /\ others \in Nat

EngineInit ==
  /\ ses = [s \in Entries |-> Cleared]
  /\ prev = 0
  /\ reports = <<>>
  /\ others = 0

Free == {s \in Entries : ses[s].use = "free"}

(* getNewSes: the first free entry, the one given out last only if there   *)
(* is no other.  The entry is not zeroed again.                            *)
NewSession(s) ==
  LET fresh == Free \ {prev}
      choice == IF fresh # {} THEN fresh ELSE Free
  IN  s \in choice /\ \A t \in choice : s <= t

SendSipMsg(s, m) ==
  /\ NewSession(s)
  /\ ses' = [ses EXCEPT ![s].use = "message", ![s].msg = m]
  /\ prev' = s
  /\ UNCHANGED <<reports, others>>

(* A mutant of SetMsgId: the identifier of the message to be queued next.  *)
SetNextMsgId(s, m) ==
  /\ ses' = [ses EXCEPT ![s].id = m + 1]
  /\ UNCHANGED <<prev, reports, others>>

(* The assignment in g_sendDataFuncAxoNew, without the mutex and whatever  *)
(* the entry is used for by now.                                           *)
SetMsgId(s, m) ==
  /\ ses' = [ses EXCEPT ![s].id = m]
  /\ UNCHANGED <<prev, reports, others>>

Report(id, m) == reports' = Append(reports, [id |-> id, about |-> m])

(* A mutant of Tell: iStopReasonSet is not looked at.                      *)
TellAgain(s) == Report(ses[s].id, ses[s].msg)

(* setStopReason: one report for each use of an entry.                     *)
Tell(s) == IF ses[s].told THEN UNCHANGED reports
           ELSE Report(ses[s].id, ses[s].msg)

(* A redirecting response: the message is sent again, the entry stays.     *)
Redirect(s) ==
  /\ ses[s].use = "message"
  /\ ~ses[s].told
  /\ Tell(s)
  /\ ses' = [ses EXCEPT ![s].told = TRUE]
  /\ UNCHANGED <<prev, others>>

(* A mutant of EndMessage: a timeout is not told.                          *)
EndSilently(s) ==
  /\ ses[s].use = "message"
  /\ ses' = [ses EXCEPT ![s] = Cleared]
  /\ UNCHANGED <<prev, reports, others>>

(* A final response, or no response until the retransmissions are used up. *)
EndMessage(s) ==
  /\ ses[s].use = "message"
  /\ Tell(s)
  /\ ses' = [ses EXCEPT ![s] = Cleared]
  /\ UNCHANGED <<prev, others>>

(* A call or another request takes an entry, and gives it back.            *)
TakeOther(s) ==
  /\ others < MaxOthers
  /\ NewSession(s)
  /\ ses' = [ses EXCEPT ![s].use = "other"]
  /\ prev' = s
  /\ others' = others + 1
  /\ UNCHANGED reports

EndOther(s) ==
  /\ ses[s].use = "other"
  /\ ses' = [ses EXCEPT ![s] = Cleared]
  /\ UNCHANGED <<prev, reports, others>>

MessageEnds == \E s \in Entries : EndMessage(s)
OtherEnds == \E s \in Entries : EndOther(s)

EngineNext ==
  \E s \in Entries : Redirect(s) \/ EndMessage(s) \/ TakeOther(s) \/ EndOther(s)
=============================================================================
