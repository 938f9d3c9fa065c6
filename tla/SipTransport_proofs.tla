------------------------- MODULE SipTransport_proofs -------------------------
(***************************************************************************)
(* What is proved of SipTransport for every number of messages, table      *)
(* entries, other requests and spurious wake-ups: types, that a message    *)
(* left in the list is flagged, that each message has one report, and that *)
(* the queue implements the outbox.                                        *)
(***************************************************************************)
EXTENDS SipTransport, TLAPS

-----------------------------------------------------------------------------
(* The inductive invariant.                                                *)

(* Who is inside sendListLock, and what it found there.                    *)
LockInv ==
  /\ lock = "command" <=> cmd \in {"pushed", "flagged", "notified"}
  /\ lock = "send" <=> snd \in {"loop", "send", "setid", "refused"}
  /\ cmd \in {"flagged", "notified"} => runSend
  /\ snd \in {"send", "setid", "refused"} => list # <<>>
  /\ snd = "setid" => cur \in Entries

(* Messages are numbered as they are queued, so the outbox holds a run of  *)
(* numbers: 1 to Len(handed) are handed over, the rest up to queued waits. *)
OrderInv ==
  /\ \A i \in 1 .. Len(handed) : handed[i] = i
  /\ \A i \in 1 .. Len(Waiting) : Waiting[i] = Len(handed) + i
  /\ Len(handed) + Len(Waiting) = queued
  /\ snd \in {"setid", "refused"} => Head(list) = Len(handed)

(* The greatest identifier that an entry or a report may name so far ...   *)
Named == IF snd \in {"setid", "refused"} THEN Len(handed) - 1 ELSE Len(handed)

(* ... and the greatest message that an entry or a report may be about.    *)
Taken == IF snd = "refused" THEN Len(handed) - 1 ELSE Len(handed)

(* An entry tells its message once, while it carries it.                   *)
EntryInv ==
  /\ \A s \in Entries :
       IF ses[s].use = "message" THEN ses[s].msg \in 1 .. Taken
       ELSE ~ses[s].told
  /\ \A s, t \in Entries :
       ses[s].use = "message" /\ ses[t].use = "message" /\ ses[s].msg = ses[t].msg
         => s = t
  /\ \A s \in Entries, i \in 1 .. Len(reports) :
       ses[s].use = "message" /\ ~ses[s].told => reports[i].about # ses[s].msg

(* An identifier is in one entry, and in no report while that may tell it. *)
IdInv ==
  /\ \A s \in Entries : ses[s].id <= Named
  /\ \A s, t \in Entries : ses[s].id = ses[t].id /\ ses[s].id # 0 => s = t
  /\ \A s \in Entries, i \in 1 .. Len(reports) :
       ses[s].id # 0 /\ ~ses[s].told => reports[i].id # ses[s].id

ReportInv ==
  \A i \in 1 .. Len(reports) :
    reports[i].about <= Taken /\ reports[i].id <= Named

IInv ==
  /\ TypeOK /\ LockInv /\ OrderInv /\ EntryInv /\ IdInv /\ ReportInv
  /\ ReportedOnce /\ LeftOverIsFlagged

-----------------------------------------------------------------------------
(* Init.                                                                   *)

(* The invariant holds before the first message and the first request.     *)
LEMMA InitInv == Init => IInv
<1> SUFFICES ASSUME Init PROVE IInv
  OBVIOUS
<1> USE SessionsAssumption DEF Init, EngineInit
<1>1. Cleared \in Session
  BY DEF Cleared, Session
<1>1a. EngineOK
  BY <1>1 DEF EngineOK
<1>1b. SendingOK
  <2>1. list \in Seq(Msgs) /\ handed \in Seq(Msgs)
    OBVIOUS
  <2>2. cur \in 0 .. MaxSessions /\ queued \in 0 .. NMsgs /\ wakeups \in Nat
    OBVIOUS
  <2> QED
    BY <2>1, <2>2 DEF SendingOK
<1>2. LockInv /\ LeftOverIsFlagged
  BY DEF LockInv, LeftOverIsFlagged
<1>3. OrderInv
  BY DEF OrderInv, Waiting
<1>4. EntryInv /\ IdInv /\ ReportInv /\ ReportedOnce
  BY DEF EntryInv, IdInv, ReportInv, ReportedOnce, Cleared, Named, Taken
<1> QED
  BY <1>1a, <1>1b, <1>2, <1>3, <1>4 DEF IInv, TypeOK

-----------------------------------------------------------------------------
(* The table of entries.                                                   *)

EntriesInv == EngineOK /\ EntryInv /\ IdInv /\ ReportInv /\ ReportedOnce

(* Reports name numbers.                                                   *)
LEMMA ReportsType ==
  ASSUME EngineOK
  PROVE  /\ Len(reports) \in Nat /\ DOMAIN reports = 1 .. Len(reports)
         /\ \A i \in 1 .. Len(reports) :
              reports[i].id \in Nat /\ reports[i].about \in Nat
<1> DEFINE R == [id : 0 .. NMsgs, about : Msgs]
<1>1. reports \in Seq(R)
  BY DEF EngineOK
<1>2. \A r \in R : r.id \in Nat /\ r.about \in Nat
  BY SessionsAssumption DEF Msgs
<1> HIDE DEF R
<1> QED
  BY <1>1, <1>2

(* What the bounds of identifiers and messages are.                        *)
LEMMA BoundsType ==
  ASSUME IInv
  PROVE  /\ Len(handed) \in Nat /\ Named \in Int /\ Taken \in Int
         /\ Taken <= Len(handed) /\ Named <= Len(handed) /\ Len(handed) <= NMsgs
         /\ snd \in {"setid", "refused"} => Len(handed) \in Msgs
BY SessionsAssumption DEF IInv, TypeOK, SendingOK, OrderInv, LockInv, Named,
   Taken, Waiting, Msgs

(* A step of another part leaves what is known of the entries alone.       *)
LEMMA SameEntries ==
  ASSUME IInv, UNCHANGED engine, Named' = Named, Taken' = Taken
  PROVE  EntriesInv'
BY DEF IInv, TypeOK, engine, EntriesInv, EngineOK, EntryInv, IdInv,
       ReportInv, ReportedOnce

(* SendSipMsg puts the next message in a free entry.                       *)
LEMMA SendKeeps ==
  ASSUME IInv, NEW s \in Entries, HandOver(s)
  PROVE  EntriesInv'
<1> DEFINE m == Head(list)
<1>1. /\ list # <<>> /\ m \in Msgs /\ m = Len(handed) + 1
      /\ Len(handed) \in Nat /\ Len(handed') = Len(handed) + 1
  BY DEF HandOver, IInv, TypeOK, SendingOK, LockInv, OrderInv, Waiting
<1>2. /\ ses[s].use = "free" /\ ses[s] \in Session
      /\ ses' = [ses EXCEPT ![s].use = "message", ![s].msg = m]
      /\ prev' = s /\ reports' = reports /\ others' = others
  BY DEF HandOver, SendSipMsg, NewSession, Free, IInv, TypeOK, EngineOK
<1>3. Named' = Named /\ Taken = Len(handed) /\ Taken' = m
  BY <1>1 DEF HandOver, Named, Taken, IInv, TypeOK, SendingOK
<1>4. /\ ses' \in [Entries -> Session]
      /\ \A t \in Entries : t # s => ses'[t] = ses[t]
      /\ ses'[s].use = "message" /\ ses'[s].msg = m
      /\ ses'[s].id = ses[s].id /\ ses'[s].told = ses[s].told
  <2>1. m \in 0 .. NMsgs
    BY <1>1 DEF Msgs
  <2> HIDE DEF m
  <2> QED
    BY <1>2, <2>1 DEF IInv, TypeOK, EngineOK, Session
<1> HIDE DEF m
<1>5. EngineOK'
  BY <1>2, <1>4 DEF IInv, TypeOK, EngineOK, Entries
<1>6. EntryInv /\ IdInv /\ ReportInv /\ ReportedOnce /\ EngineOK
  BY DEF IInv, TypeOK
<1>7. EntryInv'
  <2>1. \A t \in Entries :
          IF ses'[t].use = "message" THEN ses'[t].msg \in 1 .. Taken'
          ELSE ~ses'[t].told
    BY <1>1, <1>3, <1>4, <1>6 DEF EntryInv, Msgs
  <2>2. \A t \in Entries : t # s /\ ses'[t].use = "message" => ses'[t].msg < m
    BY <1>1, <1>3, <1>4, <1>6 DEF EntryInv
  <2>3. \A i \in 1 .. Len(reports) : reports[i].about < m
    BY <1>1, <1>3, <1>6, ReportsType DEF ReportInv
  <2>4. \A t, u \in Entries :
          ses'[t].use = "message" /\ ses'[u].use = "message" /\ ses'[t].msg = ses'[u].msg
            => t = u
    BY <1>1, <1>4, <1>6, <2>2 DEF EntryInv
  <2>5. \A t \in Entries, i \in 1 .. Len(reports) :
          ses'[t].use = "message" /\ ~ses'[t].told => reports[i].about # ses'[t].msg
    BY <1>1, <1>4, <1>6, <2>3, ReportsType DEF EntryInv
  <2> QED
    BY <1>2, <2>1, <2>4, <2>5 DEF EntryInv
<1>8. IdInv'
  <2>1. \A t \in Entries : ses'[t].id = ses[t].id /\ ses'[t].told = ses[t].told
    BY <1>4
  <2>2. reports' = reports
    BY <1>2
  <2> QED
    BY <1>3, <1>6, <2>1, <2>2 DEF IdInv
<1>9. ReportInv' /\ ReportedOnce'
  <2>1. reports' = reports
    BY <1>2
  <2> QED
    BY <1>1, <1>3, <1>6, <2>1, ReportsType DEF ReportInv, ReportedOnce
<1> QED
  BY <1>5, <1>7, <1>8, <1>9 DEF EntriesInv

(* The session learns the identifier of the message handed over last.      *)
LEMMA NameKeeps ==
  ASSUME IInv, NameSession
  PROVE  EntriesInv'
<1> DEFINE m == Len(handed)
<1>1. m \in Nat /\ m \in Msgs /\ Head(list) = m /\ cur \in Entries
  BY BoundsType DEF NameSession, IInv, LockInv, OrderInv
<1>2. /\ ses' = [ses EXCEPT ![cur].id = m]
      /\ prev' = prev /\ reports' = reports /\ others' = others
  BY <1>1 DEF NameSession, SetMsgId
<1>3. Named = m - 1 /\ Named' = m /\ Taken = m /\ Taken' = m
  BY DEF NameSession, Named, Taken
<1>4. EntryInv /\ IdInv /\ ReportInv /\ ReportedOnce /\ EngineOK
  BY DEF IInv, TypeOK
<1> HIDE DEF m
<1>5. /\ ses' \in [Entries -> Session]
      /\ ses'[cur].id = m
      /\ \A t \in Entries : t # cur => ses'[t].id = ses[t].id
      /\ \A t \in Entries : ses'[t].use = ses[t].use /\ ses'[t].msg = ses[t].msg
                            /\ ses'[t].told = ses[t].told
  <2>1. ses[cur] \in Session /\ m \in 0 .. NMsgs
    BY <1>1, <1>4 DEF EngineOK, Msgs
  <2> QED
    BY <1>1, <1>2, <1>4, <2>1 DEF EngineOK, Session
<1>6. EngineOK'
  BY <1>2, <1>4, <1>5 DEF EngineOK
<1>7. EntryInv'
  BY <1>2, <1>3, <1>4, <1>5 DEF EntryInv
<1>8. IdInv'
  <2>1. \A t \in Entries : t # cur => ses'[t].id < m
    BY <1>1, <1>3, <1>4, <1>5 DEF IdInv, EngineOK, Session
  <2>2. \A i \in 1 .. Len(reports) : reports[i].id < m
    BY <1>1, <1>3, <1>4, ReportsType DEF ReportInv
  <2>3. \A t \in Entries : ses'[t].id <= m
    BY <1>1, <1>5, <2>1 DEF Session
  <2>4. \A t, u \in Entries : ses'[t].id = ses'[u].id /\ ses'[t].id # 0 => t = u
    BY <1>1, <1>4, <1>5, <2>1 DEF IdInv
  <2>5. \A t \in Entries, i \in 1 .. Len(reports) :
          ses'[t].id # 0 /\ ~ses'[t].told => reports[i].id # ses'[t].id
    BY <1>1, <1>4, <1>5, <2>2, ReportsType DEF IdInv
  <2> QED
    BY <1>2, <1>3, <2>3, <2>4, <2>5 DEF IdInv
<1>9. ReportInv' /\ ReportedOnce'
  BY <1>1, <1>2, <1>3, <1>4, ReportsType DEF ReportInv, ReportedOnce
<1> QED
  BY <1>6, <1>7, <1>8, <1>9 DEF EntriesInv

(* A refused message is reported, and is in no entry.                      *)
LEMMA RefusedKeeps ==
  ASSUME IInv, ReportRefused
  PROVE  EntriesInv'
<1> DEFINE m == Len(handed)
           r == [id |-> m, about |-> m]
           n == Len(reports)
<1>1. m \in Nat /\ m \in Msgs /\ Head(list) = m
  BY BoundsType DEF ReportRefused, IInv, LockInv, OrderInv
<1>2. /\ ses' = ses /\ prev' = prev /\ others' = others
      /\ reports' = Append(reports, r)
  BY <1>1 DEF ReportRefused, Report
<1>3. Named = m - 1 /\ Named' = m /\ Taken = m - 1 /\ Taken' = m
  BY DEF ReportRefused, Named, Taken
<1>4. EntryInv /\ IdInv /\ ReportInv /\ ReportedOnce /\ EngineOK
  BY DEF IInv, TypeOK
<1> HIDE DEF m
<1>5. EngineOK'
  <2>1. r \in [id : 0 .. NMsgs, about : Msgs]
    BY <1>1 DEF Msgs
  <2> HIDE DEF r
  <2> QED
    BY <1>2, <1>4, <2>1 DEF EngineOK
<1>6. /\ n \in Nat /\ Len(reports') = n + 1
      /\ \A i \in 1 .. n : reports'[i] = reports[i]
      /\ reports'[n + 1].id = m /\ reports'[n + 1].about = m
      /\ DOMAIN reports' = 1 .. (n + 1) /\ DOMAIN reports = 1 .. n
  <2>1. reports \in Seq([id : 0 .. NMsgs, about : Msgs])
    BY <1>4 DEF EngineOK
  <2>2. r.id = m /\ r.about = m
    OBVIOUS
  <2> HIDE DEF r
  <2> QED
    BY <1>2, <2>1, <2>2
<1> HIDE DEF r, n
<1>7. \A i \in 1 .. n : reports[i].id \in Nat /\ reports[i].about \in Nat
                        /\ reports[i].id < m /\ reports[i].about < m
  BY <1>1, <1>3, <1>4, ReportsType DEF ReportInv, n
<1>8. \A s \in Entries :
        /\ ses[s].id \in Nat /\ ses[s].id < m
        /\ ses[s].use = "message" => ses[s].msg \in 1 .. (m - 1)
  BY <1>1, <1>3, <1>4 DEF EntryInv, IdInv, EngineOK, Session
<1>9. EntryInv'
  <2>1. \A s \in Entries, i \in 1 .. (n + 1) :
          ses[s].use = "message" /\ ~ses[s].told => reports'[i].about # ses[s].msg
    BY <1>1, <1>4, <1>6, <1>8 DEF EntryInv, n
  <2> QED
    BY <1>1, <1>2, <1>3, <1>4, <1>6, <1>8, <2>1 DEF EntryInv
<1>10. IdInv'
  <2>1. \A s \in Entries, i \in 1 .. (n + 1) :
          ses[s].id # 0 /\ ~ses[s].told => reports'[i].id # ses[s].id
    BY <1>1, <1>4, <1>6, <1>8 DEF IdInv, n
  <2> QED
    BY <1>1, <1>2, <1>3, <1>4, <1>6, <1>8, <2>1 DEF IdInv
<1>11. ReportInv' /\ ReportedOnce'
  <2>1. \A i \in 1 .. (n + 1) : reports'[i].about <= m /\ reports'[i].id <= m
    BY <1>1, <1>6, <1>7
  <2>2. \A i, j \in 1 .. (n + 1) : i # j =>
          /\ reports'[i].about # reports'[j].about
          /\ reports'[i].id = reports'[j].id => reports'[i].id = 0
    <3>1. \A i, j \in 1 .. n : i # j =>
            /\ reports'[i].about # reports'[j].about
            /\ reports'[i].id = reports'[j].id => reports'[i].id = 0
      BY <1>4, <1>6 DEF ReportedOnce
    <3>2. \A i \in 1 .. n : reports'[i].about # m /\ reports'[i].id # m
      BY <1>1, <1>6, <1>7
    <3>3. \A i \in 1 .. (n + 1) : i \in 1 .. n \/ i = n + 1
      BY <1>6
    <3> QED
      BY <1>6, <3>1, <3>2, <3>3
  <2> QED
    BY <1>3, <1>6, <2>1, <2>2 DEF ReportInv, ReportedOnce
<1> QED
  BY <1>5, <1>9, <1>10, <1>11 DEF EntriesInv

(* What setStopReason leaves in the list of reports.                       *)
LEMMA TellAdds ==
  ASSUME EngineOK, NEW s \in Entries, ses[s].msg \in Msgs, Tell(s)
  PROVE  /\ reports' \in Seq([id : 0 .. NMsgs, about : Msgs])
         /\ ses[s].told => reports' = reports
         /\ ~ses[s].told =>
              /\ Len(reports') = Len(reports) + 1
              /\ \A i \in 1 .. Len(reports) : reports'[i] = reports[i]
              /\ reports'[Len(reports) + 1].id = ses[s].id
              /\ reports'[Len(reports) + 1].about = ses[s].msg
<1> DEFINE r == [id |-> ses[s].id, about |-> ses[s].msg]
           R == [id : 0 .. NMsgs, about : Msgs]
<1>1. reports \in Seq(R) /\ ses[s] \in Session
  BY DEF EngineOK
<1>2. r \in R /\ r.id = ses[s].id /\ r.about = ses[s].msg
  BY <1>1 DEF Session
<1>3. reports' = IF ses[s].told THEN reports ELSE Append(reports, r)
  BY DEF Tell, Report
<1> HIDE DEF r, R
<1>4. reports' \in Seq(R)
  BY <1>1, <1>2, <1>3
<1>5. ~ses[s].told =>
        /\ Len(reports') = Len(reports) + 1
        /\ \A i \in 1 .. Len(reports) : reports'[i] = reports[i]
        /\ reports'[Len(reports) + 1] = r
  BY <1>1, <1>2, <1>3
<1> QED
  BY <1>2, <1>3, <1>4, <1>5 DEF R

(* Telling one entry, whose message it carries no more or which is told    *)
(* then, and no other change of the table.                                 *)
LEMMA TellKeeps ==
  ASSUME IInv, NEW s \in Entries, ses[s].use = "message", Tell(s),
         UNCHANGED <<prev, others, handed, snd>>,
         \/ ses' = [ses EXCEPT ![s].told = TRUE]
         \/ ses' = [ses EXCEPT ![s] = Cleared]
  PROVE  EntriesInv'
<1> DEFINE n == Len(reports)
<1>1. EntryInv /\ IdInv /\ ReportInv /\ ReportedOnce /\ EngineOK
  BY DEF IInv, TypeOK
<1>2. Named' = Named /\ Taken' = Taken /\ Named \in Int /\ Taken \in Int /\ Taken <= NMsgs
  BY BoundsType, SessionsAssumption DEF Named, Taken
<1>3. ses[s].msg \in 1 .. Taken /\ ses[s].msg \in Msgs /\ ses[s] \in Session
  BY <1>1, <1>2, SessionsAssumption DEF EntryInv, EngineOK, Msgs
<1>4. /\ ses' \in [Entries -> Session]
      /\ \A t \in Entries : t # s => ses'[t] = ses[t]
      /\ \/ /\ ses'[s].use = "message" /\ ses'[s].msg = ses[s].msg
            /\ ses'[s].id = ses[s].id /\ ses'[s].told
         \/ ses'[s].use = "free" /\ ~ses'[s].told /\ ses'[s].id = 0
  <2>1. CASE ses' = [ses EXCEPT ![s].told = TRUE]
    BY <1>1, <1>3, <2>1 DEF EngineOK, Session
  <2>2. CASE ses' = [ses EXCEPT ![s] = Cleared]
    <3>1. Cleared \in Session /\ Cleared.use = "free" /\ ~Cleared.told /\ Cleared.id = 0
      BY SessionsAssumption DEF Cleared, Session
    <3> QED
      BY <1>1, <2>2, <3>1 DEF EngineOK
  <2> QED
    BY <2>1, <2>2
<1>5. /\ reports' \in Seq([id : 0 .. NMsgs, about : Msgs])
      /\ n \in Nat /\ DOMAIN reports = 1 .. n
      /\ DOMAIN reports' = 1 .. Len(reports')
  <2>1. reports' \in Seq([id : 0 .. NMsgs, about : Msgs])
    BY <1>1, <1>3, TellAdds
  <2>2. DOMAIN reports' = 1 .. Len(reports')
    BY <2>1
  <2> QED
    BY <1>1, <2>1, <2>2, ReportsType
<1>6. EngineOK'
  BY <1>1, <1>4, <1>5 DEF EngineOK
<1>7. CASE ses[s].told
  <2>1. reports' = reports
    BY <1>1, <1>3, <1>7, TellAdds
  <2>2. EntryInv'
    BY <1>1, <1>2, <1>4, <2>1 DEF EntryInv
  <2>3. IdInv'
    <3>1. \A t \in Entries : ses'[t].id = ses[t].id \/ ses'[t].id = 0
      BY <1>4
    <3>2. \A t \in Entries : ses'[t].id <= Named
      BY <1>1, <1>2, <1>3, <3>1 DEF IdInv, Session
    <3>3. \A t \in Entries : ses'[t].id # 0 /\ ~ses'[t].told => ~ses[t].told
      BY <1>4
    <3> QED
      BY <1>1, <1>2, <2>1, <3>1, <3>2, <3>3 DEF IdInv
  <2>4. ReportInv' /\ ReportedOnce'
    BY <1>1, <1>2, <2>1 DEF ReportInv, ReportedOnce
  <2> QED
    BY <1>6, <2>2, <2>3, <2>4 DEF EntriesInv
<1>8. CASE ~ses[s].told
  <2> DEFINE m == ses[s].msg
             k == ses[s].id
  <2>1. /\ Len(reports') = n + 1
        /\ \A i \in 1 .. n : reports'[i] = reports[i]
        /\ reports'[n + 1].id = k /\ reports'[n + 1].about = m
    BY <1>1, <1>3, <1>8, TellAdds
  <2>2. \A i \in 1 .. (n + 1) : i \in 1 .. n \/ i = n + 1
    BY <1>5
  <2>3. \A i \in 1 .. n : /\ reports[i].id \in Nat /\ reports[i].about \in Nat
                          /\ reports[i].about # m
                          /\ k # 0 => reports[i].id # k
    BY <1>1, <1>8, ReportsType DEF EntryInv, IdInv
  <2>4. /\ m \in Nat /\ m <= Taken /\ k \in Nat /\ k <= Named
        /\ \A t \in Entries : t # s =>
             /\ ses[t].use = "message" => ses[t].msg # m
             /\ ses[t].id # 0 => ses[t].id # k
    BY <1>1, <1>2, <1>3 DEF EntryInv, IdInv, Session
  <2> HIDE DEF m, k, n
  <2>5. EntryInv'
    <3>1. \A t \in Entries, i \in 1 .. (n + 1) :
            ses'[t].use = "message" /\ ~ses'[t].told => reports'[i].about # ses'[t].msg
      <4>1. \A t \in Entries, i \in 1 .. n :
              ses[t].use = "message" /\ ~ses[t].told => reports[i].about # ses[t].msg
        BY <1>1 DEF EntryInv, n
      <4> QED
        BY <1>4, <2>1, <2>2, <2>4, <4>1
    <3>2. \A t \in Entries :
            IF ses'[t].use = "message" THEN ses'[t].msg \in 1 .. Taken
            ELSE ~ses'[t].told
      BY <1>1, <1>3, <1>4 DEF EntryInv
    <3>3. \A t, u \in Entries :
            ses'[t].use = "message" /\ ses'[u].use = "message" /\ ses'[t].msg = ses'[u].msg
              => t = u
      BY <1>1, <1>4 DEF EntryInv
    <3> QED
      BY <1>2, <2>1, <3>1, <3>2, <3>3 DEF EntryInv
  <2>6. IdInv'
    <3>1. \A t \in Entries, i \in 1 .. (n + 1) :
            ses'[t].id # 0 /\ ~ses'[t].told => reports'[i].id # ses'[t].id
      <4>1. \A t \in Entries, i \in 1 .. n :
              ses[t].id # 0 /\ ~ses[t].told => reports[i].id # ses[t].id
        BY <1>1 DEF IdInv, n
      <4> QED
        BY <1>4, <2>1, <2>2, <2>4, <4>1
    <3>2. \A t \in Entries : ses'[t].id = ses[t].id \/ ses'[t].id = 0
      BY <1>4
    <3>3. \A t \in Entries : ses'[t].id <= Named
      BY <1>1, <1>2, <2>4, <3>2 DEF IdInv
    <3>4. \A t, u \in Entries : ses'[t].id = ses'[u].id /\ ses'[t].id # 0 => t = u
      BY <1>1, <3>2 DEF IdInv
    <3> QED
      BY <1>2, <2>1, <3>1, <3>3, <3>4 DEF IdInv
  <2>7. ReportInv'
    <3>1. \A i \in 1 .. n : reports[i].about <= Taken /\ reports[i].id <= Named
      BY <1>1 DEF ReportInv, n
    <3> QED
      BY <1>2, <2>1, <2>2, <2>4, <3>1 DEF ReportInv
  <2>8. ReportedOnce'
    <3>1. \A i, j \in 1 .. n : i # j =>
            /\ reports[i].about # reports[j].about
            /\ reports[i].id = reports[j].id => reports[i].id = 0
      BY <1>1, <1>5 DEF ReportedOnce
    <3>2. DOMAIN reports' = 1 .. (n + 1)
      BY <1>5, <2>1
    <3> QED
      BY <2>1, <2>2, <2>3, <3>1, <3>2 DEF ReportedOnce
  <2> QED
    BY <1>6, <2>5, <2>6, <2>7, <2>8 DEF EntriesInv
<1> QED
  BY <1>7, <1>8

(* Other requests take and free entries without a word.                    *)
LEMMA OtherKeeps ==
  ASSUME IInv, NEW s \in Entries, TakeOther(s) \/ EndOther(s),
         UNCHANGED <<handed, snd>>
  PROVE  EntriesInv'
<1>1. EntryInv /\ IdInv /\ ReportInv /\ ReportedOnce /\ EngineOK
  BY DEF IInv, TypeOK
<1>2. Named' = Named /\ Taken' = Taken /\ Named \in Int
  BY BoundsType DEF Named, Taken
<1>3. /\ reports' = reports /\ prev' \in 0 .. MaxSessions /\ others' \in Nat
      /\ ses[s].use # "message" /\ ses[s] \in Session
  BY <1>1 DEF TakeOther, EndOther, NewSession, Free, EngineOK, Entries
<1>4. /\ ses' \in [Entries -> Session]
      /\ \A t \in Entries : t # s => ses'[t] = ses[t]
      /\ ses'[s].use # "message" /\ ~ses'[s].told
      /\ ses'[s].id = ses[s].id \/ ses'[s].id = 0
  <2>0. ~ses[s].told
    BY <1>1, <1>3 DEF EntryInv
  <2>1. CASE TakeOther(s)
    <3>1. ses' = [ses EXCEPT ![s].use = "other"]
      BY <2>1 DEF TakeOther
    <3> QED
      BY <1>1, <1>3, <2>0, <3>1 DEF EngineOK, Session
  <2>2. CASE EndOther(s)
    <3>1. ses' = [ses EXCEPT ![s] = Cleared]
      BY <2>2 DEF EndOther
    <3>2. Cleared \in Session /\ Cleared.use = "free" /\ ~Cleared.told /\ Cleared.id = 0
      BY SessionsAssumption DEF Cleared, Session
    <3> QED
      BY <1>1, <3>1, <3>2 DEF EngineOK
  <2> QED
    BY <2>1, <2>2
<1>5. \A t \in Entries :
        /\ ses'[t].id = ses[t].id \/ ses'[t].id = 0
        /\ ses'[t].id # 0 /\ ~ses'[t].told => ~ses[t].told
  BY <1>1, <1>3, <1>4 DEF EntryInv
<1>6. \A t \in Entries : ses'[t].id <= Named
  BY <1>1, <1>2, <1>3, <1>5 DEF IdInv, Session
<1>7. EngineOK'
  BY <1>1, <1>3, <1>4 DEF EngineOK
<1>8. EntryInv'
  BY <1>1, <1>2, <1>3, <1>4 DEF EntryInv
<1>9. IdInv'
  BY <1>1, <1>2, <1>3, <1>5, <1>6 DEF IdInv
<1>10. ReportInv' /\ ReportedOnce'
  BY <1>1, <1>2, <1>3 DEF ReportInv, ReportedOnce
<1> QED
  BY <1>7, <1>8, <1>9, <1>10 DEF EntriesInv

(* Every step of the engine keeps the table and the reports in order.      *)
LEMMA EngineKeeps ==
  ASSUME IInv, Engine
  PROVE  EntriesInv'
<1>1. PICK s \in Entries : Redirect(s) \/ EndMessage(s) \/ TakeOther(s) \/ EndOther(s)
  BY DEF Engine, EngineNext
<1>2. UNCHANGED <<handed, snd>>
  BY DEF Engine, sending
<1>3. CASE Redirect(s)
  BY <1>2, <1>3, TellKeeps DEF Redirect
<1>4. CASE EndMessage(s)
  BY <1>2, <1>4, TellKeeps DEF EndMessage
<1>5. CASE TakeOther(s) \/ EndOther(s)
  BY <1>2, <1>5, OtherKeeps
<1> QED
  BY <1>1, <1>3, <1>4, <1>5

-----------------------------------------------------------------------------
(* The queue.                                                              *)

QueueInv == SendingOK /\ LockInv /\ OrderInv /\ LeftOverIsFlagged

(* A step that leaves the list and what was handed over alone, seen from   *)
(* the outbox.                                                             *)
LEMMA SameQueue ==
  ASSUME IInv, Waiting' = Waiting, UNCHANGED <<handed, queued>>,
         snd' \in {"setid", "refused"} => snd' = snd /\ list' = list
  PROVE  OrderInv'
BY DEF IInv, OrderInv

(* A message is queued.                                                    *)
LEMMA PushKeeps ==
  ASSUME IInv, PushMessage
  PROVE  QueueInv' /\ EntriesInv' /\ Box!Next
<1> USE DEF IInv, TypeOK
<1>1. /\ snd' = snd /\ snd \notin {"loop", "send", "setid", "refused"}
      /\ list' = Append(list, queued + 1) /\ queued' = queued + 1
      /\ handed' = handed /\ queued + 1 \in Msgs /\ list \in Seq(Msgs)
  BY SessionsAssumption DEF PushMessage, LockInv, SendingOK, Msgs
<1>2. Waiting = list /\ Waiting' = Append(Waiting, queued')
  BY <1>1 DEF Waiting
<1>3. SendingOK'
  BY <1>1, SessionsAssumption DEF PushMessage, SendingOK, Msgs
<1>4. LockInv' /\ LeftOverIsFlagged'
  BY <1>1 DEF PushMessage, LockInv, LeftOverIsFlagged
<1>5. OrderInv'
  <2>1. Len(handed) \in Nat /\ Len(Waiting) \in Nat
    BY <1>1, <1>2 DEF SendingOK
  <2>2. /\ Len(Waiting') = Len(Waiting) + 1
        /\ \A i \in 1 .. Len(Waiting) : Waiting'[i] = Waiting[i]
        /\ Waiting'[Len(Waiting) + 1] = queued + 1
    BY <1>1, <1>2
  <2>3. \A i \in 1 .. (Len(Waiting) + 1) : i \in 1 .. Len(Waiting) \/ i = Len(Waiting) + 1
    BY <2>1
  <2>4. \A i \in 1 .. Len(Waiting') : Waiting'[i] = Len(handed) + i
    BY <2>1, <2>2, <2>3 DEF OrderInv
  <2>5. Len(handed) + Len(Waiting') = queued + 1
    BY <2>1, <2>2 DEF OrderInv
  <2> QED
    BY <1>1, <2>4, <2>5 DEF OrderInv
<1>6. EntriesInv'
  BY <1>1, SameEntries DEF PushMessage, Named, Taken
<1>7. Box!Next
  BY <1>1, <1>2 DEF Box!Next, Box!Queue
<1> QED
  BY <1>3, <1>4, <1>5, <1>6, <1>7 DEF QueueInv

(* The message at the head leaves the list, to the engine or refused.      *)
LEMMA TakeKeeps ==
  ASSUME IInv, snd = "send", snd' \in {"setid", "refused"},
         handed' = Append(handed, Head(list)),
         snd' = "setid" => cur' \in Entries, cur' \in 0 .. MaxSessions,
         UNCHANGED <<list, lock, runSend, cmd, queued, wakeups>>
  PROVE  QueueInv' /\ Box!Next
<1> USE DEF IInv, TypeOK
<1> DEFINE n == Len(handed)
<1>1. /\ list # <<>> /\ list \in Seq(Msgs) /\ handed \in Seq(Msgs)
      /\ Head(list) \in Msgs /\ n \in Nat
  BY DEF LockInv, SendingOK
<1>2. Waiting = list /\ Waiting' = Tail(Waiting) /\ handed' = Append(handed, Head(Waiting))
  BY DEF Waiting
<1>3. SendingOK'
  BY <1>1 DEF SendingOK
<1>4. LockInv' /\ LeftOverIsFlagged'
  BY <1>1 DEF LockInv, LeftOverIsFlagged
<1>5. OrderInv'
  <2>1. /\ Len(handed') = n + 1
        /\ \A i \in 1 .. n : handed'[i] = handed[i]
        /\ handed'[n + 1] = Head(list)
    BY <1>1
  <2>2. Head(list) = n + 1
    BY <1>1, <1>2 DEF OrderInv
  <2>3. /\ Len(Tail(list)) = Len(list) - 1
        /\ \A i \in 1 .. (Len(list) - 1) : Tail(list)[i] = list[i + 1]
    BY <1>1
  <2>4. \A i \in 1 .. (n + 1) : i \in 1 .. n \/ i = n + 1
    BY <1>1
  <2>5. \A i \in 1 .. (n + 1) : handed'[i] = i
    BY <2>1, <2>2, <2>4 DEF OrderInv
  <2>6. \A i \in 1 .. (Len(list) - 1) : Tail(list)[i] = (n + 1) + i
    BY <1>1, <1>2, <2>3 DEF OrderInv
  <2>7. n + Len(list) = queued /\ Len(list) \in Nat
    BY <1>1, <1>2 DEF OrderInv
  <2>8. Waiting' = Tail(list) /\ Head(list') = Len(handed')
    BY <1>2, <2>1, <2>2
  <2>9. Len(Waiting') = Len(list) - 1
    BY <2>3, <2>8
  <2>10. \A i \in 1 .. Len(handed') : handed'[i] = i
    BY <2>1, <2>5
  <2>11. \A i \in 1 .. Len(Waiting') : Waiting'[i] = Len(handed') + i
    <3>1. Len(handed') = n + 1
      BY <2>1
    <3>2. Waiting' = Tail(list)
      BY <2>8
    <3> HIDE DEF n
    <3> QED
      BY <2>6, <2>9, <3>1, <3>2
  <2>12. Len(handed') + Len(Waiting') = queued'
    <3>1. Len(handed') = n + 1
      BY <2>1
    <3>2. queued' = queued /\ queued \in Int /\ n \in Int
      BY <1>1, <2>7
    <3>3. Len(Waiting') = Len(list) - 1 /\ Len(list) \in Nat /\ n + Len(list) = queued
      BY <2>7, <2>9
    <3> HIDE DEF n, IInv, TypeOK
    <3> QED
      BY ONLY <3>1, <3>2, <3>3
  <2>13. Head(list') = Len(handed')
    BY <2>8
  <2> QED
    BY <2>10, <2>11, <2>12, <2>13 DEF OrderInv
<1>6. Box!Next
  BY <1>1, <1>2 DEF Box!Next, Box!HandOver
<1> QED
  BY <1>3, <1>4, <1>5, <1>6 DEF QueueInv

-----------------------------------------------------------------------------
(* Every step.                                                             *)

(* The steps of Next keep the invariant, and are steps of the outbox or    *)
(* leave it alone: one proof step per action.                              *)
THEOREM InvStep == IInv /\ [Next]_vars => IInv' /\ [Box!Next]_(Box!boxVars)
<1> SUFFICES ASSUME IInv, [Next]_vars PROVE IInv' /\ [Box!Next]_(Box!boxVars)
  OBVIOUS
<1> DEFINE Good == IInv' /\ [Box!Next]_(Box!boxVars)
<1>a. QueueInv' /\ EntriesInv' => IInv'
  BY DEF IInv, QueueInv, EntriesInv, TypeOK
<1>b. /\ EngineOK /\ SendingOK /\ LockInv /\ OrderInv /\ LeftOverIsFlagged
  BY DEF IInv, TypeOK
<1>1. CASE StartSendThread
  <2>1. UNCHANGED <<engine, handed, queued, list>> /\ Waiting' = Waiting
        /\ Named' = Named /\ Taken' = Taken /\ snd' = "check"
    BY <1>1 DEF StartSendThread, Waiting, Named, Taken
  <2>2. SendingOK' /\ LockInv' /\ LeftOverIsFlagged'
    BY <1>1, <1>b DEF StartSendThread, SendingOK, LockInv, LeftOverIsFlagged
  <2> QED
    BY <1>a, <2>1, <2>2, SameQueue, SameEntries DEF QueueInv, Box!boxVars
<1>2. CASE PushMessage
  BY <1>2, <1>a, PushKeeps
<1>3. CASE SetRunSend \/ Notify \/ UnlockList
  <2>1. UNCHANGED <<engine, handed, queued, list>> /\ Waiting' = Waiting
        /\ Named' = Named /\ Taken' = Taken
        /\ (snd' \in {"setid", "refused"} => snd' = snd)
    BY <1>3 DEF SetRunSend, Notify, UnlockList, Waiting, Named, Taken
  <2>2. SendingOK' /\ LockInv' /\ LeftOverIsFlagged'
    BY <1>3, <1>b DEF SetRunSend, Notify, UnlockList, SendingOK, LockInv,
       LeftOverIsFlagged
  <2> QED
    BY <1>a, <2>1, <2>2, SameQueue, SameEntries DEF QueueInv, Box!boxVars
<1>4. CASE CheckRunSend \/ Wait \/ SpuriousWakeup \/ LockList \/ NoSlots \/ EnoughSlots
           \/ LoopEnds
  <2>1. UNCHANGED <<engine, handed, queued, list>> /\ Waiting' = Waiting
        /\ Named' = Named /\ Taken' = Taken
        /\ snd' \notin {"setid", "refused"}
    BY <1>4 DEF CheckRunSend, Wait, SpuriousWakeup, LockList, NoSlots,
       EnoughSlots, LoopEnds, Waiting, Named, Taken
  <2>2. SendingOK' /\ LockInv' /\ LeftOverIsFlagged'
    <3> USE <1>b DEF SendingOK, LockInv, LeftOverIsFlagged
    <3>1. CASE CheckRunSend
      BY <3>1 DEF CheckRunSend
    <3>2. CASE Wait
      BY <3>2 DEF Wait
    <3>3. CASE SpuriousWakeup
      BY <3>3 DEF SpuriousWakeup
    <3>4. CASE LockList
      BY <3>4 DEF LockList
    <3>5. CASE NoSlots
      BY <3>5 DEF NoSlots
    <3>6. CASE EnoughSlots
      BY <3>6 DEF EnoughSlots
    <3>7. CASE LoopEnds
      BY <3>7 DEF LoopEnds
    <3> QED
      BY <1>4, <3>1, <3>2, <3>3, <3>4, <3>5, <3>6, <3>7
  <2> QED
    BY <1>a, <2>1, <2>2, SameQueue, SameEntries DEF QueueInv, Box!boxVars
<1>5. ASSUME NEW s \in Entries, HandOver(s) PROVE Good
  <2>1. QueueInv' /\ Box!Next
    BY <1>5, TakeKeeps DEF HandOver, Entries
  <2> QED
    BY <1>5, <1>a, <2>1, SendKeeps
<1>6. CASE Refuse
  <2>1. QueueInv' /\ Box!Next
    BY <1>6, <1>b, TakeKeeps DEF Refuse, SendingOK
  <2>2. Named' = Named /\ Taken' = Taken
    BY <1>6, <1>b DEF Refuse, Named, Taken, SendingOK, LockInv
  <2> QED
    BY <1>6, <1>a, <2>1, <2>2, SameEntries DEF Refuse
<1>7. CASE NameSession \/ ReportRefused
  <2>1. /\ UNCHANGED <<handed, queued>> /\ snd' = "loop"
        /\ list' = Tail(list) /\ list # <<>>
    BY <1>7, <1>b DEF NameSession, ReportRefused, LockInv
  <2>2. Waiting' = Waiting
    BY <1>7, <2>1 DEF NameSession, ReportRefused, Waiting
  <2>3. SendingOK' /\ LockInv' /\ LeftOverIsFlagged'
    <3>1. /\ UNCHANGED <<lock, runSend, cmd, queued, handed, wakeups>>
          /\ cur' \in {0, cur} /\ snd \in {"setid", "refused"}
      BY <1>7 DEF NameSession, ReportRefused
    <3>2. list' \in Seq(Msgs)
      BY <1>b, <2>1 DEF SendingOK
    <3>3. cur' \in 0 .. MaxSessions
      BY <1>b, <3>1, SessionsAssumption DEF SendingOK
    <3>4. SendingOK'
      BY <1>b, <2>1, <3>1, <3>2, <3>3 DEF SendingOK
    <3>5. LockInv' /\ LeftOverIsFlagged'
      BY <1>b, <2>1, <3>1 DEF LockInv, LeftOverIsFlagged
    <3> QED
      BY <3>4, <3>5
  <2>4. EntriesInv'
    BY <1>7, NameKeeps, RefusedKeeps
  <2> QED
    BY <1>a, <2>1, <2>2, <2>3, <2>4, SameQueue DEF QueueInv, Box!boxVars
<1>8. CASE Engine
  <2>1. UNCHANGED sending /\ Waiting' = Waiting
    BY <1>8 DEF Engine, sending, Waiting
  <2>2. SendingOK' /\ LockInv' /\ LeftOverIsFlagged'
    BY <1>b, <2>1 DEF sending, SendingOK, LockInv, LeftOverIsFlagged
  <2> QED
    BY <1>8, <1>a, <2>1, <2>2, SameQueue, EngineKeeps DEF QueueInv, sending,
       Box!boxVars
<1>9. CASE UNCHANGED vars
  <2>1. UNCHANGED engine /\ UNCHANGED sending /\ Waiting' = Waiting
        /\ Named' = Named /\ Taken' = Taken
    BY <1>9 DEF vars, sending, Waiting, Named, Taken
  <2>2. SendingOK' /\ LockInv' /\ LeftOverIsFlagged'
    BY <1>b, <2>1 DEF sending, SendingOK, LockInv, LeftOverIsFlagged
  <2> QED
    BY <1>a, <2>1, <2>2, SameQueue, SameEntries DEF QueueInv, sending, Box!boxVars
<1> QED
  BY <1>1, <1>2, <1>3, <1>4, <1>5, <1>6, <1>7, <1>8, <1>9
     DEF Next, CommandThread, SendThread

-----------------------------------------------------------------------------
(* The theorems.                                                           *)

(* The invariant holds in every reachable state.                           *)
THEOREM Invariant == Spec => []IInv
<1>1. IInv /\ [Next]_vars => IInv'
  BY InvStep
<1> QED
  BY <1>1, InitInv, PTL DEF Spec

(* Whatever the number of messages and entries, the queue, the threads and *)
(* the table keep their types.                                             *)
THEOREM TypeCorrect == Spec => []TypeOK
<1>1. IInv => TypeOK
  BY DEF IInv
<1> QED
  BY <1>1, Invariant, PTL

(* stateReportAxo tells the application of a message once, whatever the    *)
(* engine's responses, redirects and timeouts do to the entry it had.      *)
THEOREM OneReport == Spec => []ReportedOnce
<1>1. IInv => ReportedOnce
  BY DEF IInv
<1> QED
  BY <1>1, Invariant, PTL

(* What runSendQueue leaves in the list is flagged in runSend.             *)
THEOREM NothingForgotten == Spec => []LeftOverIsFlagged
<1>1. IInv => LeftOverIsFlagged
  BY DEF IInv
<1> QED
  BY <1>1, Invariant, PTL

(* The send queue implements the outbox: what sendAxoMessage queued goes   *)
(* to the engine once and in order.                                        *)
THEOREM QueueIsOutbox == Spec => BoxSpec
<1>1. Init => Box!Init
  BY DEF Init, Box!Init, Waiting
<1>2. IInv /\ [Next]_vars => [Box!Next]_(Box!boxVars)
  BY InvStep
<1> QED
  BY <1>1, <1>2, Invariant, PTL DEF Spec, BoxSpec, Box!Spec
=============================================================================
