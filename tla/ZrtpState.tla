------------------------------ MODULE ZrtpState ------------------------------
(***************************************************************************)
(* Two ZRTP engines (ZrtpStateClass) that agree on the keys of one media   *)
(* stream over a network that loses, duplicates and reorders packets: the  *)
(* discovery with its version negotiation, the Commit clash, the key       *)
(* agreement in DH and in multi-stream mode, the error exchange, the       *)
(* resending timers with their limits, the switching of SRTP, and the      *)
(* application that starts and stops a stream.                             *)
(*                                                                         *)
(* The devices are 1 and 2; the hash value (hvi) or nonce in the Commit of *)
(* device 2 is the greater one.  An engine sends one Commit in its life,   *)
(* so the keys of a stream are named by the device whose Commit they are   *)
(* derived from.                                                           *)
(***************************************************************************)
EXTENDS Integers, FiniteSets, Functions

CONSTANTS
  MultiStream,     \* subset of BOOLEAN: DH mode, multi-stream mode
  Versions1, Versions2,   \* the sets of protocol versions devices 1 and 2 may support
  Departures,      \* the kinds of departures from the plain behaviour
  MaxVariations    \* bound: departures of a behaviour from the plain one

Devices == {1, 2}
Other(p) == 3 - p

(* The application stops a stream, a timer has used up its retries, a timer *)
(* is called after its cancellation, a request is not entered in the list. *)
Kinds == {"stop", "exhausted", "stray", "dropped"}

ASSUME ZrtpAssumption ==
  /\ MultiStream \subseteq BOOLEAN
  /\ Versions1 \union Versions2 \subseteq (SUBSET {1, 2}) \ {{}}
  /\ Departures \subseteq Kinds /\ MaxVariations \in Nat

VARIABLES
  conf,      \* the set-up of this stream
  eng,       \* the two engines with their timers and SRTP contexts
  net,       \* packets in flight
  departures \* how often the behaviour departed from the plain one

vars == <<conf, eng, net, departures>>

Types == {"Hello", "HelloAck", "Commit", "DHPart1", "DHPart2", "Confirm1",
          "Confirm2", "Conf2Ack", "Error", "ErrorAck"}

(* A packet: info is the version of a Hello, the key that protects a       *)
(* Confirm packet, and 0 for the others.                                   *)
Packet == [to : Devices, type : Types, info : 0 .. 2]
NoPacket == [to |-> 1, type |-> "none", info |-> 0]
To(p, type, info) == [to |-> Other(p), type |-> type, info |-> info]

States == {"Initial", "Detect", "AckSent", "AckDetected", "WaitCommit",
           "CommitSent", "WaitDHPart2", "WaitConfirm1", "WaitConfirm2",
           "WaitConfAck", "SecureState", "WaitErrorAck"}

(* key, recv and send are 0 or the device whose Commit the key is made of. *)
(* An engine is "switching" when a call of its receiving thread has sent a *)
(* packet and has yet to switch SRTP on: it holds the engine's lock.       *)
Engine == [started : {"no", "yes", "switching", "stopped"}, state : States,
           sentPacket : Packet \union {NoPacket}, version : {1, 2},
           armed : Nat, due : BOOLEAN, key : 0 .. 2, recv : 0 .. 2, send : 0 .. 2,
           failed : {"", "peer", "error", "retries", "protocol"},
           notSupp : BOOLEAN]

Highest(vs) == CHOOSE v \in vs : \A w \in vs : w <= v

NewEngine(p) ==
  [started |-> "no", state |-> "Initial", sentPacket |-> NoPacket,
   version |-> Highest(conf.versions[p]), armed |-> 0, due |-> FALSE, key |-> 0, recv |-> 0, send |-> 0,
   failed |-> "", notSupp |-> FALSE]

Configs == [multi : MultiStream, versions : Versions1 \X Versions2]

(* The plain behaviour is a stream in DH mode between two devices with all *)
(* versions.                                                               *)
Variations ==
  LET one(b) == IF b THEN 1 ELSE 0
  IN one(conf.multi) + one(\E p \in Devices : conf.versions[p] # {1, 2})
       + SumFunction(departures)

Departs(kind) ==
  /\ kind \in Departures /\ Variations < MaxVariations
  /\ departures' = [departures EXCEPT ![kind] = @ + 1]

TypeOK ==
  /\ conf \in Configs
  /\ eng \in [Devices -> Engine]
  /\ net \subseteq Packet
  /\ departures \in [Kinds -> Nat]

Init ==
  /\ departures = [k \in Kinds |-> 0]
  /\ conf \in Configs /\ Variations <= MaxVariations
  /\ eng = [p \in Devices |-> NewEngine(p)]
  /\ net = {}

-----------------------------------------------------------------------------
(* What handlers do to an engine e.                                        *)

(* A mutant of CancelTimer: one request is taken off, present or not.      *)
CancelOne(e) == [e EXCEPT !.armed = @ - 1]

CancelTimer(e) == [e EXCEPT !.armed = 0]
StartTimer(e) == [e EXCEPT !.armed = @ + 1]

(* Go to a state and remember the packet for resending.                    *)
Goto(e, state, packet) == [e EXCEPT !.state = state, !.sentPacket = packet]

(* sendFailed, timerFailed and the end of the other failing handlers.      *)
Failed(e, reason) == [Goto(e, "Initial", NoPacket) EXCEPT !.failed = reason]

SecretsOff(e) == [e EXCEPT !.recv = 0, !.send = 0]

HelloOf(p) == To(p, "Hello", eng[p].version)

(* One step of device p, which leaves its engine as e and sends packets.   *)
Step(p, e, packets) ==
  /\ eng' = [eng EXCEPT ![p] = e]
  /\ net' = net \union packets
  /\ UNCHANGED <<conf, departures>>

(* Packets for p.  One that is received stays in flight, as it may be      *)
(* received again, until the network loses it.                             *)
Got(p, type) == {m \in net : m.to = p /\ m.type = type}

(* Device p is in one of these states, and a packet has come.              *)
Receives(p, states, type) ==
  eng[p].started = "yes" /\ eng[p].state \in states /\ Got(p, type) # {}

(* sendErrorPacket.                                                        *)
SendError(p) ==
  LET error == To(p, "Error", 0)
  IN Step(p,
          StartTimer([Goto(CancelTimer(eng[p]), "WaitErrorAck", error)
                        EXCEPT !.failed = "error"]),
          {error})

-----------------------------------------------------------------------------
(* The application.                                                        *)

Start(p) ==
  /\ eng[p].started = "no"
  /\ Step(p, StartTimer(Goto([eng[p] EXCEPT !.started = "yes"], "Detect", HelloOf(p))),
          {HelloOf(p)})

(* stopStream deletes the engine, which closes it.                         *)
Stop(p) ==
  /\ eng[p].started = "yes"
  /\ Departs("stop")
  /\ eng' = [eng EXCEPT ![p] =
       [SecretsOff(Goto(CancelTimer(@), "Initial", NoPacket))
          EXCEPT !.started = "stopped", !.due = FALSE]]
  /\ UNCHANGED <<conf, net>>

-----------------------------------------------------------------------------
(* Discovery.                                                              *)

HelloAck(p) == To(p, "HelloAck", 0)

DetectHelloAck(p) ==
  /\ Receives(p, {"Detect"}, "HelloAck")
  /\ Step(p, Goto(CancelTimer(eng[p]), "AckDetected", NoPacket), {})

(* The peer's version is higher: stay, and start over.              *)
DetectHigherHello(p) ==
  /\ Receives(p, {"Detect"}, "Hello")
  /\ \E m \in Got(p, "Hello") : m.info > eng[p].version
  /\ Step(p, StartTimer(CancelTimer(eng[p])), {})

(* The peer's version is lower: go down to it, or to the next lower one.   *)
DetectLowerHello(p) ==
  /\ Receives(p, {"Detect"}, "Hello")
  /\ \E m \in Got(p, "Hello") :
       LET common == {v \in conf.versions[p] : v <= m.info}
           hello == To(p, "Hello", Highest(common))
       IN /\ m.info < eng[p].version
          /\ IF common = {} THEN SendError(p)
             ELSE Step(p,
                       StartTimer([CancelTimer(eng[p]) EXCEPT
                         !.version = hello.info, !.sentPacket = hello]),
                       {hello})

DetectHello(p) ==
  /\ Receives(p, {"Detect"}, "Hello")
  /\ \E m \in Got(p, "Hello") : m.info = eng[p].version
  /\ Step(p, [StartTimer(CancelTimer(eng[p])) EXCEPT !.state = "AckSent"], {HelloAck(p)})

(* The peer did not get the HelloAck.                                      *)
AckSentHello(p) ==
  Receives(p, {"AckSent"}, "Hello") /\ Step(p, eng[p], {HelloAck(p)})

AckDetectedHello(p) ==
  /\ Receives(p, {"AckDetected"}, "Hello")
  /\ Step(p, Goto(eng[p], "WaitCommit", HelloAck(p)), {HelloAck(p)})

WaitCommitHello(p) ==
  Receives(p, {"WaitCommit"}, "Hello") /\ Step(p, eng[p], {eng[p].sentPacket})

-----------------------------------------------------------------------------
(* Commit and the clash of two Commits.                                    *)

Commit(p) == To(p, "Commit", 0)

AckSentHelloAck(p) ==
  /\ Receives(p, {"AckSent"}, "HelloAck")
  /\ Step(p, StartTimer(Goto(CancelTimer(eng[p]), "CommitSent", Commit(p))), {Commit(p)})

(* A mutant of Respond: the Commit timer goes on.                          *)
RespondKeepsTimer(p) ==
  LET key == Other(p)
      packet == IF conf.multi THEN To(p, "Confirm1", key) ELSE To(p, "DHPart1", 0)
  IN Step(p,
          IF conf.multi
          THEN [Goto(eng[p], "WaitConfirm2", packet) EXCEPT !.key = key]
          ELSE Goto(eng[p], "WaitDHPart2", packet),
          {packet})

(* Take the responder's role: prepareDHPart1, prepareConfirm1MultiStream.  *)
Respond(p) ==
  LET key == Other(p)
      packet == IF conf.multi THEN To(p, "Confirm1", key) ELSE To(p, "DHPart1", 0)
  IN Step(p,
          IF conf.multi
          THEN [Goto(CancelTimer(eng[p]), "WaitConfirm2", packet) EXCEPT !.key = key]
          ELSE Goto(CancelTimer(eng[p]), "WaitDHPart2", packet),
          {packet})

ReceiveCommit(p) == Receives(p, {"AckSent", "WaitCommit"}, "Commit") /\ Respond(p)

(* Mutants of OwnHviLess: no device gives way, both give way.              *)
NoOneGivesWay(p) == FALSE
BothGiveWay(p) == TRUE

(* compareCommit *)
OwnHviLess(p) == p < Other(p)

CommitClash(p) ==
  Receives(p, {"CommitSent"}, "Commit") /\ OwnHviLess(p) /\ Respond(p)

(* Stay the initiator, and give the peer more time.                        *)
CommitKept(p) ==
  /\ Receives(p, {"CommitSent"}, "Commit") /\ ~OwnHviLess(p)
  /\ Step(p, StartTimer(CancelTimer(eng[p])), {})

(* The peer did not get the DHPart1, or the Confirm1 in multi-stream mode. *)
RepeatedCommit(p) ==
  /\ Receives(p, IF conf.multi THEN {"WaitConfirm2"} ELSE {"WaitDHPart2"}, "Commit")
  /\ Step(p, eng[p], {eng[p].sentPacket})

-----------------------------------------------------------------------------
(* Key agreement and confirmation.                                         *)

ReceiveDHPart1(p) ==
  LET packet == To(p, "DHPart2", 0)
  IN /\ Receives(p, {"CommitSent"}, "DHPart1")
     /\ Step(p,
             StartTimer([Goto(CancelTimer(eng[p]), "WaitConfirm1", packet) EXCEPT !.key = p]),
             {packet})

ReceiveDHPart2(p) ==
  LET packet == To(p, "Confirm1", Other(p))
  IN /\ Receives(p, {"WaitDHPart2"}, "DHPart2")
     /\ Step(p, [Goto(eng[p], "WaitConfirm2", packet) EXCEPT !.key = Other(p)], {packet})

(* The peer did not get the Confirm1.                                      *)
RepeatedDHPart2(p) ==
  Receives(p, {"WaitConfirm2"}, "DHPart2") /\ Step(p, eng[p], {eng[p].sentPacket})

(* A mutant of Confirmed: the receiver is switched on with the sender.     *)
ConfirmedLate(p) == [eng[p] EXCEPT !.key = p]

(* The initiator has checked Confirm1.  In DH mode it switches the receiver*)
(* on before it sends Confirm2, in multi-stream mode, where it has its key *)
(* only now, after it.                                                     *)
Confirmed(p) ==
  IF conf.multi THEN [eng[p] EXCEPT !.key = p, !.started = "switching"]
  ELSE [eng[p] EXCEPT !.key = p, !.recv = p]

ReceiveConfirm1(p) ==
  LET packet == To(p, "Confirm2", p)
  IN /\ Receives(p, {IF conf.multi THEN "CommitSent" ELSE "WaitConfirm1"}, "Confirm1")
     /\ \E m \in Got(p, "Confirm1") :
          IF m.info # p THEN SendError(p)
          ELSE Step(p, StartTimer(Goto(CancelTimer(Confirmed(p)), "WaitConfAck", packet)),
                    {packet})

SwitchReceiver(p) ==
  /\ eng[p].started = "switching" /\ eng[p].state = "WaitConfAck"
  /\ Step(p, [eng[p] EXCEPT !.started = "yes", !.recv = eng[p].key], {})

(* The responder has checked Confirm2.  It sends Conf2Ack ...              *)
ReceiveConfirm2(p) ==
  LET packet == To(p, "Conf2Ack", 0)
  IN /\ Receives(p, {"WaitConfirm2"}, "Confirm2")
     /\ \E m \in Got(p, "Confirm2") :
          IF m.info # eng[p].key THEN SendError(p)
          ELSE Step(p, [eng[p] EXCEPT !.started = "switching", !.sentPacket = packet],
                    {packet})

(* ... before it switches SRTP on in both directions.                      *)
SwitchBoth(p) ==
  /\ eng[p].started = "switching" /\ eng[p].state = "WaitConfirm2"
  /\ Step(p, [eng[p] EXCEPT !.started = "yes", !.state = "SecureState",
                            !.recv = eng[p].key, !.send = eng[p].key],
          {})

(* The peer did not get the Conf2Ack.                                      *)
RepeatedConfirm2(p) ==
  /\ Receives(p, {"SecureState"}, "Confirm2") /\ eng[p].sentPacket # NoPacket
  /\ Step(p, eng[p], {eng[p].sentPacket})

(* A mutant of InitiatorSecure: the keys of the responder's role.          *)
InitiatorSwapped(p) ==
  [Goto(CancelTimer(eng[p]), "SecureState", NoPacket) EXCEPT !.send = Other(eng[p].key)]

InitiatorSecure(p) ==
  [Goto(CancelTimer(eng[p]), "SecureState", NoPacket) EXCEPT !.send = eng[p].key]

ReceiveConf2Ack(p) ==
  Receives(p, {"WaitConfAck"}, "Conf2Ack") /\ Step(p, InitiatorSecure(p), {})

(* Media that SRTP can unprotect stands for the Conf2Ack.                  *)
ReceiveMedia(p) ==
  /\ eng[p].started = "yes" /\ eng[p].state = "WaitConfAck"
  /\ eng[Other(p)].send = eng[p].recv /\ eng[p].recv # 0
  /\ Step(p, InitiatorSecure(p), {})

-----------------------------------------------------------------------------
(* The error exchange.                                                     *)

ErrorAck(p) == To(p, "ErrorAck", 0)

(* An Error ends the negotiation in every state, but not a secure stream.  *)
ReceiveError(p) ==
  /\ Receives(p, States, "Error")
  /\ Step(p,
          IF eng[p].state \in {"Initial", "SecureState"} THEN CancelTimer(eng[p])
          ELSE [Failed(CancelTimer(eng[p]), "peer") EXCEPT
                  !.recv = IF eng[p].state = "WaitConfAck" THEN 0 ELSE @],
          {ErrorAck(p)})

ReceiveErrorAck(p) ==
  /\ Receives(p, {"WaitErrorAck"}, "ErrorAck")
  /\ Step(p, Goto(CancelTimer(eng[p]), "Initial", NoPacket), {})

-----------------------------------------------------------------------------
(* The timer.                                                              *)

(* nextTimer says that there are no retries left: T1 ends the discovery,    *)
(* T2 the negotiation.  The model lets any retry be the last one.          *)
Exhausted(e) ==
  IF e.state \in {"Detect", "AckSent"}
  THEN [e EXCEPT !.state = "Detect", !.notSupp = TRUE]
  ELSE [Failed(e, "retries") EXCEPT
          !.recv = IF e.state = "WaitConfAck" THEN 0 ELSE @]

Resending == {"Detect", "AckSent", "CommitSent", "WaitConfirm1", "WaitConfAck",
              "WaitErrorAck"}

(* The Timer event, with the engine as it is after its timer is gone.      *)
Resend(p, e) ==
  /\ e.state \in Resending
  /\ net' = net \union {e.sentPacket}
  /\ \/ eng' = [eng EXCEPT ![p] = StartTimer(e)] /\ UNCHANGED departures
     \/ eng' = [eng EXCEPT ![p] = Exhausted(e)] /\ Departs("exhausted")

NothingToSend(p, e) ==
  /\ e.state \notin Resending
  /\ eng' = [eng EXCEPT ![p] =
       IF e.state \in {"Initial", "SecureState"} THEN e ELSE Failed(e, "protocol")]
  /\ UNCHANGED <<net, departures>>

TimerEvent(p, e) == (Resend(p, e) \/ NothingToSend(p, e)) /\ UNCHANGED conf

Timeout(p) ==
  /\ eng[p].armed > 0 /\ ~eng[p].due /\ eng[p].started # "switching"
  /\ TimerEvent(p, [eng[p] EXCEPT !.armed = @ - 1])

(* requestTimeout loses a request that is due in the same millisecond as   *)
(* the last one of the list, of this or another stream.  Nothing reads the *)
(* list before the request is due, so it may as well be lost later.        *)
DropRequest(p) ==
  /\ eng[p].armed > 0
  /\ Departs("dropped")
  /\ eng' = [eng EXCEPT ![p].armed = @ - 1]
  /\ UNCHANGED <<conf, net>>

(* OnTask takes the request off its list ...                               *)
TakeRequest(p) ==
  /\ eng[p].armed > 0 /\ ~eng[p].due
  /\ Departs("stray")
  /\ eng' = [eng EXCEPT ![p].armed = @ - 1, ![p].due = TRUE]
  /\ UNCHANGED <<conf, net>>

(* ... and calls the engine, whose lock it waits for.                      *)
CallTimeout(p) ==
  /\ eng[p].due /\ eng[p].started # "switching"
  /\ TimerEvent(p, [eng[p] EXCEPT !.due = FALSE])

-----------------------------------------------------------------------------
(* A packet is lost, or comes when no handler has a use for it.            *)
Lose(m) == m \in net /\ net' = net \ {m} /\ UNCHANGED <<conf, eng, departures>>

(* Packets that take the engine a state further, and packets whose answer  *)
(* the peer did not get.                                                   *)
Advance(p) ==
  \/ DetectHelloAck(p) \/ DetectLowerHello(p) \/ DetectHello(p) \/ AckDetectedHello(p)
  \/ AckSentHelloAck(p) \/ ReceiveCommit(p) \/ CommitClash(p)
  \/ ReceiveDHPart1(p) \/ ReceiveDHPart2(p)
  \/ ReceiveConfirm1(p) \/ ReceiveConfirm2(p) \/ ReceiveConf2Ack(p)
  \/ ReceiveError(p) \/ ReceiveErrorAck(p)

Repeat(p) ==
  \/ AckSentHello(p) \/ WaitCommitHello(p)
  \/ RepeatedCommit(p) \/ RepeatedDHPart2(p) \/ RepeatedConfirm2(p)

(* The end of a call that has sent its packet.                             *)
Switch(p) == SwitchReceiver(p) \/ SwitchBoth(p)

Next ==
  \/ \E p \in Devices :
       \/ Start(p) \/ Stop(p)
       \/ Advance(p) \/ Repeat(p) \/ DetectHigherHello(p) \/ CommitKept(p) \/ ReceiveMedia(p)
       \/ Switch(p)
       \/ Timeout(p) \/ DropRequest(p) \/ TakeRequest(p) \/ CallTimeout(p)
  \/ \E m \in net : Lose(m)

Spec == Init /\ [][Next]_vars

(* A packet that is sent again and again arrives; timers expire; a request *)
(* taken off the list is called; a call that has begun goes on to its end. *)
FairSpec ==
  /\ Spec
  /\ \A p \in Devices :
       SF_vars(Advance(p)) /\ SF_vars(Repeat(p))
       /\ WF_vars(Switch(p)) /\ WF_vars(Timeout(p) \/ CallTimeout(p))

-----------------------------------------------------------------------------
(* Properties.                                                             *)

(* When one device sends SRTP and the other one receives it, both use the  *)
(* keys of the same Commit: one is the initiator, the other the responder, *)
(* whatever was lost, repeated or crossed.                                 *)
KeysAgree ==
  \A p \in Devices :
    eng[p].send # 0 /\ eng[Other(p)].recv # 0 => eng[p].send = eng[Other(p)].recv

(* A device sends SRTP only when the other one is ready to receive it, or  *)
(* is inside the call that makes it ready, whose thread takes the media up *)
(* next, or has been stopped or given up meanwhile.                        *)
SenderHeard ==
  \A p \in Devices : eng[p].send # 0 =>
    \/ eng[Other(p)].recv # 0 \/ eng[Other(p)].started = "switching"
    \/ eng[Other(p)].started = "stopped" \/ eng[Other(p)].failed # ""

Compatible == \E v \in {1, 2} : \A p \in Devices : v \in conf.versions[p]

(* A negotiation fails because the devices have no version in common,      *)
(* because the retries are used up, or because a timer was called after    *)
(* its cancellation, and for no other reason.                              *)
FailureExplained ==
  \A p \in Devices : eng[p].failed # "" =>
    \/ eng[p].failed \in {"error", "peer"} /\ ~Compatible
    \/ eng[p].failed = "retries" /\ departures["exhausted"] > 0
    \/ eng[p].failed = "protocol" /\ departures["stray"] > 0

Settled(p) == eng[p].state \in {"Initial", "SecureState"}

(* Until both devices have settled one of them resends, unless it has      *)
(* given up: they never wait for each other.  (An engine inside a call     *)
(* does not wait.)                                                         *)
SomeoneResends ==
  (\A p \in Devices : eng[p].started = "yes" /\ ~eng[p].notSupp /\ eng[p].failed # "retries")
    => \/ departures["dropped"] > 0
       \/ \A p \in Devices : Settled(p)
       \/ \E p \in Devices : eng[p].armed > 0 \/ eng[p].due

Agreed ==
  IF Compatible THEN \A p \in Devices : eng[p].state = "SecureState"
  ELSE \A p \in Devices : eng[p].state = "Initial"

(* Two started devices reach the secure state, or both learn that they     *)
(* have no version in common, though any number of packets is lost, unless *)
(* the application stops a stream or a timer gives up, is lost or strays   *)
(* into a state that has no use for it.                                    *)
Agreement ==
  (\A p \in Devices : eng[p].started = "yes")
    ~> \/ Agreed
       \/ \E k \in Kinds \ {"stray"} : departures[k] > 0
       \/ \E p \in Devices : eng[p].failed = "protocol"
=============================================================================
