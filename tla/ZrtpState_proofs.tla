-------------------------- MODULE ZrtpState_proofs --------------------------
(***************************************************************************)
(* Types, that both devices use the same keys, that a sender is heard, why *)
(* a negotiation fails, and that the devices never wait for each other,    *)
(* for any configuration and any number of lost or repeated packets and of *)
(* departures.                                                             *)
(***************************************************************************)
EXTENDS ZrtpState, TLAPS

-----------------------------------------------------------------------------
(* What the operators on engines return.                                   *)

LEMMA Two ==
  ASSUME NEW p \in Devices
  PROVE  Other(p) \in Devices /\ Other(p) # p /\ Other(Other(p)) = p
         /\ \A q \in Devices : q = p \/ q = Other(p)
  BY DEF Devices, Other

LEMMA KeyOwner ==
  ASSUME NEW p \in Devices, NEW key \in 0 .. 2, key # 0
  PROVE  key \in {p, Other(p)} /\ p # 0 /\ Other(p) # 0
<1>1. key \in Devices /\ 0 \notin Devices
  BY DEF Devices
<1> QED BY <1>1, Two

LEMMA ToType ==
  ASSUME NEW p \in Devices, NEW type \in Types, NEW info \in 0 .. 2
  PROVE  To(p, type, info) \in Packet /\ To(p, type, info).to = Other(p)
         /\ To(p, type, info).type = type /\ To(p, type, info).info = info
  BY Two DEF To, Packet

LEMMA GotoFields ==
  ASSUME NEW e \in Engine, NEW state \in States, NEW packet \in Packet \union {NoPacket}
  PROVE  LET g == Goto(e, state, packet)
         IN /\ g \in Engine /\ g.state = state /\ g.sentPacket = packet
            /\ g.started = e.started /\ g.version = e.version /\ g.armed = e.armed
            /\ g.due = e.due /\ g.key = e.key /\ g.recv = e.recv /\ g.send = e.send
            /\ g.failed = e.failed /\ g.notSupp = e.notSupp
  BY DEF Goto, Engine

LEMMA CancelFields ==
  ASSUME NEW e \in Engine
  PROVE  LET g == CancelTimer(e)
         IN /\ g \in Engine /\ g.armed = 0
            /\ g.state = e.state /\ g.sentPacket = e.sentPacket
            /\ g.started = e.started /\ g.version = e.version
            /\ g.due = e.due /\ g.key = e.key /\ g.recv = e.recv /\ g.send = e.send
            /\ g.failed = e.failed /\ g.notSupp = e.notSupp
  BY DEF CancelTimer, Engine

LEMMA StartFields ==
  ASSUME NEW e \in Engine
  PROVE  LET g == StartTimer(e)
         IN /\ g \in Engine /\ g.armed = e.armed + 1
            /\ g.state = e.state /\ g.sentPacket = e.sentPacket
            /\ g.started = e.started /\ g.version = e.version
            /\ g.due = e.due /\ g.key = e.key /\ g.recv = e.recv /\ g.send = e.send
            /\ g.failed = e.failed /\ g.notSupp = e.notSupp
<1> DEFINE n == e.armed + 1
<1>1. e.armed \in Nat
  BY DEF Engine
<1>2. n \in Nat
  BY <1>1
<1>3. StartTimer(e) = [e EXCEPT !.armed = n]
  BY DEF StartTimer
<1> HIDE DEF n
<1>4. LET g == [e EXCEPT !.armed = n] IN g \in Engine /\ g.armed = n
  BY <1>2 DEF Engine
<1>5. StartTimer(e).armed = e.armed + 1
  BY <1>3, <1>4 DEF n
<1> QED BY <1>3, <1>4, <1>5 DEF Engine

LEMMA FailedFields ==
  ASSUME NEW e \in Engine, NEW reason \in {"peer", "error", "retries", "protocol"}
  PROVE  LET g == Failed(e, reason)
         IN /\ g \in Engine /\ g.state = "Initial" /\ g.sentPacket = NoPacket
            /\ g.failed = reason
            /\ g.started = e.started /\ g.version = e.version /\ g.armed = e.armed
            /\ g.due = e.due /\ g.key = e.key /\ g.recv = e.recv /\ g.send = e.send
            /\ g.notSupp = e.notSupp
<1> DEFINE h == Goto(e, "Initial", NoPacket)
<1>1. /\ h \in Engine /\ h.state = "Initial" /\ h.sentPacket = NoPacket
      /\ h.started = e.started /\ h.version = e.version /\ h.armed = e.armed
      /\ h.due = e.due /\ h.key = e.key /\ h.recv = e.recv /\ h.send = e.send
      /\ h.notSupp = e.notSupp
  BY GotoFields DEF States
<1> HIDE DEF h
<1>2. Failed(e, reason) = [h EXCEPT !.failed = reason]
  BY DEF Failed, h
<1> DEFINE g == [h EXCEPT !.failed = reason]
<1>3. g \in Engine
  BY <1>1 DEF Engine
<1>4. /\ g.state = h.state /\ g.sentPacket = h.sentPacket /\ g.failed = reason
      /\ g.started = h.started /\ g.version = h.version /\ g.armed = h.armed
      /\ g.due = h.due /\ g.key = h.key /\ g.recv = h.recv /\ g.send = h.send
      /\ g.notSupp = h.notSupp
  BY <1>1 DEF Engine
<1> HIDE DEF g
<1>5. Failed(e, reason) = g
  BY <1>2 DEF g
<1> QED BY <1>1, <1>3, <1>4, <1>5

-----------------------------------------------------------------------------
(* The invariant.  An engine is gone when it was stopped or has failed.    *)

GoneEngine(e) == e.started = "stopped" \/ e.failed # ""

(* The initiator is ready from its Confirm2 on, the responder from its     *)
(* Conf2Ack on, or will be at the end of the call that has sent it.        *)
InitiatorReady(p, e) ==
  \/ GoneEngine(e)
  \/ e.state \in {"WaitConfAck", "SecureState"} /\ e.recv = p
  \/ e.state = "WaitConfAck" /\ e.started = "switching"
ResponderReady(p, e) ==
  \/ GoneEngine(e)
  \/ e.state = "SecureState" /\ e.recv = Other(p)
  \/ e.state = "WaitConfirm2" /\ e.started = "switching"

(* What a packet of device p with engine e says about it.                  *)
SentBy(p, e, m) ==
  /\ m.to = Other(p)
  /\ m.type = "Confirm2" => m.info = p /\ InitiatorReady(p, e)
  /\ m.type = "Conf2Ack" => ResponderReady(p, e)

(* The keys in each state.                                                 *)
KeysOf(p, e) ==
  /\ e.state = "WaitConfirm2" => e.key = Other(p)
  /\ e.state = "WaitConfAck" =>
       e.key = p /\ e.send = 0 /\ e.recv = IF e.started = "switching" THEN 0 ELSE p
  /\ e.state = "SecureState" => e.key # 0 /\ e.recv = e.key /\ e.send = e.key
  /\ e.state \notin {"WaitConfAck", "SecureState"} => e.recv = 0 /\ e.send = 0

Repeating == Resending \union {"WaitCommit", "WaitDHPart2", "WaitConfirm2"}

EngineInv(p, e) ==
  /\ e.sentPacket = NoPacket \/ SentBy(p, e, e.sentPacket)
  /\ e.state \in Repeating => e.sentPacket \in Packet
  /\ e.started = "no" => e.state = "Initial" /\ e.failed = ""
  /\ e.started = "switching" => e.state \in {"WaitConfAck", "WaitConfirm2"}
  /\ GoneEngine(e) => e.state \in {"Initial", "WaitErrorAck"}
  /\ KeysOf(p, e)

(* Who sends SRTP, or is about to, has a peer who is ready.                *)
PeerReady(p, e, f) ==
  /\ e.send = p => ResponderReady(Other(p), f)
  /\ \/ e.send = Other(p)
     \/ e.state = "WaitConfirm2" /\ e.started = "switching"
     => InitiatorReady(Other(p), f)

KInv ==
  \A p \in Devices :
    /\ EngineInv(p, eng[p])
    /\ PeerReady(p, eng[p], eng[Other(p)])
    /\ \A m \in net : m.to = Other(p) => SentBy(p, eng[p], m)

(* A device that is ready stays so, or is gone.                            *)
StaysReady(p, e, f) ==
  /\ GoneEngine(e) => GoneEngine(f)
  /\ InitiatorReady(p, e) => InitiatorReady(p, f)
  /\ ResponderReady(p, e) => ResponderReady(p, f)

(* A step of one engine.                                                   *)
LEMMA StepKeeps ==
  ASSUME TypeOK, KInv, NEW p \in Devices, NEW f \in Engine,
         eng' = [eng EXCEPT ![p] = f],
         EngineInv(p, f), StaysReady(p, eng[p], f), PeerReady(p, f, eng[Other(p)]),
         \A m \in net' : m \in net \/ SentBy(p, f, m)
  PROVE  KInv'
<1>1. eng'[p] = f /\ eng'[Other(p)] = eng[Other(p)] /\ eng[p] \in Engine
  BY Two DEF TypeOK
<1>2. /\ EngineInv(p, eng'[p]) /\ PeerReady(p, eng'[p], eng'[Other(p)])
      /\ \A m \in net' : m.to = Other(p) => SentBy(p, eng'[p], m)
  <2>1. ASSUME NEW m \in net, m.to = Other(p) PROVE SentBy(p, f, m)
    <3>1. SentBy(p, eng[p], m)
      BY <2>1 DEF KInv
    <3> QED BY <3>1 DEF SentBy, StaysReady
  <2> QED BY <1>1, <2>1
<1>3. LET q == Other(p)
      IN /\ EngineInv(q, eng'[q]) /\ PeerReady(q, eng'[q], eng'[p])
         /\ \A m \in net' : m.to = p => SentBy(q, eng'[q], m)
  <2> DEFINE q == Other(p)
  <2>1. q \in Devices /\ q # p /\ Other(q) = p
    BY Two
  <2>2. EngineInv(q, eng[q]) /\ PeerReady(q, eng[q], eng[p])
        /\ \A m \in net : m.to = p => SentBy(q, eng[q], m)
    BY <2>1 DEF KInv
  <2>3. PeerReady(q, eng[q], f)
    BY <2>1, <2>2 DEF PeerReady, StaysReady
  <2>4. \A m \in net' : m.to = p => SentBy(q, eng[q], m)
    BY <2>1, <2>2 DEF SentBy
  <2> QED BY <1>1, <2>2, <2>3, <2>4
<1> QED BY <1>2, <1>3, Two DEF KInv

-----------------------------------------------------------------------------
(* Steps of one kind.                                                      *)

(* Packets that say nothing about the one who sends them.                  *)
Plain(p) == {m \in Packet : m.to = Other(p) /\ m.type \notin {"Confirm2", "Conf2Ack"}}

Late == {"WaitConfAck", "SecureState"}

LEMMA PlainPackets ==
  ASSUME NEW p \in Devices, NEW type \in Types \ {"Confirm2", "Conf2Ack"}, NEW info \in 0 .. 2
  PROVE  To(p, type, info) \in Plain(p)
  BY ToType DEF Plain

LEMMA NoPacketType == NoPacket \notin Packet /\ NoPacket.type = "none"
  BY DEF NoPacket, Packet, Types

(* Before the keys are confirmed.                                          *)
LEMMA EarlyStep ==
  ASSUME TypeOK, KInv, NEW p \in Devices, NEW f \in Engine,
         eng' = [eng EXCEPT ![p] = f], net' \subseteq net \union {eng[p].sentPacket} \union Plain(p),
         eng[p].sentPacket \in Packet \/ net' \subseteq net \union Plain(p),
         eng[p].state \notin Late, f.state \notin Late,
         f.recv = eng[p].recv, f.send = eng[p].send,
         f.started \notin {"no", "switching"}, eng[p].started # "switching",
         GoneEngine(eng[p]) => GoneEngine(f),
         GoneEngine(f) => f.state \in {"Initial", "WaitErrorAck"},
         f.state = "WaitConfirm2" => f.key = Other(p),
         f.sentPacket \in {NoPacket, eng[p].sentPacket} \union Plain(p),
         f.state \in Repeating => f.sentPacket # NoPacket
  PROVE  KInv'
<1>1. EngineInv(p, eng[p]) /\ eng[p] \in Engine
  BY DEF KInv, TypeOK
<1>2. f.recv = 0 /\ f.send = 0
  BY <1>1 DEF EngineInv, KeysOf, Late
<1>3. StaysReady(p, eng[p], f)
  BY <1>1 DEF StaysReady, InitiatorReady, ResponderReady, Late
<1>4. \A m : (m \in Plain(p) => SentBy(p, f, m)) /\ (SentBy(p, eng[p], m) => SentBy(p, f, m))
  BY <1>3 DEF SentBy, StaysReady, Plain
<1>5. EngineInv(p, f)
  BY <1>1, <1>2, <1>4 DEF EngineInv, KeysOf, Late, Engine, Plain
<1>6. PeerReady(p, f, eng[Other(p)])
  BY <1>2, Two DEF PeerReady, Devices, Other
<1>7. \A m \in net' : m \in net \/ SentBy(p, f, m)
  BY <1>1, <1>4, NoPacketType DEF EngineInv
<1> QED BY <1>3, <1>5, <1>6, <1>7, StepKeeps

(* Nothing changes but the timer.                                          *)
LEMMA SameStep ==
  ASSUME TypeOK, KInv, NEW p \in Devices, NEW f \in Engine,
         eng' = [eng EXCEPT ![p] = f], net' \subseteq net \union {eng[p].sentPacket} \union Plain(p),
         eng[p].sentPacket \in Packet \/ net' \subseteq net \union Plain(p),
         f.state = eng[p].state, f.sentPacket = eng[p].sentPacket,
         f.started = eng[p].started, f.failed = eng[p].failed,
         f.key = eng[p].key, f.recv = eng[p].recv, f.send = eng[p].send
  PROVE  KInv'
<1>1. EngineInv(p, eng[p]) /\ PeerReady(p, eng[p], eng[Other(p)])
  BY DEF KInv
<1>2. StaysReady(p, eng[p], f)
  BY DEF StaysReady, InitiatorReady, ResponderReady, GoneEngine
<1>3. \A m : (m \in Plain(p) => SentBy(p, f, m)) /\ (SentBy(p, eng[p], m) => SentBy(p, f, m))
  BY <1>2 DEF SentBy, StaysReady, Plain
<1>4. EngineInv(p, f) /\ PeerReady(p, f, eng[Other(p)])
  BY <1>1, <1>3 DEF EngineInv, KeysOf, GoneEngine, PeerReady
<1>5. \A m \in net' : m \in net \/ SentBy(p, f, m)
  BY <1>1, <1>3, NoPacketType DEF EngineInv
<1> QED BY <1>2, <1>4, <1>5, StepKeeps

(* An engine that is stopped or fails uses no keys.                        *)
LEMMA LeaveStep ==
  ASSUME TypeOK, KInv, NEW p \in Devices, NEW f \in Engine,
         eng' = [eng EXCEPT ![p] = f], net' \subseteq net \union {eng[p].sentPacket} \union Plain(p),
         eng[p].sentPacket \in Packet \/ net' \subseteq net \union Plain(p),
         f.state = "Initial", f.sentPacket = NoPacket,
         f.started \notin {"no", "switching"}, GoneEngine(f),
         f.recv = 0, f.send = 0
  PROVE  KInv'
<1>1. StaysReady(p, eng[p], f)
  BY DEF StaysReady, InitiatorReady, ResponderReady
<1>2. EngineInv(p, f)
  BY DEF EngineInv, KeysOf, Repeating, Resending
<1>3. PeerReady(p, f, eng[Other(p)])
  BY DEF PeerReady, Devices, Other
<1>4. \A m : (m \in Plain(p) => SentBy(p, f, m)) /\ (SentBy(p, eng[p], m) => SentBy(p, f, m))
  BY <1>1 DEF SentBy, StaysReady, Plain
<1>5. EngineInv(p, eng[p])
  BY DEF KInv
<1>6. \A m \in net' : m \in net \/ SentBy(p, f, m)
  BY <1>4, <1>5, NoPacketType DEF EngineInv
<1> QED BY <1>1, <1>2, <1>3, <1>6, StepKeeps

-----------------------------------------------------------------------------
(* The negotiation.                                                        *)

(* A version of the device; when it is a lower one of hers, the peer has   *)
(* asked for it.                                                           *)
Offered(p, v) ==
  v \in conf.versions[p] /\ (v = 1 /\ 2 \in conf.versions[p] => 1 \in conf.versions[Other(p)])

(* What a packet of device p says about the negotiation.                   *)
Said(p, m) ==
  /\ m.type = "Hello" => Offered(p, m.info)
  /\ m.type = "Confirm1" => m.info = Other(p)
  /\ m.type = "Error" => ~Compatible

(* FailureExplained of one engine, with departures d.                      *)
Explained(e, d) ==
  e.failed # "" =>
    \/ e.failed \in {"error", "peer"} /\ ~Compatible
    \/ e.failed = "retries" /\ d["exhausted"] > 0
    \/ e.failed = "protocol" /\ d["stray"] > 0

(* While no timer strays there is at most one, in the states that resend.  *)
Timely(e, d) ==
  d["stray"] = 0 => ~e.due /\ e.armed <= 1 /\ (e.state \notin Resending => e.armed = 0)

NegotiationOf(p, e, d) ==
  /\ Offered(p, e.version)
  /\ e.sentPacket = NoPacket \/ Said(p, e.sentPacket)
  /\ e.state = "WaitErrorAck" => ~Compatible
  /\ Explained(e, d) /\ Timely(e, d)

NInv ==
  /\ \A p \in Devices : NegotiationOf(p, eng[p], departures)
  /\ \A m \in net : Said(Other(m.to), m)

Inv == TypeOK /\ KInv /\ NInv

LEMMA NegotiationKeeps ==
  ASSUME Inv, NEW p \in Devices, NEW f \in Engine, NEW packets,
         eng' = [eng EXCEPT ![p] = f], conf' = conf,
         departures' \in [Kinds -> Nat], \A k \in Kinds : departures'[k] >= departures[k],
         net' \subseteq net \union packets,
         \A m \in packets : m \in Packet /\ m.to = Other(p) /\ Said(p, m),
         NegotiationOf(p, f, departures')
  PROVE  TypeOK' /\ NInv'
<1>1. eng'[p] = f /\ eng'[Other(p)] = eng[Other(p)] /\ eng' \in [Devices -> Engine]
  BY Two DEF TypeOK, Inv
<1>2. TypeOK'
  BY <1>1 DEF TypeOK, Inv
<1>3. Compatible' = Compatible
  BY DEF Compatible
<1>4. \A q, v : Offered(q, v)' = Offered(q, v)
  BY DEF Offered
<1>5. \A q, m : Said(q, m)' = Said(q, m)
  BY <1>3, <1>4 DEF Said
<1>6. \A q \in Devices : NegotiationOf(q, eng'[q], departures')
                         => NegotiationOf(q, eng[q], departures)'
  BY <1>3, <1>4, <1>5 DEF NegotiationOf, Explained, Timely
<1>7. NegotiationOf(Other(p), eng[Other(p)], departures')
  <2>1. NegotiationOf(Other(p), eng[Other(p)], departures)
    BY Two DEF Inv, NInv
  <2>2. departures \in [Kinds -> Nat] /\ {"stray", "exhausted"} \subseteq Kinds
    BY DEF Inv, TypeOK, Kinds
  <2>3. departures'["stray"] >= departures["stray"] /\ departures'["exhausted"] >= departures["exhausted"]
        /\ departures'["stray"] \in Nat /\ departures'["exhausted"] \in Nat
        /\ departures["stray"] \in Nat /\ departures["exhausted"] \in Nat
    BY <2>2
  <2>4. /\ departures["exhausted"] > 0 => departures'["exhausted"] > 0
        /\ departures["stray"] > 0 => departures'["stray"] > 0
        /\ departures'["stray"] = 0 => departures["stray"] = 0
    BY <2>3
  <2> QED BY <2>1, <2>4 DEF NegotiationOf, Explained, Timely
<1>8. \A m \in net' : Said(Other(m.to), m)
  <2>1. \A m \in packets : Other(m.to) = p
    BY Two
  <2> QED BY <2>1 DEF Inv, NInv
<1>9. \A q \in Devices : NegotiationOf(q, eng'[q], departures')
  BY <1>1, <1>7, Two
<1> QED BY <1>2, <1>5, <1>6, <1>8, <1>9 DEF NInv

(* A packet that takes the engine further before the keys are confirmed.   *)
Advances(p, f, packets) ==
  /\ Step(p, f, packets)
  /\ packets \subseteq Plain(p) /\ \A m \in packets : Said(p, m)
  /\ eng[p].state \notin Late /\ f.state \notin Late \union {"WaitErrorAck"}
  /\ f.started = "yes" /\ f.failed = eng[p].failed /\ f.due = eng[p].due
  /\ f.recv = eng[p].recv /\ f.send = eng[p].send
  /\ GoneEngine(eng[p]) => f.state = "Initial"
  /\ f.state = "WaitConfirm2" => f.key = Other(p)
  /\ f.sentPacket \in {NoPacket, eng[p].sentPacket} \union packets
  /\ f.state \in Repeating => f.sentPacket # NoPacket
  /\ Offered(p, f.version)
  /\ \/ f.armed = 0
     \/ f.armed = 1 /\ f.state \in Resending
     \/ f.armed = eng[p].armed /\ eng[p].state \notin Resending
     \/ Timely(f, departures)

LEMMA AdvanceKeeps ==
  ASSUME Inv, NEW p \in Devices, NEW f \in Engine, NEW packets, Advances(p, f, packets),
         eng[p].started \in {"no", "yes"}
  PROVE  Inv'
<1>1. /\ eng' = [eng EXCEPT ![p] = f] /\ net' = net \union packets
      /\ conf' = conf /\ departures' = departures
  BY DEF Advances, Step
<1>2. TypeOK /\ KInv /\ departures \in [Kinds -> Nat] /\ NegotiationOf(p, eng[p], departures)
  BY DEF Inv, NInv, TypeOK
<1>3. KInv'
  <2>1. GoneEngine(eng[p]) => GoneEngine(f)
    BY DEF Advances, GoneEngine
  <2>2. GoneEngine(f) => f.state = "Initial"
    BY DEF Advances, GoneEngine
  <2> QED BY <1>1, <1>2, <2>1, <2>2, EarlyStep DEF Advances
<1>4. NegotiationOf(p, f, departures)
  <2>1. f.sentPacket = NoPacket \/ Said(p, f.sentPacket)
    BY <1>2 DEF Advances, NegotiationOf
  <2>2. Explained(f, departures)
    BY <1>2 DEF Advances, NegotiationOf, Explained
  <2>3. Timely(f, departures)
    BY <1>2 DEF Advances, NegotiationOf, Timely
  <2> QED BY <2>1, <2>2, <2>3 DEF Advances, NegotiationOf
<1>5. \A m \in packets : m \in Packet /\ m.to = Other(p) /\ Said(p, m)
  BY DEF Advances, Plain
<1>6. \A k \in Kinds : departures'[k] >= departures[k]
  BY <1>1, <1>2
<1>7. TypeOK' /\ NInv'
  BY <1>1, <1>2, <1>4, <1>5, <1>6, NegotiationKeeps
<1> QED BY <1>3, <1>7 DEF Inv

(* A packet is sent again, or the timer is set.                            *)
LEMMA RepeatKeeps ==
  ASSUME Inv, NEW p \in Devices, NEW f \in Engine, NEW packets, Step(p, f, packets),
         \A m \in packets : Said(p, m),
         packets \subseteq Plain(p) \/ (packets = {eng[p].sentPacket} /\ eng[p].sentPacket \in Packet),
         f.state = eng[p].state, f.sentPacket = eng[p].sentPacket,
         f.started = eng[p].started, f.failed = eng[p].failed, f.version = eng[p].version,
         f.key = eng[p].key, f.recv = eng[p].recv, f.send = eng[p].send,
         Timely(f, departures)
  PROVE  Inv'
<1>1. /\ eng' = [eng EXCEPT ![p] = f] /\ net' = net \union packets
      /\ conf' = conf /\ departures' = departures
  BY DEF Step
<1>2. /\ TypeOK /\ KInv /\ departures \in [Kinds -> Nat]
      /\ EngineInv(p, eng[p]) /\ NegotiationOf(p, eng[p], departures)
  BY DEF Inv, NInv, KInv, TypeOK
<1>3. KInv'
  BY <1>1, <1>2, SameStep
<1>4. NegotiationOf(p, f, departures)
  BY <1>2 DEF NegotiationOf, Explained
<1>5. \A m \in packets : m \in Packet /\ m.to = Other(p) /\ Said(p, m)
  BY <1>2, NoPacketType DEF Plain, EngineInv, SentBy
<1>6. \A k \in Kinds : departures'[k] >= departures[k]
  BY <1>1, <1>2
<1>7. TypeOK' /\ NInv'
  BY <1>1, <1>2, <1>4, <1>5, <1>6, NegotiationKeeps
<1> QED BY <1>3, <1>7 DEF Inv

-----------------------------------------------------------------------------
(* The actions, one by one.                                                *)

LEMMA ResetFields ==
  ASSUME NEW e \in Engine, NEW state \in States, NEW packet \in Packet \union {NoPacket}
  PROVE  LET g == Goto(CancelTimer(e), state, packet)
             h == StartTimer(g)
         IN /\ g \in Engine /\ g.armed = 0 /\ g.state = state /\ g.sentPacket = packet
            /\ g.started = e.started /\ g.version = e.version /\ g.due = e.due
            /\ g.key = e.key /\ g.recv = e.recv /\ g.send = e.send /\ g.failed = e.failed
            /\ g.notSupp = e.notSupp
            /\ h \in Engine /\ h.armed = 1 /\ h.state = state /\ h.sentPacket = packet
            /\ h.started = e.started /\ h.version = e.version /\ h.due = e.due
            /\ h.key = e.key /\ h.recv = e.recv /\ h.send = e.send /\ h.failed = e.failed
            /\ h.notSupp = e.notSupp
<1> DEFINE c == CancelTimer(e)
           g == Goto(c, state, packet)
           h == StartTimer(g)
<1>1. /\ c \in Engine /\ c.armed = 0
      /\ c.started = e.started /\ c.version = e.version /\ c.due = e.due
      /\ c.key = e.key /\ c.recv = e.recv /\ c.send = e.send /\ c.failed = e.failed
      /\ c.notSupp = e.notSupp
  BY CancelFields
<1> HIDE DEF c
<1>2. /\ g \in Engine /\ g.armed = 0 /\ g.state = state /\ g.sentPacket = packet
      /\ g.started = e.started /\ g.version = e.version /\ g.due = e.due
      /\ g.key = e.key /\ g.recv = e.recv /\ g.send = e.send /\ g.failed = e.failed
      /\ g.notSupp = e.notSupp
  BY <1>1, GotoFields
<1> HIDE DEF g
<1>3. /\ h \in Engine /\ h.armed = 1 /\ h.state = state /\ h.sentPacket = packet
      /\ h.started = e.started /\ h.version = e.version /\ h.due = e.due
      /\ h.key = e.key /\ h.recv = e.recv /\ h.send = e.send /\ h.failed = e.failed
      /\ h.notSupp = e.notSupp
  <2>1. h.armed = g.armed + 1
    BY <1>2, StartFields
  <2>2. h.armed = 1
    BY <2>1, <1>2
  <2> QED BY <1>2, <2>2, StartFields
<1> QED BY <1>2, <1>3 DEF g, h, c

(* The engine and the packets that p may get.                              *)
LEMMA Have ==
  ASSUME Inv, NEW p \in Devices
  PROVE  /\ eng[p] \in Engine /\ EngineInv(p, eng[p])
         /\ NegotiationOf(p, eng[p], departures)
         /\ \A type : \A m \in Got(p, type) :
              /\ m \in net /\ m \in Packet /\ m.to = p /\ m.type = type
              /\ SentBy(Other(p), eng[Other(p)], m) /\ Said(Other(p), m)
<1>1. \A m \in net : m.to = p => SentBy(Other(p), eng[Other(p)], m)
  BY Two DEF Inv, KInv
<1> QED BY <1>1 DEF Inv, TypeOK, KInv, NInv, Got

(* A device that takes part is not gone.                                   *)
LEMMA Present ==
  ASSUME Inv, NEW p \in Devices,
         eng[p].started # "no", eng[p].state \notin {"Initial", "WaitErrorAck"}
  PROVE  ~GoneEngine(eng[p]) /\ eng[p].failed = ""
  BY Have DEF EngineInv, GoneEngine

LEMMA Answers ==
  ASSUME NEW p \in Devices, NEW type \in {"HelloAck", "Commit", "DHPart1", "DHPart2", "ErrorAck"}
  PROVE  To(p, type, 0) \in Plain(p) /\ To(p, type, 0) \in Packet /\ To(p, type, 0) # NoPacket
         /\ Said(p, To(p, type, 0))
  BY PlainPackets, ToType, NoPacketType DEF Said, Types

LEMMA Hello ==
  ASSUME NEW p \in Devices, NEW v \in {1, 2}, Offered(p, v)
  PROVE  To(p, "Hello", v) \in Plain(p) /\ To(p, "Hello", v) \in Packet
         /\ To(p, "Hello", v) # NoPacket /\ Said(p, To(p, "Hello", v))
         /\ To(p, "Hello", v).info = v
  BY PlainPackets, ToType, NoPacketType DEF Said, Types

LEMMA Start_Inv ==
  ASSUME Inv, NEW p \in Devices, Start(p)
  PROVE  Inv'
<1> DEFINE e == [eng[p] EXCEPT !.started = "yes"]
           g == Goto(e, "Detect", HelloOf(p))
           f == StartTimer(g)
<1>1. /\ eng[p] \in Engine /\ EngineInv(p, eng[p]) /\ NegotiationOf(p, eng[p], departures)
      /\ eng[p].started = "no" /\ Step(p, f, {HelloOf(p)})
  BY Have DEF Start
<1>2. /\ e \in Engine /\ e.started = "yes" /\ e.state = "Initial" /\ e.failed = ""
      /\ e.version = eng[p].version /\ e.armed = eng[p].armed /\ e.due = eng[p].due
      /\ e.recv = eng[p].recv /\ e.send = eng[p].send
  BY <1>1 DEF Engine, EngineInv
<1>3. /\ HelloOf(p) \in Plain(p) /\ HelloOf(p) \in Packet /\ HelloOf(p) # NoPacket
      /\ Said(p, HelloOf(p))
  BY <1>1, Hello DEF HelloOf, NegotiationOf, Engine
<1> HIDE DEF e
<1>4. "Detect" \in States /\ HelloOf(p) \in Packet \union {NoPacket} /\ e \in Engine
  BY <1>2, <1>3 DEF States
<1>5. /\ g \in Engine /\ g.started = e.started /\ g.state = "Detect" /\ g.failed = e.failed
      /\ g.sentPacket = HelloOf(p)
      /\ g.version = e.version /\ g.armed = e.armed /\ g.due = e.due
      /\ g.recv = e.recv /\ g.send = e.send
  BY <1>4, GotoFields
<1> HIDE DEF g
<1>6. /\ f \in Engine /\ f.started = g.started /\ f.state = g.state /\ f.failed = g.failed
      /\ f.sentPacket = g.sentPacket /\ f.armed = g.armed + 1
      /\ f.version = g.version /\ f.due = g.due /\ f.recv = g.recv /\ f.send = g.send
  BY <1>5, StartFields
<1> HIDE DEF f
<1>7. /\ f.started = "yes" /\ f.state = "Detect" /\ f.failed = ""
      /\ f.sentPacket = HelloOf(p) /\ f.version = eng[p].version /\ f.due = eng[p].due
      /\ f.recv = eng[p].recv /\ f.send = eng[p].send
  BY <1>2, <1>5, <1>6
<1>8. Timely(f, departures)
  <2>1. departures["stray"] = 0 => ~eng[p].due /\ eng[p].armed = 0
    BY <1>1 DEF NegotiationOf, Timely, EngineInv, Resending
  <2>2. f.armed = eng[p].armed + 1
    BY <1>2, <1>5, <1>6
  <2>3. departures["stray"] = 0 => f.armed = 1
    BY <2>1, <2>2
  <2>4. departures["stray"] = 0 => ~f.due
    BY <2>1, <1>7
  <2>5. f.state \in Resending
    BY <1>7 DEF Resending
  <2> QED BY <2>3, <2>4, <2>5 DEF Timely
<1>9. Advances(p, f, {HelloOf(p)})
  BY <1>1, <1>3, <1>7, <1>8 DEF Advances, Late, GoneEngine, EngineInv, NegotiationOf
<1> QED BY <1>1, <1>6, <1>9, AdvanceKeeps

LEMMA DetectHelloAck_Inv ==
  ASSUME Inv, NEW p \in Devices, DetectHelloAck(p)
  PROVE  Inv'
<1> DEFINE f == Goto(CancelTimer(eng[p]), "AckDetected", NoPacket)
<1>1. Receives(p, {"Detect"}, "HelloAck") /\ Step(p, f, {})
  BY DEF DetectHelloAck
<1>2. ~GoneEngine(eng[p]) /\ eng[p].started = "yes" /\ eng[p].state = "Detect"
  BY <1>1, Present DEF Receives
<1>3. eng[p] \in Engine /\ NegotiationOf(p, eng[p], departures)
      /\ "AckDetected" \in States /\ NoPacket \in Packet \union {NoPacket}
  BY Have DEF States
<1>4. /\ f \in Engine /\ f.armed = 0 /\ f.state = "AckDetected" /\ f.sentPacket = NoPacket
      /\ f.started = eng[p].started /\ f.version = eng[p].version /\ f.due = eng[p].due
      /\ f.recv = eng[p].recv /\ f.send = eng[p].send /\ f.failed = eng[p].failed
  BY <1>3, ResetFields
<1> HIDE DEF f
<1>5. Advances(p, f, {})
  BY <1>1, <1>2, <1>3, <1>4 DEF Advances, Late, NegotiationOf, Repeating, Resending
<1> QED BY <1>2, <1>4, <1>5, AdvanceKeeps

LEMMA RestartFields ==
  ASSUME NEW e \in Engine
  PROVE  LET f == StartTimer(CancelTimer(e))
         IN /\ f \in Engine /\ f.armed = 1 /\ f.state = e.state /\ f.sentPacket = e.sentPacket
            /\ f.started = e.started /\ f.version = e.version /\ f.due = e.due
            /\ f.key = e.key /\ f.recv = e.recv /\ f.send = e.send /\ f.failed = e.failed
            /\ f.notSupp = e.notSupp
<1> DEFINE c == CancelTimer(e)
           f == StartTimer(c)
<1>1. /\ c \in Engine /\ c.armed = 0 /\ c.state = e.state /\ c.sentPacket = e.sentPacket
      /\ c.started = e.started /\ c.version = e.version /\ c.due = e.due
      /\ c.key = e.key /\ c.recv = e.recv /\ c.send = e.send /\ c.failed = e.failed
      /\ c.notSupp = e.notSupp
  BY CancelFields
<1> HIDE DEF c
<1>2. f.armed = c.armed + 1
  BY <1>1, StartFields
<1>3. f.armed = 1
  BY <1>1, <1>2
<1> QED BY <1>1, <1>3, StartFields DEF c

LEMMA Restarts ==
  ASSUME Inv, NEW p \in Devices, eng[p].state \in Resending,
         Step(p, StartTimer(CancelTimer(eng[p])), {})
  PROVE  Inv'
<1> DEFINE f == StartTimer(CancelTimer(eng[p]))
<1>1. eng[p] \in Engine /\ NegotiationOf(p, eng[p], departures)
  BY Have
<1>2. /\ f \in Engine /\ f.armed = 1 /\ f.state = eng[p].state
      /\ f.sentPacket = eng[p].sentPacket
      /\ f.started = eng[p].started /\ f.version = eng[p].version /\ f.due = eng[p].due
      /\ f.key = eng[p].key /\ f.recv = eng[p].recv /\ f.send = eng[p].send
      /\ f.failed = eng[p].failed
  BY <1>1, RestartFields
<1>3. Step(p, f, {})
  OBVIOUS
<1> HIDE DEF f
<1>4. Timely(f, departures)
  BY <1>1, <1>2 DEF NegotiationOf, Timely
<1> QED BY <1>2, <1>3, <1>4, RepeatKeeps

LEMMA DetectHigherHello_Inv ==
  ASSUME Inv, NEW p \in Devices, DetectHigherHello(p)
  PROVE  Inv'
  BY Restarts DEF DetectHigherHello, Receives, Resending

LEMMA CommitKept_Inv ==
  ASSUME Inv, NEW p \in Devices, CommitKept(p)
  PROVE  Inv'
  BY Restarts DEF CommitKept, Receives, Resending

LEMMA DetectHello_Inv ==
  ASSUME Inv, NEW p \in Devices, DetectHello(p)
  PROVE  Inv'
<1> DEFINE r == StartTimer(CancelTimer(eng[p]))
           f == [r EXCEPT !.state = "AckSent"]
<1>1. Receives(p, {"Detect"}, "Hello") /\ Step(p, f, {HelloAck(p)})
  BY DEF DetectHello
<1>2. ~GoneEngine(eng[p]) /\ eng[p].started = "yes" /\ eng[p].state = "Detect"
  BY <1>1, Present DEF Receives
<1>3. eng[p] \in Engine /\ EngineInv(p, eng[p]) /\ NegotiationOf(p, eng[p], departures)
  BY Have
<1>4. /\ r \in Engine /\ r.armed = 1 /\ r.sentPacket = eng[p].sentPacket
      /\ r.started = eng[p].started /\ r.version = eng[p].version /\ r.due = eng[p].due
      /\ r.recv = eng[p].recv /\ r.send = eng[p].send /\ r.failed = eng[p].failed
  BY <1>3, RestartFields
<1> HIDE DEF r
<1>5. /\ f \in Engine /\ f.armed = 1 /\ f.state = "AckSent" /\ f.sentPacket = eng[p].sentPacket
      /\ f.started = eng[p].started /\ f.version = eng[p].version /\ f.due = eng[p].due
      /\ f.recv = eng[p].recv /\ f.send = eng[p].send /\ f.failed = eng[p].failed
  BY <1>4 DEF Engine, States
<1> HIDE DEF f
<1>6. HelloAck(p) \in Plain(p) /\ Said(p, HelloAck(p))
  BY Answers DEF HelloAck
<1>7. eng[p].sentPacket # NoPacket
  BY <1>2, <1>3, NoPacketType DEF EngineInv, Repeating, Resending
<1>8. Advances(p, f, {HelloAck(p)})
  BY <1>1, <1>2, <1>3, <1>5, <1>6, <1>7 DEF Advances, Late, NegotiationOf, Resending
<1> QED BY <1>2, <1>5, <1>8, AdvanceKeeps

LEMMA AckDetectedHello_Inv ==
  ASSUME Inv, NEW p \in Devices, AckDetectedHello(p)
  PROVE  Inv'
<1> DEFINE f == Goto(eng[p], "WaitCommit", HelloAck(p))
<1>1. /\ eng[p].started = "yes" /\ eng[p].state = "AckDetected"
      /\ Step(p, f, {HelloAck(p)})
  BY DEF AckDetectedHello, Receives
<1>2. ~GoneEngine(eng[p])
  BY <1>1, Present
<1>3. HelloAck(p) \in Plain(p) /\ HelloAck(p) \in Packet /\ HelloAck(p) # NoPacket
      /\ Said(p, HelloAck(p))
  BY Answers DEF HelloAck
<1>4. eng[p] \in Engine /\ NegotiationOf(p, eng[p], departures)
      /\ "WaitCommit" \in States /\ HelloAck(p) \in Packet \union {NoPacket}
  BY <1>3, Have DEF States
<1>5. /\ f \in Engine /\ f.armed = eng[p].armed /\ f.state = "WaitCommit"
      /\ f.sentPacket = HelloAck(p)
      /\ f.started = eng[p].started /\ f.version = eng[p].version /\ f.due = eng[p].due
      /\ f.recv = eng[p].recv /\ f.send = eng[p].send /\ f.failed = eng[p].failed
  BY <1>4, GotoFields
<1> HIDE DEF f
<1>6. Advances(p, f, {HelloAck(p)})
  BY <1>1, <1>2, <1>3, <1>4, <1>5 DEF Advances, Late, NegotiationOf, Resending
<1> QED BY <1>1, <1>5, <1>6, AdvanceKeeps

(* The answer is sent again.                                               *)
LEMMA Repeats ==
  ASSUME Inv, NEW p \in Devices, Step(p, eng[p], {eng[p].sentPacket}),
         eng[p].sentPacket # NoPacket
  PROVE  Inv'
<1>1. eng[p] \in Engine /\ NegotiationOf(p, eng[p], departures)
  BY Have
<1>2. eng[p].sentPacket \in Packet
  BY <1>1 DEF Engine
<1>3. Timely(eng[p], departures) /\ Said(p, eng[p].sentPacket)
  BY <1>1 DEF NegotiationOf
<1> QED BY <1>1, <1>2, <1>3, RepeatKeeps

LEMMA Remembers ==
  ASSUME Inv, NEW p \in Devices, eng[p].state \in Repeating
  PROVE  eng[p].sentPacket # NoPacket
<1>1. EngineInv(p, eng[p])
  BY Have
<1> QED BY <1>1, NoPacketType DEF EngineInv

LEMMA AckSentHello_Inv ==
  ASSUME Inv, NEW p \in Devices, AckSentHello(p)
  PROVE  Inv'
<1>1. Step(p, eng[p], {HelloAck(p)})
  BY DEF AckSentHello
<1>2. eng[p] \in Engine /\ Timely(eng[p], departures)
  BY Have DEF NegotiationOf
<1>3. HelloAck(p) \in Plain(p) /\ Said(p, HelloAck(p))
  BY Answers DEF HelloAck
<1> QED BY <1>1, <1>2, <1>3, RepeatKeeps

LEMMA WaitCommitHello_Inv ==
  ASSUME Inv, NEW p \in Devices, WaitCommitHello(p)
  PROVE  Inv'
<1>1. eng[p].state = "WaitCommit" /\ Step(p, eng[p], {eng[p].sentPacket})
  BY DEF WaitCommitHello, Receives
<1>2. eng[p].sentPacket # NoPacket
  BY <1>1, Remembers DEF Repeating
<1> QED BY <1>1, <1>2, Repeats

LEMMA RepeatedCommit_Inv ==
  ASSUME Inv, NEW p \in Devices, RepeatedCommit(p)
  PROVE  Inv'
<1>1. eng[p].state \in {"WaitConfirm2", "WaitDHPart2"} /\ Step(p, eng[p], {eng[p].sentPacket})
  BY DEF RepeatedCommit, Receives
<1>2. eng[p].sentPacket # NoPacket
  BY <1>1, Remembers DEF Repeating
<1> QED BY <1>1, <1>2, Repeats

LEMMA RepeatedDHPart2_Inv ==
  ASSUME Inv, NEW p \in Devices, RepeatedDHPart2(p)
  PROVE  Inv'
<1>1. eng[p].state = "WaitConfirm2" /\ Step(p, eng[p], {eng[p].sentPacket})
  BY DEF RepeatedDHPart2, Receives
<1>2. eng[p].sentPacket # NoPacket
  BY <1>1, Remembers DEF Repeating
<1> QED BY <1>1, <1>2, Repeats

LEMMA RepeatedConfirm2_Inv ==
  ASSUME Inv, NEW p \in Devices, RepeatedConfirm2(p)
  PROVE  Inv'
  BY Repeats DEF RepeatedConfirm2

LEMMA AckSentHelloAck_Inv ==
  ASSUME Inv, NEW p \in Devices, AckSentHelloAck(p)
  PROVE  Inv'
<1> DEFINE f == StartTimer(Goto(CancelTimer(eng[p]), "CommitSent", Commit(p)))
<1>1. /\ eng[p].started = "yes" /\ eng[p].state = "AckSent" /\ Step(p, f, {Commit(p)})
  BY DEF AckSentHelloAck, Receives
<1>2. ~GoneEngine(eng[p])
  BY <1>1, Present
<1>3. Commit(p) \in Plain(p) /\ Commit(p) \in Packet /\ Commit(p) # NoPacket
      /\ Said(p, Commit(p))
  BY Answers DEF Commit
<1>4. eng[p] \in Engine /\ NegotiationOf(p, eng[p], departures)
      /\ "CommitSent" \in States /\ Commit(p) \in Packet \union {NoPacket}
  BY <1>3, Have DEF States
<1>5. /\ f \in Engine /\ f.armed = 1 /\ f.state = "CommitSent" /\ f.sentPacket = Commit(p)
      /\ f.started = eng[p].started /\ f.version = eng[p].version /\ f.due = eng[p].due
      /\ f.recv = eng[p].recv /\ f.send = eng[p].send /\ f.failed = eng[p].failed
  BY <1>4, ResetFields
<1> HIDE DEF f
<1>6. Advances(p, f, {Commit(p)})
  BY <1>1, <1>2, <1>3, <1>4, <1>5 DEF Advances, Late, NegotiationOf, Resending
<1> QED BY <1>1, <1>5, <1>6, AdvanceKeeps

LEMMA KeyFields ==
  ASSUME NEW e \in Engine, NEW key \in 0 .. 2
  PROVE  LET g == [e EXCEPT !.key = key]
         IN /\ g \in Engine /\ g.key = key /\ g.armed = e.armed
            /\ g.state = e.state /\ g.sentPacket = e.sentPacket
            /\ g.started = e.started /\ g.version = e.version /\ g.due = e.due
            /\ g.recv = e.recv /\ g.send = e.send /\ g.failed = e.failed
            /\ g.notSupp = e.notSupp
  BY DEF Engine

LEMMA ReceiveDHPart1_Inv ==
  ASSUME Inv, NEW p \in Devices, ReceiveDHPart1(p)
  PROVE  Inv'
<1> DEFINE packet == To(p, "DHPart2", 0)
           g == Goto(CancelTimer(eng[p]), "WaitConfirm1", packet)
           k == [g EXCEPT !.key = p]
           f == StartTimer(k)
<1>1. /\ eng[p].started = "yes" /\ eng[p].state = "CommitSent" /\ Step(p, f, {packet})
  BY DEF ReceiveDHPart1, Receives
<1>2. ~GoneEngine(eng[p])
  BY <1>1, Present
<1>3. packet \in Plain(p) /\ packet \in Packet /\ packet # NoPacket /\ Said(p, packet)
  BY Answers
<1> HIDE DEF packet
<1>4. eng[p] \in Engine /\ NegotiationOf(p, eng[p], departures)
      /\ "WaitConfirm1" \in States /\ packet \in Packet \union {NoPacket} /\ p \in 0 .. 2
  BY <1>3, Have DEF States, Devices
<1>5. /\ g \in Engine /\ g.armed = 0 /\ g.state = "WaitConfirm1" /\ g.sentPacket = packet
      /\ g.started = eng[p].started /\ g.version = eng[p].version /\ g.due = eng[p].due
      /\ g.recv = eng[p].recv /\ g.send = eng[p].send /\ g.failed = eng[p].failed
  BY <1>4, ResetFields
<1> HIDE DEF g
<1>6. /\ k \in Engine /\ k.armed = 0 /\ k.state = "WaitConfirm1" /\ k.sentPacket = packet
      /\ k.started = g.started /\ k.version = g.version /\ k.due = g.due
      /\ k.recv = g.recv /\ k.send = g.send /\ k.failed = g.failed
  <2>1. g \in Engine /\ p \in 0 .. 2
    BY <1>4, <1>5
  <2>2. /\ k \in Engine /\ k.armed = g.armed /\ k.state = g.state
        /\ k.sentPacket = g.sentPacket
        /\ k.started = g.started /\ k.version = g.version /\ k.due = g.due
        /\ k.recv = g.recv /\ k.send = g.send /\ k.failed = g.failed
    BY <2>1, KeyFields
  <2> QED BY <1>5, <2>2
<1> HIDE DEF k
<1>7. /\ f \in Engine /\ f.armed = k.armed + 1 /\ f.state = k.state
      /\ f.sentPacket = k.sentPacket
      /\ f.started = k.started /\ f.version = k.version /\ f.due = k.due
      /\ f.recv = k.recv /\ f.send = k.send /\ f.failed = k.failed
  BY <1>6, StartFields
<1> HIDE DEF f
<1>8. f.armed = 1
  BY <1>6, <1>7
<1>9. Advances(p, f, {packet})
  BY <1>1, <1>2, <1>3, <1>4, <1>5, <1>6, <1>7, <1>8
     DEF Advances, Late, NegotiationOf, Resending
<1> QED BY <1>1, <1>7, <1>9, AdvanceKeeps

(* The Confirm1 of the responder.                                          *)
LEMMA FirstConfirm ==
  ASSUME NEW p \in Devices
  PROVE  LET packet == To(p, "Confirm1", Other(p))
         IN /\ packet \in Plain(p) /\ packet \in Packet /\ packet # NoPacket
            /\ Said(p, packet) /\ Other(p) \in 0 .. 2
<1>1. Other(p) \in 0 .. 2
  BY Two DEF Devices
<1> QED BY <1>1, PlainPackets, ToType, NoPacketType DEF Said, Types

LEMMA ReceiveDHPart2_Inv ==
  ASSUME Inv, NEW p \in Devices, ReceiveDHPart2(p)
  PROVE  Inv'
<1> DEFINE packet == To(p, "Confirm1", Other(p))
           g == Goto(eng[p], "WaitConfirm2", packet)
           f == [g EXCEPT !.key = Other(p)]
<1>1. /\ eng[p].started = "yes" /\ eng[p].state = "WaitDHPart2" /\ Step(p, f, {packet})
  BY DEF ReceiveDHPart2, Receives
<1>2. ~GoneEngine(eng[p])
  BY <1>1, Present
<1>3. packet \in Plain(p) /\ packet \in Packet /\ packet # NoPacket /\ Said(p, packet)
  BY FirstConfirm
<1> HIDE DEF packet
<1>4. eng[p] \in Engine /\ NegotiationOf(p, eng[p], departures)
      /\ "WaitConfirm2" \in States /\ packet \in Packet \union {NoPacket} /\ Other(p) \in 0 .. 2
  BY <1>3, Have, FirstConfirm DEF States
<1>5. /\ g \in Engine /\ g.armed = eng[p].armed /\ g.state = "WaitConfirm2"
      /\ g.sentPacket = packet
      /\ g.started = eng[p].started /\ g.version = eng[p].version /\ g.due = eng[p].due
      /\ g.recv = eng[p].recv /\ g.send = eng[p].send /\ g.failed = eng[p].failed
  BY <1>4, GotoFields
<1> HIDE DEF g
<1>6. /\ f \in Engine /\ f.armed = g.armed /\ f.state = g.state /\ f.sentPacket = g.sentPacket
      /\ f.key = Other(p)
      /\ f.started = g.started /\ f.version = g.version /\ f.due = g.due
      /\ f.recv = g.recv /\ f.send = g.send /\ f.failed = g.failed
  <2>1. g \in Engine /\ Other(p) \in 0 .. 2
    BY <1>4, <1>5
  <2> QED BY <2>1, KeyFields
<1> HIDE DEF f
<1>7. Advances(p, f, {packet})
  BY <1>1, <1>2, <1>3, <1>4, <1>5, <1>6 DEF Advances, Late, NegotiationOf, Resending
<1> QED BY <1>1, <1>5, <1>6, <1>7, AdvanceKeeps

LEMMA Respond_Inv ==
  ASSUME Inv, NEW p \in Devices, Respond(p), eng[p].started = "yes",
         eng[p].state \in {"AckSent", "WaitCommit", "CommitSent"}
  PROVE  Inv'
<1>1. ~GoneEngine(eng[p]) /\ eng[p].state \notin Late
  BY Present DEF Late
<1>2. eng[p] \in Engine /\ NegotiationOf(p, eng[p], departures)
  BY Have
<1>3. CASE conf.multi
  <2> DEFINE packet == To(p, "Confirm1", Other(p))
             g == Goto(CancelTimer(eng[p]), "WaitConfirm2", packet)
             f == [g EXCEPT !.key = Other(p)]
  <2>1. Step(p, f, {packet})
    BY <1>3, Zenon DEF Respond
  <2>2. packet \in Plain(p) /\ packet \in Packet /\ packet # NoPacket /\ Said(p, packet)
    BY FirstConfirm
  <2> HIDE DEF packet
  <2>3. "WaitConfirm2" \in States /\ packet \in Packet \union {NoPacket} /\ Other(p) \in 0 .. 2
    BY <2>2, FirstConfirm DEF States
  <2>4. /\ g \in Engine /\ g.armed = 0 /\ g.state = "WaitConfirm2" /\ g.sentPacket = packet
        /\ g.started = eng[p].started /\ g.version = eng[p].version /\ g.due = eng[p].due
        /\ g.recv = eng[p].recv /\ g.send = eng[p].send /\ g.failed = eng[p].failed
    BY <1>2, <2>3, ResetFields
  <2> HIDE DEF g
  <2>5. /\ f \in Engine /\ f.armed = g.armed /\ f.state = g.state /\ f.sentPacket = g.sentPacket
        /\ f.key = Other(p)
        /\ f.started = g.started /\ f.version = g.version /\ f.due = g.due
        /\ f.recv = g.recv /\ f.send = g.send /\ f.failed = g.failed
    BY <2>3, <2>4 DEF Engine
  <2> HIDE DEF f
  <2>6. Advances(p, f, {packet})
    BY <1>1, <1>2, <2>1, <2>2, <2>4, <2>5 DEF Advances, Late, NegotiationOf
  <2> QED BY <2>5, <2>6, AdvanceKeeps
<1>4. CASE ~conf.multi
  <2> DEFINE packet == To(p, "DHPart1", 0)
             f == Goto(CancelTimer(eng[p]), "WaitDHPart2", packet)
  <2>1. Step(p, f, {packet})
    BY <1>4, Zenon DEF Respond
  <2>2. packet \in Plain(p) /\ packet \in Packet /\ packet # NoPacket /\ Said(p, packet)
    BY Answers
  <2> HIDE DEF packet
  <2>3. "WaitDHPart2" \in States /\ packet \in Packet \union {NoPacket}
    BY <2>2 DEF States
  <2>4. /\ f \in Engine /\ f.armed = 0 /\ f.state = "WaitDHPart2" /\ f.sentPacket = packet
        /\ f.started = eng[p].started /\ f.version = eng[p].version /\ f.due = eng[p].due
        /\ f.recv = eng[p].recv /\ f.send = eng[p].send /\ f.failed = eng[p].failed
    BY <1>2, <2>3, ResetFields
  <2> HIDE DEF f
  <2>5. Advances(p, f, {packet})
    BY <1>1, <1>2, <2>1, <2>2, <2>4 DEF Advances, Late, NegotiationOf
  <2> QED BY <2>4, <2>5, AdvanceKeeps
<1> QED BY <1>3, <1>4

LEMMA ReceiveCommit_Inv ==
  ASSUME Inv, NEW p \in Devices, ReceiveCommit(p) \/ CommitClash(p)
  PROVE  Inv'
  BY Respond_Inv DEF ReceiveCommit, CommitClash, Receives

(* sendErrorPacket, when the devices have no version in common.            *)
LEMMA SendError_Inv ==
  ASSUME Inv, NEW p \in Devices, SendError(p), ~Compatible,
         eng[p].started = "yes", eng[p].state \notin Late
  PROVE  Inv'
<1> DEFINE packet == To(p, "Error", 0)
           g == Goto(CancelTimer(eng[p]), "WaitErrorAck", packet)
           h == [g EXCEPT !.failed = "error"]
           f == StartTimer(h)
<1>1. Step(p, f, {packet})
  BY DEF SendError
<1>2. packet \in Plain(p) /\ packet \in Packet /\ packet # NoPacket /\ Said(p, packet)
  BY PlainPackets, ToType, NoPacketType DEF Said, Types
<1> HIDE DEF packet
<1>3. /\ eng[p] \in Engine /\ NegotiationOf(p, eng[p], departures)
      /\ "WaitErrorAck" \in States /\ packet \in Packet \union {NoPacket}
  BY <1>2, Have DEF States
<1>4. /\ g \in Engine /\ g.armed = 0 /\ g.state = "WaitErrorAck" /\ g.sentPacket = packet
      /\ g.started = eng[p].started /\ g.version = eng[p].version /\ g.due = eng[p].due
      /\ g.recv = eng[p].recv /\ g.send = eng[p].send
  BY <1>3, ResetFields
<1> HIDE DEF g
<1>5. /\ h \in Engine /\ h.armed = 0 /\ h.state = "WaitErrorAck" /\ h.sentPacket = packet
      /\ h.failed = "error"
      /\ h.started = g.started /\ h.version = g.version /\ h.due = g.due
      /\ h.recv = g.recv /\ h.send = g.send
  BY <1>4 DEF Engine
<1> HIDE DEF h
<1>6. /\ f \in Engine /\ f.armed = h.armed + 1 /\ f.state = h.state
      /\ f.sentPacket = h.sentPacket /\ f.failed = h.failed
      /\ f.started = h.started /\ f.version = h.version /\ f.due = h.due
      /\ f.recv = h.recv /\ f.send = h.send
  BY <1>5, StartFields
<1> HIDE DEF f
<1>7. f.armed = 1
  BY <1>5, <1>6
<1>8. /\ eng' = [eng EXCEPT ![p] = f] /\ net' = net \union {packet}
      /\ conf' = conf /\ departures' = departures
  BY <1>1 DEF Step
<1>9. TypeOK /\ KInv /\ departures \in [Kinds -> Nat]
  BY DEF Inv, TypeOK
<1>10. f.failed = "error" /\ f.state = "WaitErrorAck" /\ f.started = "yes"
       /\ f.recv = eng[p].recv /\ f.send = eng[p].send /\ f.sentPacket = packet
  BY <1>4, <1>5, <1>6
<1>11. KInv'
  <2>1. GoneEngine(f) /\ f.state \notin Late
    BY <1>10 DEF GoneEngine, Late
  <2> QED BY <1>2, <1>6, <1>8, <1>9, <1>10, <2>1, EarlyStep
<1>12. NegotiationOf(p, f, departures)
  <2>1. Explained(f, departures)
    BY <1>10 DEF Explained
  <2>2. Timely(f, departures)
    BY <1>3, <1>4, <1>5, <1>6, <1>7, <1>10 DEF NegotiationOf, Timely, Resending
  <2> QED BY <1>2, <1>3, <1>4, <1>5, <1>6, <1>10, <2>1, <2>2 DEF NegotiationOf
<1> DEFINE packets == {packet}
<1>13. net' = net \union packets /\ \A m \in packets : m \in Packet /\ m.to = Other(p) /\ Said(p, m)
  BY <1>2, <1>8 DEF Plain
<1> HIDE DEF packets
<1>14. \A k \in Kinds : departures'[k] >= departures[k]
  BY <1>8, <1>9
<1>15. TypeOK' /\ NInv'
  BY <1>6, <1>8, <1>9, <1>12, <1>13, <1>14, NegotiationKeeps
<1> QED BY <1>11, <1>15 DEF Inv

LEMMA Highests ==
  ASSUME NEW vs \in (SUBSET {1, 2}) \ {{}}
  PROVE  Highest(vs) \in vs /\ \A w \in vs : w <= Highest(vs)
<1>1. \E v \in vs : \A w \in vs : w <= v
  <2>1. CASE 2 \in vs
    BY <2>1
  <2>2. CASE 2 \notin vs
    <3>1. 1 \in vs /\ \A w \in vs : w = 1
      BY <2>2
    <3> QED BY <3>1
  <2> QED BY <2>1, <2>2
<1> QED BY <1>1 DEF Highest

(* Who is asked for version 1 can go down to it, or there is none in       *)
(* common.                                                                 *)
LEMMA DetectLowerHello_Inv ==
  ASSUME Inv, ZrtpAssumption, NEW p \in Devices, DetectLowerHello(p)
  PROVE  Inv'
<1>1. /\ eng[p].started = "yes" /\ eng[p].state = "Detect"
      /\ eng[p] \in Engine /\ NegotiationOf(p, eng[p], departures)
  BY Have DEF DetectLowerHello, Receives
<1>2. ~GoneEngine(eng[p]) /\ eng[p].state \notin Late
  BY <1>1, Present DEF Late
<1> DEFINE common(m) == {v \in conf.versions[p] : v <= m.info}
           hello(m) == To(p, "Hello", Highest(common(m)))
<1>3. PICK m \in Got(p, "Hello") :
        /\ m.info < eng[p].version
        /\ IF common(m) = {} THEN SendError(p)
           ELSE Step(p, StartTimer([CancelTimer(eng[p]) EXCEPT
                          !.version = hello(m).info, !.sentPacket = hello(m)]), {hello(m)})
  BY Zenon DEF DetectLowerHello
<1>4. m.info = 1 /\ Offered(Other(p), 1) /\ eng[p].version = 2 /\ 2 \in conf.versions[p]
  <2>1. /\ m \in Packet /\ Said(Other(p), m) /\ m.type = "Hello"
    BY Have
  <2>2. /\ m.info \in 0 .. 2 /\ Offered(Other(p), m.info) /\ eng[p].version \in {1, 2}
        /\ eng[p].version \in conf.versions[p]
    BY <1>1, <2>1 DEF Packet, Said, Engine, NegotiationOf, Offered
  <2>3. m.info \in {1, 2}
    BY <2>2, Two, ZrtpAssumption DEF Offered, Inv, TypeOK, Configs, Devices, Other
  <2> QED BY <1>3, <2>2, <2>3
<1>5. \A q \in Devices : conf.versions[q] \in (SUBSET {1, 2}) \ {{}}
  BY ZrtpAssumption DEF Inv, TypeOK, Configs, Devices
<1>6. CASE common(m) = {}
  <2>1. ~Compatible
    <3>1. 1 \notin conf.versions[p]
      BY <1>4, <1>6
    <3>2. 2 \notin conf.versions[Other(p)]
      BY <1>4, <3>1, Two DEF Offered
    <3> QED BY <3>1, <3>2, Two DEF Compatible
  <2> QED BY <1>1, <1>2, <1>3, <1>6, <2>1, SendError_Inv
<1>7. CASE common(m) # {}
  <2> DEFINE c == CancelTimer(eng[p])
             packet == To(p, "Hello", 1)
             g == [c EXCEPT !.version = packet.info, !.sentPacket = packet]
             f == StartTimer(g)
  <2>1. 1 \in conf.versions[p] /\ Highest(common(m)) = 1
    <3>1. common(m) \in (SUBSET {1, 2}) \ {{}} /\ \A v \in common(m) : v = 1
      BY <1>4, <1>5, <1>7
    <3> QED BY <3>1, Highests
  <2>2. Step(p, f, {packet})
    BY <1>3, <1>7, <2>1
  <2>3. Offered(p, 1)
    BY <1>4, <2>1, Two DEF Offered
  <2>4. /\ packet \in Plain(p) /\ packet \in Packet /\ packet # NoPacket
        /\ Said(p, packet) /\ packet.info = 1
    BY <2>3, Hello
  <2> HIDE DEF packet
  <2>5. /\ c \in Engine /\ c.armed = 0 /\ c.state = "Detect"
        /\ c.started = eng[p].started /\ c.due = eng[p].due
        /\ c.recv = eng[p].recv /\ c.send = eng[p].send /\ c.failed = eng[p].failed
    BY <1>1, CancelFields
  <2> HIDE DEF c
  <2>6. /\ g \in Engine /\ g.armed = 0 /\ g.state = "Detect" /\ g.sentPacket = packet
        /\ g.version = 1 /\ g.started = c.started /\ g.due = c.due
        /\ g.recv = c.recv /\ g.send = c.send /\ g.failed = c.failed
    BY <2>4, <2>5 DEF Engine
  <2> HIDE DEF g
  <2>7. /\ f \in Engine /\ f.armed = g.armed + 1 /\ f.state = g.state
        /\ f.sentPacket = g.sentPacket
        /\ f.version = g.version /\ f.started = g.started /\ f.due = g.due
        /\ f.recv = g.recv /\ f.send = g.send /\ f.failed = g.failed
    BY <2>6, StartFields
  <2> HIDE DEF f
  <2>8. f.armed = 1
    BY <2>6, <2>7
  <2>9. Advances(p, f, {packet})
    BY <1>1, <1>2, <2>2, <2>3, <2>4, <2>5, <2>6, <2>7, <2>8 DEF Advances, Late, Resending
  <2> QED BY <1>1, <2>7, <2>9, AdvanceKeeps
<1> QED BY <1>6, <1>7

(* A packet that confirms the keys.                                        *)
Confirms(p, f, packets) ==
  /\ Step(p, f, packets)
  /\ eng[p].started \in {"yes", "switching"} /\ eng[p].state \notin {"Initial", "WaitErrorAck"}
  /\ f.state \in Late \/ (f.state = "WaitConfirm2" /\ f.started = "switching")
  /\ f.state = "SecureState" => f.started = "yes"
  /\ f.started \in {"yes", "switching"} /\ f.failed = eng[p].failed
  /\ f.version = eng[p].version /\ f.due = eng[p].due
  /\ \A m \in packets : m \in Packet /\ SentBy(p, f, m) /\ Said(p, m)
  /\ f.sentPacket \in {NoPacket, eng[p].sentPacket} \union packets
  /\ f.state # "SecureState" => f.sentPacket # NoPacket
  /\ KeysOf(p, f) /\ PeerReady(p, f, eng[Other(p)])
  /\ StaysReady(p, eng[p], f)
  /\ \/ f.armed = 0
     \/ f.armed = 1 /\ f.state \in Resending
     \/ f.armed = eng[p].armed /\ (eng[p].state \notin Resending \/ f.state = eng[p].state)

LEMMA ConfirmKeeps ==
  ASSUME Inv, NEW p \in Devices, NEW f \in Engine, NEW packets, Confirms(p, f, packets)
  PROVE  Inv'
<1>1. /\ eng' = [eng EXCEPT ![p] = f] /\ net' = net \union packets
      /\ conf' = conf /\ departures' = departures
  BY DEF Confirms, Step
<1>2. TypeOK /\ KInv /\ departures \in [Kinds -> Nat] /\ NegotiationOf(p, eng[p], departures)
  BY DEF Inv, NInv, TypeOK
<1>3. ~GoneEngine(eng[p])
  BY Present DEF Confirms
<1>4. ~GoneEngine(f)
  BY <1>3 DEF Confirms, GoneEngine
<1>5. KInv'
  <2>1. StaysReady(p, eng[p], f) /\ EngineInv(p, eng[p])
    BY <1>2 DEF Confirms, KInv
  <2>2. EngineInv(p, f)
    <3>1. f.sentPacket = NoPacket \/ SentBy(p, f, f.sentPacket)
      BY <2>1 DEF Confirms, EngineInv, SentBy, StaysReady
    <3>2. f.state \in Repeating => f.sentPacket \in Packet
      BY DEF Confirms, Late, Repeating, Resending, Engine
    <3>3. f.started # "no" /\ KeysOf(p, f)
          /\ (f.started = "switching" => f.state \in {"WaitConfAck", "WaitConfirm2"})
      BY DEF Confirms, Late
    <3> QED BY <1>4, <3>1, <3>2, <3>3 DEF EngineInv
  <2>3. \A m \in net' : m \in net \/ SentBy(p, f, m)
    BY <1>1 DEF Confirms
  <2>4. PeerReady(p, f, eng[Other(p)])
    BY DEF Confirms
  <2> QED BY <1>1, <1>2, <2>1, <2>2, <2>3, <2>4, StepKeeps
<1>6. NegotiationOf(p, f, departures)
  <2>1. f.sentPacket = NoPacket \/ Said(p, f.sentPacket)
    BY <1>2 DEF Confirms, NegotiationOf
  <2>2. Explained(f, departures)
    BY <1>2 DEF Confirms, NegotiationOf, Explained
  <2>3. Timely(f, departures)
    BY <1>2 DEF Confirms, NegotiationOf, Timely
  <2>4. Offered(p, f.version) /\ f.state # "WaitErrorAck"
    BY <1>2 DEF Confirms, NegotiationOf, Late
  <2> QED BY <2>1, <2>2, <2>3, <2>4 DEF NegotiationOf
<1>7. \A m \in packets : m \in Packet /\ m.to = Other(p) /\ Said(p, m)
  BY DEF Confirms, SentBy
<1>8. \A k \in Kinds : departures'[k] >= departures[k]
  BY <1>1, <1>2
<1>9. TypeOK' /\ NInv'
  BY <1>1, <1>2, <1>6, <1>7, <1>8, NegotiationKeeps
<1> QED BY <1>5, <1>9 DEF Inv

(* A Confirm1 is made with the key of the device it is sent to.            *)
LEMMA ReceiveConfirm1_Inv ==
  ASSUME Inv, NEW p \in Devices, ReceiveConfirm1(p)
  PROVE  Inv'
<1> DEFINE packet == To(p, "Confirm2", p)
           c == Confirmed(p)
           f == StartTimer(Goto(CancelTimer(c), "WaitConfAck", packet))
<1>1. /\ eng[p].started = "yes" /\ eng[p].state \in {"CommitSent", "WaitConfirm1"}
      /\ eng[p] \in Engine /\ EngineInv(p, eng[p])
  BY Have DEF ReceiveConfirm1, Receives
<1>2. \A m \in Got(p, "Confirm1") : m.info = p
  BY Have, Two DEF Said
<1>3. Step(p, f, {packet})
  BY <1>2, Zenon DEF ReceiveConfirm1
<1>4. p \in 0 .. 2
  BY DEF Devices
<1>5. /\ packet \in Packet /\ packet # NoPacket /\ packet.to = Other(p) /\ packet.info = p
      /\ packet.type = "Confirm2"
  BY <1>4, ToType, NoPacketType DEF Types
<1> HIDE DEF packet
<1>6. /\ c \in Engine /\ c.key = p /\ c.send = eng[p].send
      /\ c.version = eng[p].version /\ c.due = eng[p].due /\ c.failed = eng[p].failed
      /\ \/ c.started = "switching" /\ c.recv = eng[p].recv
         \/ c.started = "yes" /\ c.recv = p
  <2>1. CASE conf.multi
    BY <1>1, <1>4, <2>1 DEF Confirmed, Engine
  <2>2. CASE ~conf.multi
    BY <1>1, <1>4, <2>2 DEF Confirmed, Engine
  <2> QED BY <2>1, <2>2
<1> HIDE DEF c
<1>7. "WaitConfAck" \in States /\ packet \in Packet \union {NoPacket}
  BY <1>5 DEF States
<1>8. /\ f \in Engine /\ f.armed = 1 /\ f.state = "WaitConfAck" /\ f.sentPacket = packet
      /\ f.started = c.started /\ f.version = c.version /\ f.due = c.due
      /\ f.key = c.key /\ f.recv = c.recv /\ f.send = c.send /\ f.failed = c.failed
  BY <1>6, <1>7, ResetFields
<1> HIDE DEF f
<1>9. f.send = 0 /\ f.recv = IF f.started = "switching" THEN 0 ELSE p
  BY <1>1, <1>6, <1>8 DEF EngineInv, KeysOf
<1>10. KeysOf(p, f) /\ PeerReady(p, f, eng[Other(p)])
  BY <1>6, <1>8, <1>9, Two DEF KeysOf, PeerReady, Devices, Other
<1>11. SentBy(p, f, packet) /\ Said(p, packet)
  BY <1>5, <1>6, <1>8 DEF SentBy, InitiatorReady, Said
<1>12. StaysReady(p, eng[p], f)
  BY <1>1, Present DEF StaysReady, InitiatorReady, ResponderReady
<1>13. Confirms(p, f, {packet})
  BY <1>1, <1>3, <1>5, <1>6, <1>8, <1>10, <1>11, <1>12 DEF Confirms, Late, Resending
<1> QED BY <1>8, <1>13, ConfirmKeeps

LEMMA SwitchReceiver_Inv ==
  ASSUME Inv, NEW p \in Devices, SwitchReceiver(p)
  PROVE  Inv'
<1> DEFINE f == [eng[p] EXCEPT !.started = "yes", !.recv = eng[p].key]
<1>1. /\ eng[p].started = "switching" /\ eng[p].state = "WaitConfAck"
      /\ eng[p] \in Engine /\ EngineInv(p, eng[p]) /\ Step(p, f, {})
  BY Have DEF SwitchReceiver
<1>2. eng[p].key = p /\ p \in 0 .. 2 /\ eng[p].sentPacket \in Packet
  BY <1>1 DEF EngineInv, KeysOf, Devices, Repeating, Resending
<1>3. /\ f \in Engine /\ f.armed = eng[p].armed /\ f.state = "WaitConfAck"
      /\ f.sentPacket = eng[p].sentPacket /\ f.started = "yes"
      /\ f.version = eng[p].version /\ f.due = eng[p].due
      /\ f.key = p /\ f.recv = p /\ f.send = eng[p].send /\ f.failed = eng[p].failed
  BY <1>1, <1>2 DEF Engine
<1> HIDE DEF f
<1>4. KeysOf(p, f) /\ PeerReady(p, f, eng[Other(p)])
  BY <1>1, <1>3, Two DEF EngineInv, KeysOf, PeerReady, Devices, Other
<1>5. StaysReady(p, eng[p], f)
  BY <1>1, <1>3, Present DEF StaysReady, InitiatorReady, ResponderReady
<1>6. Confirms(p, f, {})
  BY <1>1, <1>2, <1>3, <1>4, <1>5, NoPacketType DEF Confirms, Late
<1> QED BY <1>3, <1>6, ConfirmKeeps

LEMMA ReceiveConfirm2_Inv ==
  ASSUME Inv, NEW p \in Devices, ReceiveConfirm2(p)
  PROVE  Inv'
<1> DEFINE packet == To(p, "Conf2Ack", 0)
           f == [eng[p] EXCEPT !.started = "switching", !.sentPacket = packet]
<1>1. /\ eng[p].started = "yes" /\ eng[p].state = "WaitConfirm2"
      /\ eng[p] \in Engine /\ EngineInv(p, eng[p])
  BY Have DEF ReceiveConfirm2, Receives
<1>2. eng[p].key = Other(p)
  BY <1>1 DEF EngineInv, KeysOf
<1>3. \A m \in Got(p, "Confirm2") :
        m.info = eng[p].key /\ InitiatorReady(Other(p), eng[Other(p)])
  BY <1>2, Have DEF SentBy
<1>4. Step(p, f, {packet}) /\ InitiatorReady(Other(p), eng[Other(p)])
  <2>1. Step(p, f, {packet})
    BY <1>3, Zenon DEF ReceiveConfirm2
  <2> QED BY <1>3, <2>1 DEF ReceiveConfirm2, Receives
<1>5. /\ packet \in Packet /\ packet # NoPacket /\ packet.to = Other(p)
      /\ packet.type = "Conf2Ack"
  BY ToType, NoPacketType DEF Types
<1> HIDE DEF packet
<1>6. /\ f \in Engine /\ f.armed = eng[p].armed /\ f.state = "WaitConfirm2"
      /\ f.sentPacket = packet /\ f.started = "switching"
      /\ f.version = eng[p].version /\ f.due = eng[p].due
      /\ f.key = eng[p].key /\ f.recv = eng[p].recv /\ f.send = eng[p].send
      /\ f.failed = eng[p].failed
  BY <1>1, <1>5 DEF Engine
<1> HIDE DEF f
<1>7. KeysOf(p, f) /\ PeerReady(p, f, eng[Other(p)])
  BY <1>1, <1>4, <1>6, Two DEF EngineInv, KeysOf, PeerReady, Devices, Other
<1>8. SentBy(p, f, packet) /\ Said(p, packet)
  BY <1>5, <1>6 DEF SentBy, ResponderReady, Said
<1>9. StaysReady(p, eng[p], f)
  BY <1>1, Present DEF StaysReady, InitiatorReady, ResponderReady
<1>10. Confirms(p, f, {packet})
  BY <1>1, <1>4, <1>5, <1>6, <1>7, <1>8, <1>9 DEF Confirms, Late, Resending
<1> QED BY <1>6, <1>10, ConfirmKeeps

(* The initiator is ready since its Confirm2.                              *)
LEMMA SwitchBoth_Inv ==
  ASSUME Inv, NEW p \in Devices, SwitchBoth(p)
  PROVE  Inv'
<1> DEFINE f == [eng[p] EXCEPT !.started = "yes", !.state = "SecureState",
                               !.recv = eng[p].key, !.send = eng[p].key]
<1>1. /\ eng[p].started = "switching" /\ eng[p].state = "WaitConfirm2"
      /\ eng[p] \in Engine /\ EngineInv(p, eng[p]) /\ Step(p, f, {})
  BY Have DEF SwitchBoth
<1>2. eng[p].key = Other(p) /\ Other(p) \in 0 .. 2
  BY <1>1 DEF EngineInv, KeysOf, Engine
<1>3. /\ f \in Engine /\ f.armed = eng[p].armed /\ f.state = "SecureState"
      /\ f.sentPacket = eng[p].sentPacket /\ f.started = "yes"
      /\ f.version = eng[p].version /\ f.due = eng[p].due
      /\ f.key = Other(p) /\ f.recv = Other(p) /\ f.send = Other(p)
      /\ f.failed = eng[p].failed
  BY <1>1, <1>2 DEF Engine, States
<1> HIDE DEF f
<1>4. KeysOf(p, f) /\ PeerReady(p, f, eng[Other(p)])
  <2>1. InitiatorReady(Other(p), eng[Other(p)])
    BY <1>1 DEF Inv, KInv, PeerReady
  <2> QED BY <1>3, <2>1, Two DEF KeysOf, PeerReady, Devices
<1>5. StaysReady(p, eng[p], f)
  BY <1>1, <1>3, Present DEF StaysReady, InitiatorReady, ResponderReady
<1>6. Confirms(p, f, {})
  BY <1>1, <1>3, <1>4, <1>5 DEF Confirms, Late, Resending
<1> QED BY <1>3, <1>6, ConfirmKeeps

(* The responder is ready since its Conf2Ack, and when it sends media.     *)
LEMMA InitiatorSecure_Inv ==
  ASSUME Inv, NEW p \in Devices, eng[p].started = "yes", eng[p].state = "WaitConfAck",
         Step(p, InitiatorSecure(p), {}), ResponderReady(Other(p), eng[Other(p)])
  PROVE  Inv'
<1> DEFINE g == Goto(CancelTimer(eng[p]), "SecureState", NoPacket)
           f == [g EXCEPT !.send = eng[p].key]
<1>1. /\ eng[p] \in Engine /\ EngineInv(p, eng[p])
      /\ "SecureState" \in States /\ NoPacket \in Packet \union {NoPacket}
  BY Have DEF States
<1>2. Step(p, f, {})
  BY DEF InitiatorSecure
<1>3. eng[p].key = p /\ eng[p].recv = p /\ p \in 0 .. 2
  BY <1>1 DEF EngineInv, KeysOf, Devices
<1>4. /\ g \in Engine /\ g.armed = 0 /\ g.state = "SecureState" /\ g.sentPacket = NoPacket
      /\ g.started = eng[p].started /\ g.version = eng[p].version /\ g.due = eng[p].due
      /\ g.key = eng[p].key /\ g.recv = eng[p].recv /\ g.failed = eng[p].failed
  BY <1>1, ResetFields
<1> HIDE DEF g
<1>5. /\ f \in Engine /\ f.armed = 0 /\ f.state = "SecureState" /\ f.sentPacket = NoPacket
      /\ f.started = eng[p].started /\ f.version = eng[p].version /\ f.due = eng[p].due
      /\ f.key = p /\ f.recv = p /\ f.send = p /\ f.failed = eng[p].failed
  BY <1>3, <1>4 DEF Engine
<1> HIDE DEF f
<1>6. KeysOf(p, f) /\ PeerReady(p, f, eng[Other(p)])
  BY <1>5, Two DEF KeysOf, PeerReady, Devices
<1>7. StaysReady(p, eng[p], f)
  BY <1>5, Present DEF StaysReady, InitiatorReady, ResponderReady
<1>8. Confirms(p, f, {})
  BY <1>2, <1>5, <1>6, <1>7 DEF Confirms, Late
<1> QED BY <1>5, <1>8, ConfirmKeeps

LEMMA ReceiveConf2Ack_Inv ==
  ASSUME Inv, NEW p \in Devices, ReceiveConf2Ack(p)
  PROVE  Inv'
<1>1. ResponderReady(Other(p), eng[Other(p)])
  BY Have DEF ReceiveConf2Ack, Receives, SentBy
<1> QED BY <1>1, InitiatorSecure_Inv DEF ReceiveConf2Ack, Receives

LEMMA MediaReady ==
  ASSUME Inv, NEW p \in Devices, ReceiveMedia(p)
  PROVE  ResponderReady(Other(p), eng[Other(p)])
<1>1. EngineInv(p, eng[p]) /\ EngineInv(Other(p), eng[Other(p)]) /\ Other(Other(p)) = p
  BY Have, Two
<1>2. eng[Other(p)].send = p
  BY <1>1 DEF ReceiveMedia, EngineInv, KeysOf
<1>3. eng[Other(p)].state = "SecureState" /\ eng[Other(p)].recv = p
  <2>1. p # 0
    BY DEF Devices
  <2>2. KeysOf(Other(p), eng[Other(p)])
    BY <1>1 DEF EngineInv
  <2> QED BY <1>2, <2>1, <2>2 DEF KeysOf
<1> QED BY <1>1, <1>3 DEF ResponderReady

LEMMA ReceiveMedia_Inv ==
  ASSUME Inv, NEW p \in Devices, ReceiveMedia(p)
  PROVE  Inv'
  BY MediaReady, InitiatorSecure_Inv DEF ReceiveMedia

LEMMA ErrorAck_Inv ==
  ASSUME Inv, NEW p \in Devices, ReceiveErrorAck(p)
  PROVE  Inv'
<1> DEFINE f == Goto(CancelTimer(eng[p]), "Initial", NoPacket)
<1>1. /\ eng[p].started = "yes" /\ eng[p].state = "WaitErrorAck" /\ Step(p, f, {})
  BY DEF ReceiveErrorAck, Receives
<1>2. eng[p] \in Engine /\ NegotiationOf(p, eng[p], departures)
      /\ "Initial" \in States /\ NoPacket \in Packet \union {NoPacket}
  BY Have DEF States
<1>3. /\ f \in Engine /\ f.armed = 0 /\ f.state = "Initial" /\ f.sentPacket = NoPacket
      /\ f.started = eng[p].started /\ f.version = eng[p].version /\ f.due = eng[p].due
      /\ f.recv = eng[p].recv /\ f.send = eng[p].send /\ f.failed = eng[p].failed
  BY <1>2, ResetFields
<1> HIDE DEF f
<1>4. Advances(p, f, {})
  BY <1>1, <1>2, <1>3 DEF Advances, Late, NegotiationOf, Repeating, Resending
<1> QED BY <1>1, <1>3, <1>4, AdvanceKeeps

(* The engine is stopped or has failed.                                    *)
Leaves(p, f, packets) ==
  /\ eng' = [eng EXCEPT ![p] = f] /\ net' = net \union packets /\ conf' = conf
  /\ departures' \in [Kinds -> Nat] /\ \A k \in Kinds : departures'[k] >= departures[k]
  /\ f.state = "Initial" /\ f.sentPacket = NoPacket /\ f.started \notin {"no", "switching"} /\ GoneEngine(f)
  /\ f.recv = 0 /\ f.send = 0 /\ f.version = eng[p].version
  /\ \A m \in packets : Said(p, m)
  /\ \/ packets \subseteq Plain(p)
     \/ packets = {eng[p].sentPacket} /\ eng[p].sentPacket \in Packet
  /\ Explained(f, departures') /\ Timely(f, departures')

LEMMA LeaveKeeps ==
  ASSUME Inv, NEW p \in Devices, NEW f \in Engine, NEW packets, Leaves(p, f, packets)
  PROVE  Inv'
<1>1. TypeOK /\ KInv /\ EngineInv(p, eng[p]) /\ NegotiationOf(p, eng[p], departures)
  BY DEF Inv, NInv, KInv
<1>2. KInv'
  BY <1>1, LeaveStep DEF Leaves
<1>3. NegotiationOf(p, f, departures')
  BY <1>1 DEF Leaves, NegotiationOf
<1>4. \A m \in packets : m \in Packet /\ m.to = Other(p) /\ Said(p, m)
  BY <1>1, NoPacketType DEF Leaves, Plain, EngineInv, SentBy
<1>5. TypeOK' /\ NInv'
  BY <1>3, <1>4, NegotiationKeeps DEF Leaves
<1> QED BY <1>2, <1>5 DEF Inv

LEMMA DepartsType ==
  ASSUME Inv, NEW kind \in Kinds, Departs(kind)
  PROVE  /\ departures' \in [Kinds -> Nat] /\ \A k \in Kinds : departures'[k] >= departures[k]
         /\ departures'[kind] > 0
         /\ \A k \in Kinds \ {kind} : departures'[k] = departures[k]
<1>1. departures \in [Kinds -> Nat]
      /\ departures' = [departures EXCEPT ![kind] = @ + 1]
  BY DEF Inv, TypeOK, Departs
<1> QED BY <1>1

LEMMA Stop_Inv ==
  ASSUME Inv, NEW p \in Devices, Stop(p)
  PROVE  Inv'
<1> DEFINE g == Goto(CancelTimer(eng[p]), "Initial", NoPacket)
           o == SecretsOff(g)
           f == [o EXCEPT !.started = "stopped", !.due = FALSE]
<1>1. /\ Departs("stop") /\ eng' = [eng EXCEPT ![p] = f] /\ net' = net /\ conf' = conf
  BY DEF Stop
<1>2. /\ eng[p] \in Engine /\ NegotiationOf(p, eng[p], departures)
      /\ "Initial" \in States /\ NoPacket \in Packet \union {NoPacket}
  BY Have DEF States
<1>3. /\ g \in Engine /\ g.armed = 0 /\ g.state = "Initial" /\ g.sentPacket = NoPacket
      /\ g.version = eng[p].version /\ g.failed = eng[p].failed
  BY <1>2, ResetFields
<1> HIDE DEF g
<1>4. /\ o \in Engine /\ o.armed = 0 /\ o.state = "Initial" /\ o.sentPacket = NoPacket
      /\ o.version = eng[p].version /\ o.failed = eng[p].failed
      /\ o.recv = 0 /\ o.send = 0
  <2>1. o = [g EXCEPT !.recv = 0, !.send = 0] /\ 0 \in 0 .. 2
    BY DEF SecretsOff
  <2> HIDE DEF o
  <2>2. o \in Engine
    BY <1>3, <2>1 DEF Engine
  <2>3. /\ o.armed = g.armed /\ o.state = g.state /\ o.sentPacket = g.sentPacket
        /\ o.version = g.version /\ o.failed = g.failed /\ o.recv = 0 /\ o.send = 0
    BY <1>3, <2>1 DEF Engine
  <2> QED BY <1>3, <2>2, <2>3
<1> HIDE DEF o
<1>5. /\ f \in Engine /\ f.armed = 0 /\ f.state = "Initial" /\ f.sentPacket = NoPacket
      /\ f.version = eng[p].version /\ f.failed = eng[p].failed
      /\ f.recv = 0 /\ f.send = 0 /\ f.started = "stopped" /\ f.due = FALSE
  BY <1>4 DEF Engine
<1> HIDE DEF f
<1>6. /\ departures' \in [Kinds -> Nat] /\ \A k \in Kinds : departures'[k] >= departures[k]
      /\ departures'["exhausted"] = departures["exhausted"]
      /\ departures'["stray"] = departures["stray"]
  BY <1>1, DepartsType DEF Kinds
<1>7. Explained(f, departures')
  BY <1>2, <1>5, <1>6 DEF NegotiationOf, Explained
<1>8. Timely(f, departures')
  BY <1>5 DEF Timely
<1>9. Leaves(p, f, {})
  BY <1>1, <1>5, <1>6, <1>7, <1>8 DEF Leaves, GoneEngine
<1> QED BY <1>5, <1>9, LeaveKeeps

LEMMA ReceiveError_Inv ==
  ASSUME Inv, NEW p \in Devices, ReceiveError(p)
  PROVE  Inv'
<1>1. /\ eng[p].started = "yes" /\ eng[p] \in Engine /\ EngineInv(p, eng[p])
      /\ NegotiationOf(p, eng[p], departures)
  BY Have DEF ReceiveError, Receives
<1>2. ~Compatible
  BY Have DEF ReceiveError, Receives, Said
<1>3. ErrorAck(p) \in Plain(p) /\ Said(p, ErrorAck(p))
  BY Answers DEF ErrorAck
<1> DEFINE c == CancelTimer(eng[p])
<1>4. /\ c \in Engine /\ c.armed = 0 /\ c.state = eng[p].state
      /\ c.sentPacket = eng[p].sentPacket /\ c.started = eng[p].started
      /\ c.version = eng[p].version /\ c.due = eng[p].due
      /\ c.key = eng[p].key /\ c.recv = eng[p].recv /\ c.send = eng[p].send
      /\ c.failed = eng[p].failed
  BY <1>1, CancelFields
<1>5. CASE eng[p].state \in {"Initial", "SecureState"}
  <2>1. Step(p, c, {ErrorAck(p)})
    BY <1>5, Zenon DEF ReceiveError
  <2> HIDE DEF c
  <2>2. Timely(c, departures)
    BY <1>1, <1>4 DEF NegotiationOf, Timely
  <2> QED BY <1>3, <1>4, <2>1, <2>2, RepeatKeeps
<1>6. CASE eng[p].state \notin {"Initial", "SecureState"}
  <2> DEFINE g == Failed(c, "peer")
             r == IF eng[p].state = "WaitConfAck" THEN 0 ELSE g.recv
             f == [g EXCEPT !.recv = r]
  <2>1. Step(p, f, {ErrorAck(p)})
    BY <1>6 DEF ReceiveError
  <2> HIDE DEF c
  <2>2. /\ g \in Engine /\ g.state = "Initial" /\ g.sentPacket = NoPacket
        /\ g.failed = "peer"
        /\ g.started = c.started /\ g.version = c.version /\ g.armed = c.armed
        /\ g.due = c.due /\ g.recv = c.recv /\ g.send = c.send
    BY <1>4, FailedFields
  <2> HIDE DEF g
  <2>3. r = 0 /\ g.send = 0
    BY <1>1, <1>4, <1>6, <2>2 DEF EngineInv, KeysOf
  <2> HIDE DEF r
  <2>4. /\ f \in Engine /\ f.state = "Initial" /\ f.sentPacket = NoPacket
        /\ f.failed = "peer"
        /\ f.started = c.started /\ f.version = c.version /\ f.armed = c.armed
        /\ f.due = c.due /\ f.recv = 0 /\ f.send = 0
    <3>1. f \in Engine
      BY <2>2, <2>3 DEF Engine
    <3>2. /\ f.state = g.state /\ f.sentPacket = g.sentPacket /\ f.failed = g.failed
          /\ f.started = g.started /\ f.version = g.version /\ f.armed = g.armed
          /\ f.due = g.due /\ f.recv = 0 /\ f.send = g.send
      BY <2>2, <2>3 DEF Engine
    <3> QED BY <2>2, <2>3, <3>1, <3>2
  <2> HIDE DEF f
  <2>5. departures' = departures /\ departures \in [Kinds -> Nat]
        /\ \A k \in Kinds : departures[k] >= departures[k]
    BY <2>1 DEF Step, Inv, TypeOK
  <2>6. Explained(f, departures') /\ Timely(f, departures')
    <3>1. Explained(f, departures')
      BY <1>2, <2>4 DEF Explained
    <3>2. f.armed = 0 /\ f.due = eng[p].due
      BY <1>4, <2>4
    <3>3. departures["stray"] = 0 => ~eng[p].due
      BY <1>1 DEF NegotiationOf, Timely
    <3>4. departures["stray"] = 0 => ~f.due
      BY <3>2, <3>3
    <3> QED BY <2>5, <3>1, <3>2, <3>4 DEF Timely
  <2>7. Leaves(p, f, {ErrorAck(p)})
    BY <1>1, <1>3, <1>4, <2>1, <2>4, <2>5, <2>6 DEF Leaves, Step, GoneEngine
  <2> QED BY <2>4, <2>7, LeaveKeeps
<1> QED BY <1>5, <1>6

-----------------------------------------------------------------------------
(* The timer.                                                              *)

(* The engine of p, with one request less.                                 *)
TimerTaken(p, e) ==
  /\ e \in Engine
  /\ e.state = eng[p].state /\ e.sentPacket = eng[p].sentPacket
  /\ e.started = eng[p].started /\ e.started # "switching"
  /\ e.failed = eng[p].failed /\ e.version = eng[p].version
  /\ e.key = eng[p].key /\ e.recv = eng[p].recv /\ e.send = eng[p].send
  /\ departures["stray"] = 0 => ~e.due /\ e.armed = 0 /\ e.state \in Resending

LEMMA TakenKeys ==
  ASSUME Inv, NEW p \in Devices, NEW e, TimerTaken(p, e)
  PROVE  /\ e.started # "no" \/ e.state = "Initial"
         /\ e.state \in Resending => /\ eng[p].sentPacket \in Packet
                                     /\ Said(p, eng[p].sentPacket)
         /\ e.state # "SecureState" => e.send = 0
         /\ e.state \notin {"WaitConfAck", "SecureState"} => e.recv = 0
<1>1. EngineInv(p, eng[p]) /\ NegotiationOf(p, eng[p], departures)
  BY Have
<1>2. e.state \in Resending => eng[p].sentPacket \in Packet
  BY <1>1 DEF TimerTaken, EngineInv, Repeating
<1>3. e.state \in Resending => Said(p, eng[p].sentPacket)
  BY <1>1, <1>2, NoPacketType DEF NegotiationOf
<1>4. e.started # "no" \/ e.state = "Initial"
  BY <1>1 DEF TimerTaken, EngineInv
<1> QED BY <1>1, <1>2, <1>3, <1>4 DEF TimerTaken, EngineInv, KeysOf

LEMMA ResendOnce ==
  ASSUME Inv, NEW p \in Devices, NEW e, TimerTaken(p, e), e.state \in Resending,
         Step(p, StartTimer(e), {e.sentPacket})
  PROVE  Inv'
<1> DEFINE f == StartTimer(e)
<1>1. eng[p].sentPacket \in Packet /\ Said(p, eng[p].sentPacket)
  BY TakenKeys
<1>2. e \in Engine /\ e.sentPacket = eng[p].sentPacket
  BY DEF TimerTaken
<1>3. Step(p, f, {eng[p].sentPacket})
  BY <1>2
<1>4. /\ f \in Engine /\ f.armed = e.armed + 1 /\ f.state = e.state
      /\ f.sentPacket = e.sentPacket
      /\ f.started = e.started /\ f.version = e.version /\ f.due = e.due
      /\ f.key = e.key /\ f.recv = e.recv /\ f.send = e.send /\ f.failed = e.failed
  BY <1>2, StartFields
<1> HIDE DEF f
<1>5. Timely(f, departures)
  <2>1. departures["stray"] = 0 => e.armed = 0 /\ ~e.due
    BY DEF TimerTaken
  <2>2. departures["stray"] = 0 => f.armed = 1
    BY <1>4, <2>1
  <2>3. departures["stray"] = 0 => ~f.due
    BY <1>4, <2>1
  <2>4. f.state \in Resending
    BY <1>4
  <2> QED BY <2>2, <2>3, <2>4 DEF Timely
<1>6. /\ f.state = eng[p].state /\ f.sentPacket = eng[p].sentPacket
      /\ f.started = eng[p].started /\ f.failed = eng[p].failed /\ f.version = eng[p].version
      /\ f.key = eng[p].key /\ f.recv = eng[p].recv /\ f.send = eng[p].send
  BY <1>4 DEF TimerTaken
<1> QED BY <1>1, <1>3, <1>4, <1>5, <1>6, RepeatKeeps

(* The last retry of the discovery.                                        *)
LEMMA DiscoveryEnds ==
  ASSUME Inv, NEW p \in Devices, NEW e, TimerTaken(p, e), e.state \in {"Detect", "AckSent"},
         net' = net \union {e.sentPacket}, conf' = conf, Departs("exhausted"),
         eng' = [eng EXCEPT ![p] = [e EXCEPT !.state = "Detect", !.notSupp = TRUE]]
  PROVE  Inv'
<1> DEFINE f == [e EXCEPT !.state = "Detect", !.notSupp = TRUE]
           packets == {eng[p].sentPacket}
<1>1. /\ eng[p].sentPacket \in Packet /\ Said(p, eng[p].sentPacket)
      /\ e.sentPacket = eng[p].sentPacket /\ e \in Engine
  BY TakenKeys DEF TimerTaken, Resending
<1>2. /\ f \in Engine /\ f.armed = e.armed /\ f.state = "Detect" /\ f.sentPacket = e.sentPacket
      /\ f.started = e.started /\ f.version = e.version /\ f.due = e.due
      /\ f.key = e.key /\ f.recv = e.recv /\ f.send = e.send /\ f.failed = e.failed
  BY <1>1 DEF Engine, States
<1>3. /\ eng' = [eng EXCEPT ![p] = f] /\ net' = net \union packets
  BY <1>1
<1> HIDE DEF f
<1>4. EngineInv(p, eng[p]) /\ NegotiationOf(p, eng[p], departures) /\ TypeOK /\ KInv
  BY Have DEF Inv
<1>5. /\ f.started = eng[p].started /\ f.failed = eng[p].failed /\ f.version = eng[p].version
      /\ f.recv = eng[p].recv /\ f.send = eng[p].send
      /\ eng[p].state \in {"Detect", "AckSent"}
  BY <1>2 DEF TimerTaken
<1>6. ~GoneEngine(eng[p]) /\ eng[p].started \notin {"no", "switching"}
  BY <1>4, <1>5 DEF EngineInv, TimerTaken
<1>7. KInv'
  <2>1. ~GoneEngine(f) /\ f.started \notin {"no", "switching"}
    BY <1>5, <1>6 DEF GoneEngine
  <2>2. f.sentPacket # NoPacket
    BY <1>1, <1>2, NoPacketType
  <2>3. eng[p].state \notin Late /\ f.state \notin Late
    BY <1>2, <1>5 DEF Late
  <2> QED BY <1>1, <1>2, <1>3, <1>4, <1>5, <1>6, <2>1, <2>2, <2>3, EarlyStep
<1>8. /\ departures' \in [Kinds -> Nat] /\ \A k \in Kinds : departures'[k] >= departures[k]
      /\ departures'["stray"] = departures["stray"]
  BY DepartsType DEF Kinds
<1>9. NegotiationOf(p, f, departures')
  <2>1. f.failed = ""
    BY <1>5, <1>6 DEF GoneEngine
  <2>2. departures'["stray"] = 0 => ~f.due /\ f.armed = 0
    BY <1>2, <1>8 DEF TimerTaken
  <2>3. Explained(f, departures') /\ Timely(f, departures')
    <3>1. Explained(f, departures')
      BY <2>1 DEF Explained
    <3>2. Timely(f, departures')
      BY <2>2 DEF Timely
    <3> QED BY <3>1, <3>2
  <2>4. f.sentPacket = eng[p].sentPacket /\ f.state = "Detect"
    BY <1>1, <1>2
  <2> QED BY <1>1, <1>4, <1>5, <2>3, <2>4 DEF NegotiationOf
<1>10. \A m \in packets : m \in Packet /\ m.to = Other(p) /\ Said(p, m)
  BY <1>1, <1>4, NoPacketType DEF EngineInv, SentBy
<1> HIDE DEF packets
<1>11. TypeOK' /\ NInv'
  BY <1>2, <1>3, <1>8, <1>9, <1>10, NegotiationKeeps
<1> QED BY <1>7, <1>11 DEF Inv

(* The engine fails in its timer.                                          *)
LEMMA TimerFails ==
  ASSUME Inv, NEW p \in Devices, NEW e, TimerTaken(p, e), e.state # "SecureState",
         e.state # "Initial", NEW reason \in {"retries", "protocol"}, NEW r \in 0 .. 2,
         e.state = "WaitConfAck" => r = 0, e.state # "WaitConfAck" => r = e.recv,
         NEW packets,
         packets = {} \/ (packets = {eng[p].sentPacket} /\ e.state \in Resending),
         net' = net \union packets, conf' = conf,
         departures' \in [Kinds -> Nat], \A k \in Kinds : departures'[k] >= departures[k],
         departures'["stray"] = departures["stray"],
         reason = "retries" => departures'["exhausted"] > 0,
         reason = "protocol" => departures'["stray"] > 0,
         eng' = [eng EXCEPT ![p] = [Failed(e, reason) EXCEPT !.recv = r]]
  PROVE  Inv'
<1> DEFINE g == Failed(e, reason)
           f == [g EXCEPT !.recv = r]
<1>1. /\ e \in Engine /\ e.version = eng[p].version /\ e.send = 0 /\ r = 0
      /\ e.started \notin {"no", "switching"}
  BY TakenKeys DEF TimerTaken
<1>2. /\ g \in Engine /\ g.state = "Initial" /\ g.sentPacket = NoPacket
      /\ g.failed = reason
      /\ g.started = e.started /\ g.version = e.version /\ g.armed = e.armed
      /\ g.due = e.due /\ g.send = e.send
  BY <1>1, FailedFields
<1>3. eng' = [eng EXCEPT ![p] = f]
  OBVIOUS
<1> HIDE DEF g
<1>4. /\ f \in Engine /\ f.state = "Initial" /\ f.sentPacket = NoPacket
      /\ f.failed = reason
      /\ f.started = e.started /\ f.version = e.version /\ f.armed = e.armed
      /\ f.due = e.due /\ f.recv = r /\ f.send = e.send
  BY <1>2 DEF Engine
<1> HIDE DEF f
<1>5. Explained(f, departures')
  BY <1>4 DEF Explained
<1>6. Timely(f, departures')
  <2>1. departures'["stray"] = 0 => ~f.due /\ f.armed = 0
    BY <1>4 DEF TimerTaken
  <2> QED BY <2>1 DEF Timely
<1>7. /\ \A m \in packets : Said(p, m)
      /\ \/ packets \subseteq Plain(p)
         \/ packets = {eng[p].sentPacket} /\ eng[p].sentPacket \in Packet
  BY TakenKeys
<1>8. GoneEngine(f)
  BY <1>4 DEF GoneEngine
<1>9. Leaves(p, f, packets)
  BY <1>1, <1>3, <1>4, <1>5, <1>6, <1>7, <1>8 DEF Leaves
<1> QED BY <1>4, <1>9, LeaveKeeps

LEMMA Timer_Inv ==
  ASSUME Inv, NEW p \in Devices, NEW e, TimerTaken(p, e), TimerEvent(p, e)
  PROVE  Inv'
<1>1. e \in Engine /\ e.sentPacket = eng[p].sentPacket /\ conf' = conf
      /\ departures \in [Kinds -> Nat] /\ {"stray", "exhausted"} \subseteq Kinds
  BY DEF TimerTaken, TimerEvent, Inv, TypeOK, Kinds
<1>2. /\ "WaitConfAck" \in Resending /\ "Initial" \notin Resending
      /\ "SecureState" \notin Resending
  BY DEF Resending
<1>3. CASE Resend(p, e)
  <2>1. e.state \in Resending /\ net' = net \union {e.sentPacket}
    BY <1>3 DEF Resend
  <2>2. CASE eng' = [eng EXCEPT ![p] = StartTimer(e)] /\ UNCHANGED departures
    <3>1. Step(p, StartTimer(e), {e.sentPacket})
      BY <1>1, <2>1, <2>2 DEF Step
    <3> QED BY <2>1, <3>1, ResendOnce
  <2>3. CASE eng' = [eng EXCEPT ![p] = Exhausted(e)] /\ Departs("exhausted")
    <3>1. CASE e.state \in {"Detect", "AckSent"}
      <4>1. eng' = [eng EXCEPT ![p] = [e EXCEPT !.state = "Detect", !.notSupp = TRUE]]
        BY <2>3, <3>1 DEF Exhausted
      <4> QED BY <1>1, <2>1, <2>3, <3>1, <4>1, DiscoveryEnds
    <3>2. CASE e.state \notin {"Detect", "AckSent"}
      <4> DEFINE g == Failed(e, "retries")
                 r == IF e.state = "WaitConfAck" THEN 0 ELSE g.recv
                 packets == {e.sentPacket}
      <4>1. eng' = [eng EXCEPT ![p] = [Failed(e, "retries") EXCEPT !.recv = r]]
        BY <2>3, <3>2 DEF Exhausted
      <4>2. g.recv = e.recv /\ e.recv \in 0 .. 2
        BY <1>1, FailedFields DEF Engine
      <4>3. /\ r \in 0 .. 2 /\ (e.state = "WaitConfAck" => r = 0)
            /\ (e.state # "WaitConfAck" => r = e.recv)
        BY <4>2
      <4>4. /\ departures' \in [Kinds -> Nat]
            /\ \A k \in Kinds : departures'[k] >= departures[k]
            /\ departures'["exhausted"] > 0 /\ departures'["stray"] = departures["stray"]
        BY <2>3, DepartsType DEF Kinds
      <4>5. packets = {eng[p].sentPacket} /\ net' = net \union packets
        BY <1>1, <2>1
      <4>6. e.state # "Initial" /\ e.state # "SecureState"
        BY <1>2, <2>1
      <4> HIDE DEF r, packets
      <4> QED BY <1>1, <2>1, <4>1, <4>3, <4>4, <4>5, <4>6, TimerFails
    <3> QED BY <3>1, <3>2
  <2> QED BY <1>3, <2>2, <2>3 DEF Resend
<1>4. CASE NothingToSend(p, e)
  <2>1. e.state \notin Resending /\ net' = net /\ departures' = departures
    BY <1>4 DEF NothingToSend
  <2>2. departures["stray"] # 0
    BY <2>1 DEF TimerTaken
  <2>3. CASE e.state \in {"Initial", "SecureState"}
    <3>1. Step(p, e, {})
      BY <1>1, <1>4, <2>1, <2>3 DEF NothingToSend, Step
    <3>2. Timely(e, departures)
      BY <2>2 DEF Timely
    <3> QED BY <1>1, <3>1, <3>2, RepeatKeeps DEF TimerTaken
  <2>4. CASE e.state \notin {"Initial", "SecureState"}
    <3> DEFINE g == Failed(e, "protocol")
               r == e.recv
    <3>1. g \in Engine /\ g.recv = r /\ r \in 0 .. 2
      BY <1>1, FailedFields DEF Engine
    <3>2. eng' = [eng EXCEPT ![p] = g]
      BY <1>4, <2>4 DEF NothingToSend
    <3> HIDE DEF g
    <3>3. g = [g EXCEPT !.recv = r]
      BY <3>1 DEF Engine
    <3> USE DEF g
    <3>4. eng' = [eng EXCEPT ![p] = [Failed(e, "protocol") EXCEPT !.recv = r]]
      BY <3>2, <3>3
    <3>5. departures["stray"] > 0 /\ \A k \in Kinds : departures'[k] >= departures[k]
      BY <1>1, <2>1, <2>2
    <3>6. e.state # "WaitConfAck" /\ net' = net \union {}
      BY <1>2, <2>1
    <3> QED BY <1>1, <2>1, <2>4, <3>1, <3>4, <3>5, <3>6, TimerFails
  <2> QED BY <2>3, <2>4
<1> QED BY <1>3, <1>4 DEF TimerEvent

LEMMA Taken ==
  ASSUME Inv, NEW p \in Devices, eng[p].armed > 0
  PROVE  LET e == [eng[p] EXCEPT !.armed = @ - 1]
         IN /\ e \in Engine /\ e.armed = eng[p].armed - 1 /\ e.due = eng[p].due
            /\ e.state = eng[p].state /\ e.sentPacket = eng[p].sentPacket
            /\ e.started = eng[p].started /\ e.failed = eng[p].failed
            /\ e.version = eng[p].version /\ e.notSupp = eng[p].notSupp
            /\ e.key = eng[p].key /\ e.recv = eng[p].recv /\ e.send = eng[p].send
            /\ departures["stray"] = 0 => ~e.due /\ e.armed = 0 /\ e.state \in Resending
<1>1. eng[p] \in Engine /\ NegotiationOf(p, eng[p], departures)
  BY Have
<1>2. eng[p].armed \in Nat
  BY <1>1 DEF Engine
<1> DEFINE n == eng[p].armed - 1
           e == [eng[p] EXCEPT !.armed = n]
<1>3. n \in Nat
  BY <1>2
<1>4. departures["stray"] = 0 => ~eng[p].due /\ n = 0 /\ eng[p].state \in Resending
  <2>1. departures["stray"] = 0 =>
          ~eng[p].due /\ eng[p].armed <= 1 /\ eng[p].state \in Resending
    BY <1>1, <1>2 DEF NegotiationOf, Timely
  <2> QED BY <1>2, <2>1
<1>5. [eng[p] EXCEPT !.armed = @ - 1] = e
  OBVIOUS
<1> HIDE DEF n
<1>6. /\ e \in Engine /\ e.armed = n /\ e.due = eng[p].due
      /\ e.state = eng[p].state /\ e.sentPacket = eng[p].sentPacket
      /\ e.started = eng[p].started /\ e.failed = eng[p].failed
      /\ e.version = eng[p].version /\ e.notSupp = eng[p].notSupp
      /\ e.key = eng[p].key /\ e.recv = eng[p].recv /\ e.send = eng[p].send
  BY <1>1, <1>3 DEF Engine
<1> HIDE DEF e
<1>7. departures["stray"] = 0 => ~e.due /\ e.armed = 0 /\ e.state \in Resending
  BY <1>4, <1>6
<1> QED BY <1>5, <1>6, <1>7 DEF n

(* A request leaves the list.                                              *)
LEMMA RequestGone ==
  ASSUME Inv, NEW p \in Devices, NEW f \in Engine,
         eng' = [eng EXCEPT ![p] = f], net' = net, conf' = conf,
         f.state = eng[p].state, f.sentPacket = eng[p].sentPacket,
         f.started = eng[p].started, f.failed = eng[p].failed, f.version = eng[p].version,
         f.key = eng[p].key, f.recv = eng[p].recv, f.send = eng[p].send,
         NEW kind \in Kinds, Departs(kind), Timely(f, departures')
  PROVE  Inv'
<1>1. TypeOK /\ KInv /\ NegotiationOf(p, eng[p], departures)
  BY Have DEF Inv
<1>2. KInv'
  BY <1>1, SameStep
<1>3. /\ departures' \in [Kinds -> Nat] /\ \A k \in Kinds : departures'[k] >= departures[k]
  BY DepartsType
<1>4. Explained(f, departures')
  <2>1. /\ departures["exhausted"] > 0 => departures'["exhausted"] > 0
        /\ departures["stray"] > 0 => departures'["stray"] > 0
    <3>1. departures \in [Kinds -> Nat] /\ "exhausted" \in Kinds /\ "stray" \in Kinds
      BY DEF Inv, TypeOK, Kinds
    <3>2. /\ departures'["exhausted"] >= departures["exhausted"]
          /\ departures'["stray"] >= departures["stray"]
          /\ departures["exhausted"] \in Nat /\ departures["stray"] \in Nat
          /\ departures'["exhausted"] \in Nat /\ departures'["stray"] \in Nat
      BY <1>3, <3>1
    <3> QED BY <3>2
  <2> QED BY <1>1, <2>1 DEF NegotiationOf, Explained
<1>5. NegotiationOf(p, f, departures')
  BY <1>1, <1>4 DEF NegotiationOf
<1> DEFINE packets == {}
<1>6. net' = net \union packets /\ \A m \in packets : m \in Packet /\ m.to = Other(p) /\ Said(p, m)
  OBVIOUS
<1> HIDE DEF packets
<1>7. TypeOK' /\ NInv'
  BY <1>3, <1>5, <1>6, NegotiationKeeps
<1> QED BY <1>2, <1>7 DEF Inv

LEMMA Timeout_Inv ==
  ASSUME Inv, NEW p \in Devices, Timeout(p)
  PROVE  Inv'
<1> DEFINE e == [eng[p] EXCEPT !.armed = @ - 1]
<1>1. eng[p].armed > 0 /\ eng[p].started # "switching" /\ TimerEvent(p, e)
  BY DEF Timeout
<1>2. TimerTaken(p, e)
  BY <1>1, Taken DEF TimerTaken
<1> HIDE DEF e
<1> QED BY <1>1, <1>2, Timer_Inv

LEMMA DropRequest_Inv ==
  ASSUME Inv, NEW p \in Devices, DropRequest(p)
  PROVE  Inv'
<1> DEFINE f == [eng[p] EXCEPT !.armed = @ - 1]
<1>1. /\ eng[p].armed > 0 /\ Departs("dropped") /\ net' = net /\ conf' = conf
      /\ eng' = [eng EXCEPT ![p] = f]
  BY DEF DropRequest
<1>2. /\ f \in Engine /\ f.state = eng[p].state /\ f.sentPacket = eng[p].sentPacket
      /\ f.started = eng[p].started /\ f.failed = eng[p].failed
      /\ f.version = eng[p].version
      /\ f.key = eng[p].key /\ f.recv = eng[p].recv /\ f.send = eng[p].send
      /\ departures["stray"] = 0 => ~f.due /\ f.armed = 0
  BY <1>1, Taken
<1> HIDE DEF f
<1>3. "dropped" \in Kinds /\ departures'["stray"] = departures["stray"]
  BY <1>1, DepartsType DEF Kinds
<1>4. Timely(f, departures')
  <2>1. departures'["stray"] = 0 => ~f.due /\ f.armed = 0
    BY <1>2, <1>3
  <2> QED BY <2>1 DEF Timely
<1> QED BY <1>1, <1>2, <1>3, <1>4, RequestGone

LEMMA TakeRequest_Inv ==
  ASSUME Inv, NEW p \in Devices, TakeRequest(p)
  PROVE  Inv'
<1> DEFINE e == [eng[p] EXCEPT !.armed = @ - 1]
           f == [e EXCEPT !.due = TRUE]
<1>1. /\ eng[p].armed > 0 /\ Departs("stray") /\ net' = net /\ conf' = conf
      /\ eng' = [eng EXCEPT ![p] = f]
  BY DEF TakeRequest
<1>2. /\ e \in Engine /\ e.state = eng[p].state /\ e.sentPacket = eng[p].sentPacket
      /\ e.started = eng[p].started /\ e.failed = eng[p].failed
      /\ e.version = eng[p].version
      /\ e.key = eng[p].key /\ e.recv = eng[p].recv /\ e.send = eng[p].send
  BY <1>1, Taken
<1> HIDE DEF e
<1>3. /\ f \in Engine /\ f.state = e.state /\ f.sentPacket = e.sentPacket
      /\ f.started = e.started /\ f.failed = e.failed
      /\ f.version = e.version
      /\ f.key = e.key /\ f.recv = e.recv /\ f.send = e.send
  BY <1>2 DEF Engine
<1> HIDE DEF f
<1>4. "stray" \in Kinds /\ departures'["stray"] > 0
  BY <1>1, DepartsType DEF Kinds
<1>5. Timely(f, departures')
  BY <1>4 DEF Timely
<1> QED BY <1>1, <1>2, <1>3, <1>4, <1>5, RequestGone

LEMMA CallTimeout_Inv ==
  ASSUME Inv, NEW p \in Devices, CallTimeout(p)
  PROVE  Inv'
<1> DEFINE e == [eng[p] EXCEPT !.due = FALSE]
<1>1. eng[p].due /\ eng[p].started # "switching" /\ TimerEvent(p, e)
  BY DEF CallTimeout
<1>2. eng[p] \in Engine /\ NegotiationOf(p, eng[p], departures)
  BY Have
<1>3. departures["stray"] # 0
  BY <1>1, <1>2 DEF NegotiationOf, Timely
<1>4. TimerTaken(p, e)
  BY <1>1, <1>2, <1>3 DEF TimerTaken, Engine
<1> HIDE DEF e
<1> QED BY <1>1, <1>4, Timer_Inv

LEMMA Lose_Inv ==
  ASSUME Inv, NEW m \in net, Lose(m)
  PROVE  Inv'
<1>1. net' \subseteq net /\ conf' = conf /\ eng' = eng /\ departures' = departures
  BY DEF Lose
<1>2. TypeOK' /\ KInv'
  BY <1>1 DEF Inv, TypeOK, KInv
<1>3. NInv'
  BY <1>1 DEF Inv, NInv, NegotiationOf, Offered, Said, Explained, Compatible
<1> QED BY <1>2, <1>3 DEF Inv

LEMMA Init_Inv ==
  ASSUME Init, ZrtpAssumption
  PROVE  Inv
<1>1. \A q \in Devices : conf.versions[q] \in (SUBSET {1, 2}) \ {{}}
  BY ZrtpAssumption DEF Init, Configs, Devices
<1>2. \A p \in Devices : /\ Highest(conf.versions[p]) \in conf.versions[p]
                         /\ 2 \in conf.versions[p] => Highest(conf.versions[p]) = 2
                         /\ Highest(conf.versions[p]) \in {1, 2}
  BY <1>1, Highests
<1>3. ASSUME NEW p \in Devices
      PROVE  /\ eng[p] \in Engine /\ EngineInv(p, eng[p])
             /\ NegotiationOf(p, eng[p], departures)
             /\ eng[p].send = 0 /\ eng[p].started = "no"
  <2> DEFINE v == Highest(conf.versions[p])
             e == NewEngine(p)
  <2>1. v \in {1, 2} /\ v \in conf.versions[p] /\ (2 \in conf.versions[p] => v = 2)
    BY <1>2
  <2>2. eng[p] = e
    BY DEF Init
  <2>3. e = [started |-> "no", state |-> "Initial", sentPacket |-> NoPacket,
             version |-> v, armed |-> 0, due |-> FALSE, key |-> 0, recv |-> 0, send |-> 0,
             failed |-> "", notSupp |-> FALSE]
    BY DEF NewEngine
  <2> HIDE DEF v, e
  <2>4. e \in Engine
    <3>1. "Initial" \in States /\ NoPacket \in Packet \union {NoPacket} /\ 0 \in 0 .. 2
      BY DEF States
    <3> QED BY <2>1, <2>3, <3>1 DEF Engine
  <2>5. /\ e.started = "no" /\ e.state = "Initial" /\ e.sentPacket = NoPacket
        /\ e.version = v /\ e.armed = 0 /\ e.due = FALSE /\ e.recv = 0 /\ e.send = 0
        /\ e.failed = ""
    BY <2>3
  <2>6. EngineInv(p, e)
    BY <2>5 DEF EngineInv, GoneEngine, KeysOf, Repeating, Resending
  <2>7. Offered(p, v)
    BY <2>1 DEF Offered
  <2>8. Explained(e, departures)
    BY <2>5 DEF Explained
  <2>9. Timely(e, departures)
    <3>1. ~e.due
      BY <2>5
    <3>2. e.armed = 0
      BY <2>5
    <3>3. e.armed <= 1
      BY <3>2
    <3> QED BY <3>1, <3>2, <3>3 DEF Timely
  <2>10. NegotiationOf(p, e, departures)
    BY <2>5, <2>7, <2>8, <2>9 DEF NegotiationOf
  <2> QED BY <2>2, <2>4, <2>5, <2>6, <2>10
<1>4. eng \in [Devices -> Engine]
  BY <1>3 DEF Init
<1>5. TypeOK
  BY <1>4 DEF Init, TypeOK
<1>6. KInv /\ NInv
  BY <1>3 DEF Init, KInv, NInv, PeerReady, Devices, Other
<1> QED BY <1>5, <1>6 DEF Inv

LEMMA Next_Inv ==
  ASSUME Inv, ZrtpAssumption, [Next]_vars
  PROVE  Inv'
<1>1. ASSUME NEW p \in Devices, Advance(p)
      PROVE  Inv'
  <2>1. CASE DetectHelloAck(p)
    BY <2>1, DetectHelloAck_Inv
  <2>2. CASE DetectLowerHello(p)
    BY <2>2, DetectLowerHello_Inv
  <2>3. CASE DetectHello(p)
    BY <2>3, DetectHello_Inv
  <2>4. CASE AckDetectedHello(p)
    BY <2>4, AckDetectedHello_Inv
  <2>5. CASE AckSentHelloAck(p)
    BY <2>5, AckSentHelloAck_Inv
  <2>6. CASE ReceiveCommit(p) \/ CommitClash(p)
    BY <2>6, ReceiveCommit_Inv
  <2>7. CASE ReceiveDHPart1(p)
    BY <2>7, ReceiveDHPart1_Inv
  <2>8. CASE ReceiveDHPart2(p)
    BY <2>8, ReceiveDHPart2_Inv
  <2>9. CASE ReceiveConfirm1(p)
    BY <2>9, ReceiveConfirm1_Inv
  <2>10. CASE ReceiveConfirm2(p)
    BY <2>10, ReceiveConfirm2_Inv
  <2>11. CASE ReceiveConf2Ack(p)
    BY <2>11, ReceiveConf2Ack_Inv
  <2>12. CASE ReceiveError(p)
    BY <2>12, ReceiveError_Inv
  <2>13. CASE ReceiveErrorAck(p)
    BY <2>13, ErrorAck_Inv
  <2> QED BY <1>1, <2>1, <2>2, <2>3, <2>4, <2>5, <2>6, <2>7, <2>8, <2>9, <2>10, <2>11,
             <2>12, <2>13 DEF Advance
<1>2. ASSUME NEW p \in Devices, Repeat(p)
      PROVE  Inv'
  <2>1. CASE AckSentHello(p)
    BY <2>1, AckSentHello_Inv
  <2>2. CASE WaitCommitHello(p)
    BY <2>2, WaitCommitHello_Inv
  <2>3. CASE RepeatedCommit(p)
    BY <2>3, RepeatedCommit_Inv
  <2>4. CASE RepeatedDHPart2(p)
    BY <2>4, RepeatedDHPart2_Inv
  <2>5. CASE RepeatedConfirm2(p)
    BY <2>5, RepeatedConfirm2_Inv
  <2> QED BY <1>2, <2>1, <2>2, <2>3, <2>4, <2>5 DEF Repeat
<1>3. ASSUME NEW p \in Devices,
             \/ Start(p) \/ Stop(p) \/ DetectHigherHello(p) \/ CommitKept(p) \/ ReceiveMedia(p)
             \/ Switch(p)
             \/ Timeout(p) \/ DropRequest(p) \/ TakeRequest(p) \/ CallTimeout(p)
      PROVE  Inv'
  <2>1. CASE Start(p)
    BY <2>1, Start_Inv
  <2>2. CASE Stop(p)
    BY <2>2, Stop_Inv
  <2>3. CASE DetectHigherHello(p)
    BY <2>3, DetectHigherHello_Inv
  <2>4. CASE CommitKept(p)
    BY <2>4, CommitKept_Inv
  <2>5. CASE ReceiveMedia(p)
    BY <2>5, ReceiveMedia_Inv
  <2>6. CASE Timeout(p)
    BY <2>6, Timeout_Inv
  <2>7. CASE DropRequest(p)
    BY <2>7, DropRequest_Inv
  <2>8. CASE TakeRequest(p)
    BY <2>8, TakeRequest_Inv
  <2>9. CASE CallTimeout(p)
    BY <2>9, CallTimeout_Inv
  <2>10. CASE Switch(p)
    BY <2>10, SwitchReceiver_Inv, SwitchBoth_Inv DEF Switch
  <2> QED BY <1>3, <2>1, <2>2, <2>3, <2>4, <2>5, <2>6, <2>7, <2>8, <2>9, <2>10
<1>4. ASSUME NEW m \in net, Lose(m)
      PROVE  Inv'
  BY <1>4, Lose_Inv
<1>5. CASE UNCHANGED vars
  <2>1. conf' = conf /\ eng' = eng /\ net' = net /\ departures' = departures
    BY <1>5 DEF vars
  <2>2. TypeOK' /\ KInv'
    BY <2>1 DEF Inv, TypeOK, KInv
  <2>3. NInv'
    BY <2>1 DEF Inv, NInv, NegotiationOf, Offered, Said, Explained, Compatible
  <2> QED BY <2>2, <2>3 DEF Inv
<1> QED BY <1>1, <1>2, <1>3, <1>4, <1>5 DEF Next

LEMMA SpecInv == Spec => []Inv
<1>1. Init => Inv
  BY Init_Inv, ZrtpAssumption
<1>2. Inv /\ [Next]_vars => Inv'
  BY Next_Inv, ZrtpAssumption
<1> QED BY <1>1, <1>2, PTL DEF Spec

(* conf, the engines, the packets and the departures have their types.     *)
THEOREM TypeCorrect == Spec => []TypeOK
<1>1. Inv => TypeOK
  BY DEF Inv
<1> QED BY <1>1, SpecInv, PTL

(* A device that sends SRTP and a peer that receives it use the keys of    *)
(* the same Commit, one as the initiator and one as the responder.         *)
THEOREM KeysAgreed == Spec => []KeysAgree
<1>1. Inv => KeysAgree
  <2> SUFFICES ASSUME Inv, NEW p \in Devices, eng[p].send # 0, eng[Other(p)].recv # 0
               PROVE  eng[p].send = eng[Other(p)].recv
    BY DEF KeysAgree
  <2>1. /\ eng[p] \in Engine /\ EngineInv(Other(p), eng[Other(p)])
        /\ PeerReady(p, eng[p], eng[Other(p)]) /\ Other(Other(p)) = p
    BY Two DEF Inv, TypeOK, KInv
  <2>2. eng[p].send \in {p, Other(p)}
    BY <2>1, KeyOwner, Two DEF Engine
  <2>3. /\ ~GoneEngine(eng[Other(p)])
        /\ eng[Other(p)].state # "WaitConfirm2"
        /\ ~(eng[Other(p)].state = "WaitConfAck" /\ eng[Other(p)].started = "switching")
    BY <2>1 DEF EngineInv, KeysOf
  <2> QED BY <2>1, <2>2, <2>3 DEF PeerReady, InitiatorReady, ResponderReady
<1> QED BY <1>1, SpecInv, PTL

(* A device sends SRTP only when the other one is ready to receive it, is  *)
(* inside the call that makes it ready, has been stopped or has given up.  *)
THEOREM SendersHeard == Spec => []SenderHeard
<1>1. Inv => SenderHeard
  <2> SUFFICES ASSUME Inv, NEW p \in Devices, eng[p].send # 0,
                      ~GoneEngine(eng[Other(p)])
               PROVE  eng[Other(p)].recv # 0 \/ eng[Other(p)].started = "switching"
    BY DEF SenderHeard, GoneEngine
  <2>1. /\ eng[p] \in Engine /\ PeerReady(p, eng[p], eng[Other(p)])
    BY DEF Inv, TypeOK, KInv
  <2>2. eng[p].send \in {p, Other(p)} /\ p # 0 /\ Other(p) # 0 /\ Other(Other(p)) = p
    BY <2>1, KeyOwner, Two DEF Engine
  <2> QED BY <2>1, <2>2 DEF PeerReady, InitiatorReady, ResponderReady
<1> QED BY <1>1, SpecInv, PTL

(* A negotiation fails for want of a common version, of retries, or by a   *)
(* timer that comes after its cancellation.                                *)
THEOREM FailuresExplained == Spec => []FailureExplained
<1>1. Inv => FailureExplained
  BY DEF Inv, NInv, NegotiationOf, Explained, FailureExplained
<1> QED BY <1>1, SpecInv, PTL
-----------------------------------------------------------------------------
(* Who resends.  While no engine is stopped or has given up and no request *)
(* is lost, the device that waits without a timer has a peer with one.     *)

Early == {"Detect", "AckSent", "AckDetected", "WaitCommit"}

(* The initiator, or one whose Error is not acknowledged yet.              *)
Leading == {"CommitSent", "WaitConfirm1", "WaitConfAck", "WaitErrorAck"}

Responding == {"WaitDHPart2", "WaitConfirm2"}

(* The packet that an engine sends again in each state.                    *)
Memory(e) ==
  /\ e.state \in {"Detect", "AckSent"} => e.sentPacket.type = "Hello"
  /\ e.state = "WaitCommit" => e.sentPacket.type = "HelloAck"
  /\ e.state = "CommitSent" => e.sentPacket.type = "Commit"
  /\ e.state = "WaitDHPart2" => e.sentPacket.type = "DHPart1"
  /\ e.state = "WaitConfirm1" => e.sentPacket.type = "DHPart2"
  /\ e.state = "WaitConfirm2" =>
       e.sentPacket.type = IF e.started = "switching" THEN "Conf2Ack" ELSE "Confirm1"
  /\ e.state = "WaitConfAck" => e.sentPacket.type = "Confirm2"
  /\ e.state = "WaitErrorAck" => e.sentPacket.type = "Error"
  /\ e.state = "SecureState" => e.sentPacket.type \in {"none", "Conf2Ack"}
  /\ e.failed = "retries" => e.state = "Initial"

(* An engine in a state that resends has a timer.                          *)
Ticks(e) == e.state \in Resending => e.armed > 0 \/ e.due

(* The engine was stopped or has given up.                                 *)
Lapsed(e) == e.started = "stopped" \/ e.notSupp \/ e.failed = "retries"

Regular == departures["dropped"] = 0 /\ \A p \in Devices : ~Lapsed(eng[p])

(* What the state of engine e says about its peer's engine f.              *)
Waits(e, f) ==
  /\ e.state \in {"AckDetected", "WaitCommit"} => f.state \in Resending \ {"Detect"}
  /\ e.state \in Responding => f.state \in Leading \/ e.started = "switching"
  /\ e.state = "Detect" => f.started = "no" \/ f.state \notin {"Initial", "SecureState"}
  /\ e.state = "Detect" => f.started # "switching"
  /\ e.started = "no" => f.started = "no" \/ f.state = "Detect"

(* What packet m of device p, with engine e and a peer with engine f, says *)
(* about them.  Whose Commit may yet be answered is the initiator.         *)
Tells(p, e, f, m) ==
  /\ e.started # "no"
  /\ m.type # "Hello" => e.state # "Detect"
  /\ m.type \notin {"Hello", "HelloAck"} => e.state \notin Early
  /\ m.type = "Error" => e.state \in {"Initial", "WaitErrorAck"}
  /\ m.type = "ErrorAck" => e.state \in {"Initial", "SecureState"}
  /\ m.type = "Commit" =>
       /\ e.state \in Responding => OwnHviLess(p)
       /\ f.state \in Early \/ (f.state = "CommitSent" /\ ~OwnHviLess(p))
          => e.state \in Leading

RolesOf(p, e, f) ==
  Ticks(e) /\ Waits(e, f) /\ \A m \in net : m.to = Other(p) => Tells(p, e, f, m)

Roles ==
  /\ \A p \in Devices : Memory(eng[p])
  /\ Regular => \A p \in Devices : RolesOf(p, eng[p], eng[Other(p)])

RInv == Inv /\ Roles

(* Exactly one of the devices gives way.                                   *)
LEMMA OneGivesWay ==
  ASSUME NEW p \in Devices
  PROVE  OwnHviLess(Other(p)) <=> ~OwnHviLess(p)
<1>1. p = 1 \/ p = 2
  BY DEF Devices
<1>2. CASE p = 1
  BY <1>2 DEF OwnHviLess, Other
<1>3. CASE p = 2
  BY <1>3 DEF OwnHviLess, Other
<1> QED BY <1>1, <1>2, <1>3

(* What p knows, in a behaviour without lapses.                            *)
LEMMA Known ==
  ASSUME RInv, Regular, NEW p \in Devices
  PROVE  LET e == eng[p]
             g == eng[Other(p)]
         IN /\ e \in Engine /\ g \in Engine
            /\ EngineInv(p, e) /\ EngineInv(Other(p), g)
            /\ Ticks(e) /\ Waits(e, g) /\ Waits(g, e)
            /\ \A m \in net : m.to = Other(p) => Tells(p, e, g, m)
            /\ \A m \in net : m.to = p => Tells(Other(p), g, e, m)
            /\ \A type : \A m \in Got(p, type) :
                 m.type = type /\ Tells(Other(p), g, e, m)
<1>1. Other(p) \in Devices /\ Other(Other(p)) = p
  BY Two
<1>2. RolesOf(p, eng[p], eng[Other(p)]) /\ RolesOf(Other(p), eng[Other(p)], eng[p])
  BY <1>1 DEF RInv, Roles
<1>3. eng[p] \in Engine /\ eng[Other(p)] \in Engine
      /\ EngineInv(p, eng[p]) /\ EngineInv(Other(p), eng[Other(p)])
  BY <1>1, Have DEF RInv
<1> QED BY <1>1, <1>2, <1>3 DEF RolesOf, Got

(* A step of one engine.                                                   *)
LEMMA RolesKeep ==
  ASSUME RInv, NEW p \in Devices, NEW f \in Engine, NEW packets,
         eng' = [eng EXCEPT ![p] = f], net' \subseteq net \union packets,
         departures'["dropped"] = 0 => departures["dropped"] = 0,
         \A m \in packets : m.to = Other(p),
         Lapsed(eng[p]) => Lapsed(f), Memory(f),
         LET g == eng[Other(p)]
         IN Regular /\ departures'["dropped"] = 0 /\ ~Lapsed(f) =>
              /\ Ticks(f) /\ Waits(f, g) /\ Waits(g, f)
              /\ \A m \in net : m.to = Other(p) => Tells(p, f, g, m)
              /\ \A m \in packets : Tells(p, f, g, m)
              /\ \A m \in net : m.to = p => Tells(Other(p), g, f, m)
  PROVE  Roles'
<1> DEFINE q == Other(p)
           g == eng[q]
<1>1. /\ q \in Devices /\ q # p /\ Other(q) = p
      /\ eng'[p] = f /\ eng'[q] = g
  BY Two DEF RInv, Inv, TypeOK
<1>2. \A r \in Devices : r = p \/ r = q
  BY Two
<1>3. \A r \in Devices : Memory(eng'[r])
  BY <1>1, <1>2 DEF RInv, Roles
<1>4. ASSUME Regular'
      PROVE  \A r \in Devices : RolesOf(r, eng[r], eng[Other(r)])'
  <2>1. departures'["dropped"] = 0 /\ ~Lapsed(f) /\ Regular
    BY <1>1, <1>2, <1>4 DEF Regular
  <2>2. /\ Ticks(f) /\ Waits(f, g) /\ Waits(g, f)
        /\ \A m \in net : m.to = q => Tells(p, f, g, m)
        /\ \A m \in packets : Tells(p, f, g, m)
        /\ \A m \in net : m.to = p => Tells(q, g, f, m)
    BY <2>1
  <2>3. Ticks(g)
    BY <1>1, <2>1, Known DEF RInv
  <2>4. RolesOf(p, eng[p], eng[q])'
    BY <1>1, <2>2 DEF RolesOf
  <2>5. RolesOf(q, eng[q], eng[p])'
    <3>1. \A m \in net' : m.to = p => m \in net
      BY <1>1
    <3> QED BY <1>1, <2>2, <2>3, <3>1 DEF RolesOf
  <2> QED BY <1>1, <1>2, <2>4, <2>5
<1> QED BY <1>3, <1>4 DEF Roles

(* The engine lapses, or a request is lost.                                *)
LEMMA LapseKeeps ==
  ASSUME RInv, NEW p \in Devices, NEW f \in Engine, NEW packets,
         eng' = [eng EXCEPT ![p] = f], net' \subseteq net \union packets,
         departures'["dropped"] = 0 => departures["dropped"] = 0,
         \A m \in packets : m.to = Other(p),
         Lapsed(eng[p]) => Lapsed(f), Memory(f),
         Lapsed(f) \/ departures'["dropped"] # 0
  PROVE  Roles'
  BY RolesKeep

(* From state s to state t: no device goes back to the discovery, and none *)
(* leaves the end of a negotiation.                                        *)
Onward(s, t) ==
  /\ t = "Detect" => s = "Detect"
  /\ t \in Early => s \in Early
  /\ t = "CommitSent" => s \in Early \union {"CommitSent"}
  /\ s \in {"Initial", "SecureState"} => t = s
  /\ s = "WaitErrorAck" => t \in {"WaitErrorAck", "Initial"}

(* Device p goes from engine e to f while its peer's engine is g.          *)
Progress(p, e, f, g) ==
  /\ e.started # "no" /\ f.started # "no" /\ Onward(e.state, f.state)
  /\ e.state \in Leading /\ f.state \notin Leading =>
       g.state \notin Early /\ (g.state = "CommitSent" => OwnHviLess(p))
  /\ f.state \in Responding => e.state \in Responding \union Early \/ OwnHviLess(p)

LEMMA ProgressTells ==
  ASSUME NEW p \in Devices, NEW e, NEW f, NEW g, NEW m, Progress(p, e, f, g)
  PROVE  /\ Tells(p, e, g, m) => Tells(p, f, g, m)
         /\ Tells(Other(p), g, e, m) => Tells(Other(p), g, f, m)
<1>1. ASSUME Tells(p, e, g, m) PROVE Tells(p, f, g, m)
  BY <1>1 DEF Tells, Progress, Onward, Early, Responding
<1>2. ASSUME Tells(Other(p), g, e, m) PROVE Tells(Other(p), g, f, m)
  BY <1>2 DEF Tells, Progress, Onward, Early
<1> QED BY <1>1, <1>2

(* The steps that lapse in no way.                                         *)
LEMMA ProgressKeeps ==
  ASSUME RInv, NEW p \in Devices, NEW f \in Engine, NEW packets,
         eng' = [eng EXCEPT ![p] = f], net' \subseteq net \union packets,
         departures'["dropped"] = 0 => departures["dropped"] = 0,
         \A m \in packets : m.to = Other(p),
         Lapsed(eng[p]) => Lapsed(f), Memory(f),
         LET g == eng[Other(p)]
         IN Regular =>
              /\ Ticks(f) /\ Waits(f, g) /\ Waits(g, f) /\ Progress(p, eng[p], f, g)
              /\ \A m \in packets : Tells(p, f, g, m)
  PROVE  Roles'
<1> DEFINE g == eng[Other(p)]
<1>1. ASSUME Regular
      PROVE  /\ \A m \in net : m.to = Other(p) => Tells(p, f, g, m)
             /\ \A m \in net : m.to = p => Tells(Other(p), g, f, m)
  BY <1>1, Known, ProgressTells
<1> QED BY <1>1, RolesKeep

(* The engine stays in its state.                                          *)
LEMMA SameKeeps ==
  ASSUME RInv, NEW p \in Devices, NEW f \in Engine, NEW packets,
         eng' = [eng EXCEPT ![p] = f], net' \subseteq net \union packets,
         departures'["dropped"] = 0 => departures["dropped"] = 0,
         f.state = eng[p].state, f.sentPacket.type = eng[p].sentPacket.type,
         f.started = eng[p].started, f.failed = eng[p].failed, f.notSupp = eng[p].notSupp,
         \A m \in packets : m.to = Other(p),
         Regular => Ticks(f) /\ \A m \in packets : Tells(p, f, eng[Other(p)], m)
  PROVE  Roles'
<1> DEFINE g == eng[Other(p)]
<1>1. Memory(f) /\ (Lapsed(eng[p]) => Lapsed(f))
  BY DEF RInv, Roles, Memory, Lapsed
<1>2. ASSUME Regular
      PROVE  /\ Waits(f, g) /\ Waits(g, f)
             /\ \A m \in net : m.to = Other(p) => Tells(p, f, g, m)
             /\ \A m \in net : m.to = p => Tells(Other(p), g, f, m)
  <2>1. /\ Waits(eng[p], g) /\ Waits(g, eng[p])
        /\ \A m \in net : m.to = Other(p) => Tells(p, eng[p], g, m)
        /\ \A m \in net : m.to = p => Tells(Other(p), g, eng[p], m)
    BY <1>2, Known
  <2> QED BY <2>1 DEF Waits, Tells
<1> QED BY <1>1, <1>2, RolesKeep

(* A packet takes a device from one state to another one.                  *)
LEMMA MoveKeeps ==
  ASSUME RInv, NEW p \in Devices, NEW f \in Engine, NEW packets, Step(p, f, packets),
         \A m \in packets : m.to = Other(p),
         eng[p].state # "Initial", eng[p].started = "stopped" => f.started = "stopped",
         f.notSupp = eng[p].notSupp,
         Memory(f),
         LET g == eng[Other(p)]
         IN Regular =>
              /\ Ticks(f) /\ Waits(f, g) /\ Waits(g, f) /\ Progress(p, eng[p], f, g)
              /\ \A m \in packets : Tells(p, f, g, m)
  PROVE  Roles'
<1>1. Lapsed(eng[p]) => Lapsed(f)
  BY DEF Lapsed, RInv, Roles, Memory
<1>2. eng' = [eng EXCEPT ![p] = f] /\ net' \subseteq net \union packets
      /\ departures' = departures
  BY DEF Step
<1> QED BY <1>1, <1>2, ProgressKeeps

LEMMA DetectHelloAck_Roles ==
  ASSUME RInv, NEW p \in Devices, DetectHelloAck(p)
  PROVE  Roles'
<1> DEFINE f == Goto(CancelTimer(eng[p]), "AckDetected", NoPacket)
           g == eng[Other(p)]
<1>1. Receives(p, {"Detect"}, "HelloAck") /\ Step(p, f, {})
  BY DEF DetectHelloAck
<1>2. eng[p] \in Engine /\ "AckDetected" \in States /\ NoPacket \in Packet \union {NoPacket}
  BY Have DEF RInv, States
<1>3. /\ f \in Engine /\ f.state = "AckDetected"
      /\ f.started = eng[p].started /\ f.notSupp = eng[p].notSupp /\ f.failed = eng[p].failed
  BY <1>2, ResetFields
<1> HIDE DEF f
<1>4. eng[p].started = "yes" /\ eng[p].state = "Detect"
  BY <1>1 DEF Receives
<1>5. Memory(f)
  BY <1>3, <1>4 DEF Memory, RInv, Roles
<1>6. ASSUME Regular
      PROVE  Ticks(f) /\ Waits(f, g) /\ Waits(g, f) /\ Progress(p, eng[p], f, g)
  <2>1. g.started # "no" /\ g.state # "Detect" /\ Waits(eng[p], g) /\ Waits(g, eng[p])
    BY <1>1, <1>6, Known DEF Receives, Tells
  <2>2. g.state \in {"AckSent", "CommitSent", "WaitConfirm1", "WaitConfAck", "WaitErrorAck"}
    BY <1>4, <1>6, <2>1, Known DEF Waits, Resending, Responding, Leading, Engine, States
  <2>3. Waits(f, g) /\ Waits(g, f)
    BY <1>3, <2>1, <2>2 DEF Waits, Resending, Responding
  <2> QED BY <1>3, <1>4, <2>3 DEF Ticks, Resending, Progress, Onward, Early, Leading, Responding
<1> QED BY <1>1, <1>3, <1>4, <1>5, <1>6, MoveKeeps

(* The timer is set anew.                                                  *)
LEMMA RestartRoles ==
  ASSUME RInv, NEW p \in Devices, Step(p, StartTimer(CancelTimer(eng[p])), {})
  PROVE  Roles'
<1> DEFINE f == StartTimer(CancelTimer(eng[p]))
           packets == {}
<1>1. eng[p] \in Engine
  BY Have DEF RInv
<1>2. /\ f \in Engine /\ f.armed = 1 /\ f.state = eng[p].state
      /\ f.sentPacket = eng[p].sentPacket /\ f.started = eng[p].started
      /\ f.failed = eng[p].failed /\ f.notSupp = eng[p].notSupp
  BY <1>1, RestartFields
<1>3. eng' = [eng EXCEPT ![p] = f] /\ net' \subseteq net \union packets
      /\ departures' = departures
  BY DEF Step
<1> HIDE DEF f
<1>4. Ticks(f) /\ \A m \in packets : m.to = Other(p) /\ Tells(p, f, eng[Other(p)], m)
  BY <1>2 DEF Ticks
<1> HIDE DEF packets
<1> QED BY <1>2, <1>3, <1>4, SameKeeps

LEMMA DetectHello_Roles ==
  ASSUME RInv, NEW p \in Devices, DetectHello(p)
  PROVE  Roles'
<1> DEFINE r == StartTimer(CancelTimer(eng[p]))
           f == [r EXCEPT !.state = "AckSent"]
           g == eng[Other(p)]
<1>1. Receives(p, {"Detect"}, "Hello") /\ Step(p, f, {HelloAck(p)})
  BY DEF DetectHello
<1>2. eng[p] \in Engine
  BY Have DEF RInv
<1>3. /\ r \in Engine /\ r.armed = 1 /\ r.sentPacket = eng[p].sentPacket
      /\ r.started = eng[p].started /\ r.failed = eng[p].failed /\ r.notSupp = eng[p].notSupp
  BY <1>2, RestartFields
<1> HIDE DEF r
<1>4. /\ f \in Engine /\ f.armed = 1 /\ f.state = "AckSent" /\ f.sentPacket = eng[p].sentPacket
      /\ f.started = eng[p].started /\ f.failed = eng[p].failed /\ f.notSupp = eng[p].notSupp
  BY <1>3 DEF Engine, States
<1> HIDE DEF f
<1>5. eng[p].started = "yes" /\ eng[p].state = "Detect"
  BY <1>1 DEF Receives
<1>6. Memory(f)
  BY <1>4, <1>5 DEF Memory, RInv, Roles
<1>7. HelloAck(p).to = Other(p) /\ HelloAck(p).type = "HelloAck"
  BY ToType DEF HelloAck, Types
<1>8. ASSUME Regular
      PROVE  /\ Ticks(f) /\ Waits(f, g) /\ Waits(g, f) /\ Progress(p, eng[p], f, g)
             /\ Tells(p, f, g, HelloAck(p))
  <2>1. g.started # "no" /\ Waits(g, eng[p])
    BY <1>1, <1>8, Known DEF Receives, Tells
  <2>2. Waits(f, g) /\ Waits(g, f)
    BY <1>4, <1>5, <2>1 DEF Waits, Resending, Responding, Leading
  <2> QED BY <1>4, <1>5, <1>7, <2>2
          DEF Ticks, Tells, Progress, Onward, Early, Leading, Responding
<1> QED BY <1>1, <1>4, <1>5, <1>6, <1>7, <1>8, MoveKeeps

(* A packet is answered without a change of the engine.                    *)
LEMMA RepeatRoles ==
  ASSUME RInv, NEW p \in Devices, NEW packet, Step(p, eng[p], {packet}),
         packet.to = Other(p), Regular => Tells(p, eng[p], eng[Other(p)], packet)
  PROVE  Roles'
<1> DEFINE packets == {packet}
           f == eng[p]
<1>1. f \in Engine /\ (Regular => Ticks(f))
  BY Have, Known DEF RInv
<1>2. eng' = [eng EXCEPT ![p] = f] /\ net' \subseteq net \union packets
      /\ departures' = departures
  BY DEF Step
<1>3. \A m \in packets : m.to = Other(p) /\ (Regular => Tells(p, f, eng[Other(p)], m))
  OBVIOUS
<1>4. /\ f.state = eng[p].state /\ f.sentPacket.type = eng[p].sentPacket.type
      /\ f.started = eng[p].started /\ f.failed = eng[p].failed /\ f.notSupp = eng[p].notSupp
  OBVIOUS
<1> HIDE DEF packets, f
<1> QED BY <1>1, <1>2, <1>3, <1>4, SameKeeps

(* What an engine remembers may be sent again.                             *)
LEMMA MayRepeat ==
  ASSUME RInv, NEW p \in Devices, eng[p].started # "no",
         eng[p].state \in Repeating \/ (eng[p].state = "SecureState" /\ eng[p].sentPacket # NoPacket)
  PROVE  LET packet == eng[p].sentPacket
         IN packet.to = Other(p) /\ (Regular => Tells(p, eng[p], eng[Other(p)], packet))
<1>1. Memory(eng[p]) /\ EngineInv(p, eng[p]) /\ eng[p] \in Engine
  BY Have DEF RInv, Roles
<1>2. eng[p].sentPacket.to = Other(p)
  BY <1>1, NoPacketType DEF EngineInv, SentBy
<1>3. eng[p].sentPacket \in Packet
  BY <1>1 DEF EngineInv, Engine
<1>4. eng[p].sentPacket.type # "none"
  BY <1>3 DEF Packet, Types
<1>5. Tells(p, eng[p], eng[Other(p)], eng[p].sentPacket)
  BY <1>1, <1>4 DEF Tells, Memory, Repeating, Resending, Early, Leading, Responding
<1> QED BY <1>2, <1>5

LEMMA Repeat_Roles ==
  ASSUME RInv, NEW p \in Devices, Repeat(p)
  PROVE  Roles'
<1>1. CASE AckSentHello(p)
  <2>1. HelloAck(p).to = Other(p) /\ HelloAck(p).type = "HelloAck"
    BY ToType DEF HelloAck, Types
  <2>2. Tells(p, eng[p], eng[Other(p)], HelloAck(p))
    BY <1>1, <2>1 DEF AckSentHello, Receives, Tells
  <2> QED BY <1>1, <2>1, <2>2, RepeatRoles DEF AckSentHello
<1>2. CASE WaitCommitHello(p) \/ RepeatedCommit(p) \/ RepeatedDHPart2(p) \/ RepeatedConfirm2(p)
  <2>1. /\ eng[p].started = "yes" /\ Step(p, eng[p], {eng[p].sentPacket})
        /\ \/ eng[p].state \in {"WaitCommit", "WaitDHPart2", "WaitConfirm2"}
           \/ eng[p].state = "SecureState" /\ eng[p].sentPacket # NoPacket
    BY <1>2 DEF WaitCommitHello, RepeatedCommit, RepeatedDHPart2, RepeatedConfirm2, Receives
  <2> QED BY <2>1, MayRepeat, RepeatRoles DEF Repeating
<1> QED BY <1>1, <1>2 DEF Repeat

LEMMA AckDetectedHello_Roles ==
  ASSUME RInv, NEW p \in Devices, AckDetectedHello(p)
  PROVE  Roles'
<1> DEFINE f == Goto(eng[p], "WaitCommit", HelloAck(p))
           g == eng[Other(p)]
<1>1. eng[p].started = "yes" /\ eng[p].state = "AckDetected" /\ Step(p, f, {HelloAck(p)})
  BY DEF AckDetectedHello, Receives
<1>2. /\ HelloAck(p) \in Packet /\ HelloAck(p).to = Other(p) /\ HelloAck(p).type = "HelloAck"
  BY ToType DEF HelloAck, Types
<1>3. eng[p] \in Engine /\ "WaitCommit" \in States /\ HelloAck(p) \in Packet \union {NoPacket}
  BY <1>2, Have DEF RInv, States
<1>4. /\ f \in Engine /\ f.state = "WaitCommit" /\ f.sentPacket = HelloAck(p)
      /\ f.started = eng[p].started /\ f.failed = eng[p].failed /\ f.notSupp = eng[p].notSupp
  BY <1>3, GotoFields
<1> HIDE DEF f
<1>5. Memory(f)
  BY <1>1, <1>2, <1>4 DEF Memory, RInv, Roles
<1>6. ASSUME Regular
      PROVE  /\ Ticks(f) /\ Waits(f, g) /\ Waits(g, f) /\ Progress(p, eng[p], f, g)
             /\ Tells(p, f, g, HelloAck(p))
  <2>1. Waits(eng[p], g) /\ Waits(g, eng[p])
    BY <1>6, Known
  <2>2. Waits(f, g) /\ Waits(g, f)
    BY <1>1, <1>4, <2>1 DEF Waits, Resending, Responding, Leading
  <2> QED BY <1>1, <1>2, <1>4, <2>2
          DEF Ticks, Resending, Tells, Progress, Onward, Early, Leading, Responding
<1>7. eng[p].state # "Initial" /\ \A m \in {HelloAck(p)} : m.to = Other(p)
  BY <1>1, <1>2
<1> QED BY <1>1, <1>4, <1>5, <1>6, <1>7, MoveKeeps

LEMMA AckSentHelloAck_Roles ==
  ASSUME RInv, NEW p \in Devices, AckSentHelloAck(p)
  PROVE  Roles'
<1> DEFINE f == StartTimer(Goto(CancelTimer(eng[p]), "CommitSent", Commit(p)))
           g == eng[Other(p)]
<1>1. eng[p].started = "yes" /\ eng[p].state = "AckSent" /\ Step(p, f, {Commit(p)})
  BY DEF AckSentHelloAck, Receives
<1>2. Commit(p) \in Packet /\ Commit(p).to = Other(p) /\ Commit(p).type = "Commit"
  BY ToType DEF Commit, Types
<1>3. eng[p] \in Engine /\ "CommitSent" \in States /\ Commit(p) \in Packet \union {NoPacket}
  BY <1>2, Have DEF RInv, States
<1>4. /\ f \in Engine /\ f.armed = 1 /\ f.state = "CommitSent" /\ f.sentPacket = Commit(p)
      /\ f.started = eng[p].started /\ f.failed = eng[p].failed /\ f.notSupp = eng[p].notSupp
  BY <1>3, ResetFields
<1> HIDE DEF f
<1>5. Memory(f)
  BY <1>1, <1>2, <1>4 DEF Memory, RInv, Roles
<1>6. ASSUME Regular
      PROVE  /\ Ticks(f) /\ Waits(f, g) /\ Waits(g, f) /\ Progress(p, eng[p], f, g)
             /\ Tells(p, f, g, Commit(p))
  <2>1. Waits(eng[p], g) /\ Waits(g, eng[p])
    BY <1>6, Known
  <2>2. Waits(f, g) /\ Waits(g, f)
    BY <1>1, <1>4, <2>1 DEF Waits, Resending, Responding, Leading
  <2> QED BY <1>1, <1>2, <1>4, <2>2
          DEF Ticks, Tells, Progress, Onward, Early, Leading, Responding
<1> QED BY <1>1, <1>2, <1>4, <1>5, <1>6, MoveKeeps

(* The peer of the responder is the initiator.                             *)
LEMMA RespondRoles ==
  ASSUME RInv, NEW p \in Devices, Respond(p), eng[p].started = "yes",
         eng[p].state \in {"AckSent", "WaitCommit"}
           \/ (eng[p].state = "CommitSent" /\ OwnHviLess(p)),
         Regular => eng[Other(p)].state \in Leading
  PROVE  Roles'
<1> DEFINE g == eng[Other(p)]
<1>1. ASSUME NEW state, NEW packet \in Packet, NEW f \in Engine, Step(p, f, {packet}),
             packet.to = Other(p),
             \/ state = "WaitDHPart2" /\ packet.type = "DHPart1"
             \/ state = "WaitConfirm2" /\ packet.type = "Confirm1",
             f.state = state, f.sentPacket = packet, f.started = eng[p].started,
             f.failed = eng[p].failed, f.notSupp = eng[p].notSupp
      PROVE  Roles'
  <2>1. Memory(f)
    BY <1>1 DEF Memory, RInv, Roles
  <2>2. ASSUME Regular
        PROVE  /\ Ticks(f) /\ Waits(f, g) /\ Waits(g, f) /\ Progress(p, eng[p], f, g)
               /\ Tells(p, f, g, packet)
    <3>1. g.state \in Leading /\ EngineInv(Other(p), g)
      BY <2>2, Known
    <3>2. g.started # "no"
      BY <3>1 DEF EngineInv, Leading
    <3>3. Ticks(f) /\ Waits(f, g) /\ Waits(g, f)
      BY <1>1, <3>1, <3>2 DEF Ticks, Waits, Resending, Responding, Leading
    <3>4. Progress(p, eng[p], f, g)
      BY <1>1, <3>1 DEF Progress, Onward, Early, Leading, Responding
    <3>5. Tells(p, f, g, packet)
      BY <1>1 DEF Tells, Early
    <3> QED BY <3>3, <3>4, <3>5
  <2>3. eng[p].state # "Initial" /\ \A m \in {packet} : m.to = Other(p)
    BY <1>1
  <2> QED BY <1>1, <2>1, <2>2, <2>3, MoveKeeps
<1>2. eng[p] \in Engine
  BY Have DEF RInv
<1>3. CASE conf.multi
  <2> DEFINE packet == To(p, "Confirm1", Other(p))
             h == Goto(CancelTimer(eng[p]), "WaitConfirm2", packet)
             f == [h EXCEPT !.key = Other(p)]
  <2>1. Step(p, f, {packet})
    BY <1>3, Zenon DEF Respond
  <2>2. /\ packet \in Packet /\ packet.to = Other(p) /\ packet.type = "Confirm1"
        /\ Other(p) \in 0 .. 2 /\ "WaitConfirm2" \in States
    BY ToType, FirstConfirm DEF Types, States
  <2> HIDE DEF packet
  <2>3. /\ h \in Engine /\ h.state = "WaitConfirm2" /\ h.sentPacket = packet
        /\ h.started = eng[p].started /\ h.failed = eng[p].failed
        /\ h.notSupp = eng[p].notSupp
    BY <1>2, <2>2, ResetFields
  <2> HIDE DEF h
  <2>4. /\ f \in Engine /\ f.state = h.state /\ f.sentPacket = h.sentPacket
        /\ f.started = h.started /\ f.failed = h.failed /\ f.notSupp = h.notSupp
    BY <2>2, <2>3, KeyFields
  <2> HIDE DEF f
  <2> QED BY <1>1, <2>1, <2>2, <2>3, <2>4
<1>4. CASE ~conf.multi
  <2> DEFINE packet == To(p, "DHPart1", 0)
             f == Goto(CancelTimer(eng[p]), "WaitDHPart2", packet)
  <2>1. Step(p, f, {packet})
    BY <1>4, Zenon DEF Respond
  <2>2. /\ packet \in Packet /\ packet.to = Other(p) /\ packet.type = "DHPart1"
        /\ "WaitDHPart2" \in States
    BY ToType DEF Types, States
  <2> HIDE DEF packet
  <2>3. /\ f \in Engine /\ f.state = "WaitDHPart2" /\ f.sentPacket = packet
        /\ f.started = eng[p].started /\ f.failed = eng[p].failed
        /\ f.notSupp = eng[p].notSupp
    BY <1>2, <2>2, ResetFields
  <2> HIDE DEF f
  <2> QED BY <1>1, <2>1, <2>2, <2>3
<1> QED BY <1>3, <1>4

(* A Commit that may be answered is the initiator's.                       *)
LEMMA Respond_Roles ==
  ASSUME RInv, NEW p \in Devices, ReceiveCommit(p) \/ CommitClash(p)
  PROVE  Roles'
<1>1. PICK m \in Got(p, "Commit") : TRUE
  BY DEF ReceiveCommit, CommitClash, Receives
<1>2. /\ Respond(p) /\ eng[p].started = "yes"
      /\ \/ eng[p].state \in {"AckSent", "WaitCommit"}
         \/ eng[p].state = "CommitSent" /\ OwnHviLess(p)
  BY DEF ReceiveCommit, CommitClash, Receives
<1>3. ASSUME Regular PROVE eng[Other(p)].state \in Leading
  <2>1. m.type = "Commit" /\ Tells(Other(p), eng[Other(p)], eng[p], m)
    BY <1>1, <1>3, Known
  <2>2. eng[p].state \in Early \/ (eng[p].state = "CommitSent" /\ ~OwnHviLess(Other(p)))
    BY <1>2, OneGivesWay DEF Early
  <2> QED BY <2>1, <2>2 DEF Tells
<1> QED BY <1>2, <1>3, RespondRoles

LEMMA ReceiveDHPart1_Roles ==
  ASSUME RInv, NEW p \in Devices, ReceiveDHPart1(p)
  PROVE  Roles'
<1> DEFINE packet == To(p, "DHPart2", 0)
           h == Goto(CancelTimer(eng[p]), "WaitConfirm1", packet)
           k == [h EXCEPT !.key = p]
           f == StartTimer(k)
           g == eng[Other(p)]
<1>1. /\ eng[p].started = "yes" /\ eng[p].state = "CommitSent" /\ Step(p, f, {packet})
  BY DEF ReceiveDHPart1, Receives
<1>2. /\ packet \in Packet /\ packet.to = Other(p) /\ packet.type = "DHPart2"
      /\ p \in 0 .. 2 /\ "WaitConfirm1" \in States
  BY ToType DEF Types, States, Devices
<1> HIDE DEF packet
<1>3. /\ h \in Engine /\ h.armed = 0 /\ h.state = "WaitConfirm1" /\ h.sentPacket = packet
      /\ h.started = eng[p].started /\ h.failed = eng[p].failed /\ h.notSupp = eng[p].notSupp
  BY <1>2, Have, ResetFields DEF RInv
<1> HIDE DEF h
<1>4. /\ k \in Engine /\ k.armed = h.armed /\ k.state = h.state /\ k.sentPacket = h.sentPacket
      /\ k.started = h.started /\ k.failed = h.failed /\ k.notSupp = h.notSupp
  BY <1>2, <1>3, KeyFields
<1> HIDE DEF k
<1>5. /\ f \in Engine /\ f.armed = k.armed + 1 /\ f.state = k.state
      /\ f.sentPacket = k.sentPacket
      /\ f.started = k.started /\ f.failed = k.failed /\ f.notSupp = k.notSupp
  BY <1>4, StartFields
<1> HIDE DEF f
<1>6. f.armed = 1
  BY <1>3, <1>4, <1>5
<1>7. /\ f.state = "WaitConfirm1" /\ f.sentPacket = packet
      /\ f.started = eng[p].started /\ f.failed = eng[p].failed /\ f.notSupp = eng[p].notSupp
  BY <1>3, <1>4, <1>5
<1>8. Memory(f)
  BY <1>1, <1>2, <1>7 DEF Memory, RInv, Roles
<1>9. ASSUME Regular
      PROVE  /\ Ticks(f) /\ Waits(f, g) /\ Waits(g, f) /\ Progress(p, eng[p], f, g)
             /\ Tells(p, f, g, packet)
  <2>1. Waits(eng[p], g) /\ Waits(g, eng[p])
    BY <1>9, Known
  <2>2. Ticks(f)
    BY <1>6 DEF Ticks
  <2>3. Waits(f, g) /\ Waits(g, f)
    BY <1>1, <1>7, <2>1 DEF Waits, Resending, Responding, Leading
  <2> QED BY <1>1, <1>2, <1>7, <2>2, <2>3
          DEF Tells, Progress, Onward, Early, Leading, Responding
<1>10. eng[p].state # "Initial" /\ \A m \in {packet} : m.to = Other(p)
  BY <1>1, <1>2
<1> QED BY <1>1, <1>5, <1>7, <1>8, <1>9, <1>10, MoveKeeps

LEMMA ReceiveDHPart2_Roles ==
  ASSUME RInv, NEW p \in Devices, ReceiveDHPart2(p)
  PROVE  Roles'
<1> DEFINE packet == To(p, "Confirm1", Other(p))
           h == Goto(eng[p], "WaitConfirm2", packet)
           f == [h EXCEPT !.key = Other(p)]
           g == eng[Other(p)]
<1>1. /\ eng[p].started = "yes" /\ eng[p].state = "WaitDHPart2" /\ Step(p, f, {packet})
  BY DEF ReceiveDHPart2, Receives
<1>2. /\ packet \in Packet /\ packet.to = Other(p) /\ packet.type = "Confirm1"
      /\ Other(p) \in 0 .. 2 /\ "WaitConfirm2" \in States
  BY ToType, FirstConfirm DEF Types, States
<1> HIDE DEF packet
<1>3. /\ h \in Engine /\ h.state = "WaitConfirm2" /\ h.sentPacket = packet
      /\ h.started = eng[p].started /\ h.failed = eng[p].failed /\ h.notSupp = eng[p].notSupp
  BY <1>2, Have, GotoFields DEF RInv
<1> HIDE DEF h
<1>4. /\ f \in Engine /\ f.state = h.state /\ f.sentPacket = h.sentPacket
      /\ f.started = h.started /\ f.failed = h.failed /\ f.notSupp = h.notSupp
  BY <1>2, <1>3, KeyFields
<1> HIDE DEF f
<1>5. Memory(f)
  BY <1>1, <1>2, <1>3, <1>4 DEF Memory, RInv, Roles
<1>6. ASSUME Regular
      PROVE  /\ Ticks(f) /\ Waits(f, g) /\ Waits(g, f) /\ Progress(p, eng[p], f, g)
             /\ Tells(p, f, g, packet)
  <2>1. Waits(eng[p], g) /\ Waits(g, eng[p])
    BY <1>6, Known
  <2>2. Waits(f, g) /\ Waits(g, f)
    BY <1>1, <1>3, <1>4, <2>1 DEF Waits, Resending, Responding, Leading
  <2> QED BY <1>1, <1>2, <1>3, <1>4, <2>2
          DEF Ticks, Resending, Tells, Progress, Onward, Early, Leading, Responding
<1>7. eng[p].state # "Initial" /\ \A m \in {packet} : m.to = Other(p)
  BY <1>1, <1>2
<1> QED BY <1>1, <1>3, <1>4, <1>5, <1>6, <1>7, MoveKeeps

LEMMA Start_Roles ==
  ASSUME RInv, NEW p \in Devices, Start(p)
  PROVE  Roles'
<1> DEFINE e == [eng[p] EXCEPT !.started = "yes"]
           h == Goto(e, "Detect", HelloOf(p))
           f == StartTimer(h)
           g == eng[Other(p)]
           packets == {HelloOf(p)}
<1>1. /\ eng[p] \in Engine /\ EngineInv(p, eng[p])
      /\ eng[p].started = "no" /\ Step(p, f, packets)
  BY Have DEF Start, RInv
<1>2. /\ HelloOf(p) \in Packet /\ HelloOf(p).to = Other(p) /\ HelloOf(p).type = "Hello"
      /\ "Detect" \in States
  <2>1. eng[p].version \in 0 .. 2
    <3>1. eng[p].version \in {1, 2}
      BY <1>1 DEF Engine
    <3> QED BY <3>1
  <2> QED BY <2>1, ToType DEF HelloOf, Types, States
<1>3. /\ e \in Engine /\ e.started = "yes" /\ e.state = eng[p].state /\ e.armed = eng[p].armed
      /\ e.failed = eng[p].failed /\ e.notSupp = eng[p].notSupp
  BY <1>1 DEF Engine
<1> HIDE DEF e
<1>4. /\ h \in Engine /\ h.state = "Detect" /\ h.sentPacket = HelloOf(p) /\ h.armed = e.armed
      /\ h.started = e.started /\ h.failed = e.failed /\ h.notSupp = e.notSupp
  BY <1>2, <1>3, GotoFields
<1> HIDE DEF h
<1>5. /\ f \in Engine /\ f.state = h.state /\ f.sentPacket = h.sentPacket
      /\ f.armed = h.armed + 1
      /\ f.started = h.started /\ f.failed = h.failed /\ f.notSupp = h.notSupp
  BY <1>4, StartFields
<1>6. f.armed > 0
  <2>1. h.armed \in Nat
    BY <1>4 DEF Engine
  <2> QED BY <1>5, <2>1
<1> HIDE DEF f
<1>7. /\ f.state = "Detect" /\ f.sentPacket = HelloOf(p) /\ f.started = "yes"
      /\ f.failed = "" /\ f.notSupp = eng[p].notSupp
      /\ eng[p].state = "Initial" /\ eng[p].failed = ""
  BY <1>1, <1>3, <1>4, <1>5 DEF EngineInv
<1>8. Memory(f) /\ (Lapsed(eng[p]) => Lapsed(f))
  BY <1>1, <1>2, <1>7 DEF Memory, Lapsed
<1>9. ASSUME Regular
      PROVE  /\ Ticks(f) /\ Waits(f, g) /\ Waits(g, f)
             /\ \A m \in net : m.to = Other(p) => Tells(p, f, g, m)
             /\ \A m \in packets : Tells(p, f, g, m)
             /\ \A m \in net : m.to = p => Tells(Other(p), g, f, m)
  <2>1. /\ Waits(eng[p], g) /\ EngineInv(Other(p), g)
        /\ \A m \in net : m.to = Other(p) => Tells(p, eng[p], g, m)
        /\ \A m \in net : m.to = p => Tells(Other(p), g, eng[p], m)
    BY <1>9, Known
  <2>2. \/ g.started = "no" /\ g.state = "Initial"
        \/ g.started # "switching" /\ g.state = "Detect"
    BY <1>1, <2>1 DEF Waits, EngineInv
  <2>3. Ticks(f) /\ Waits(f, g) /\ Waits(g, f)
    BY <1>6, <1>7, <2>2 DEF Ticks, Waits, Responding
  <2>4. \A m \in net : m.to # Other(p)
    BY <1>1, <2>1 DEF Tells
  <2>5. \A m \in packets : Tells(p, f, g, m)
    BY <1>2, <1>7 DEF Tells
  <2>6. \A m \in net : m.to = p => Tells(Other(p), g, f, m)
    BY <2>1, <2>2 DEF Tells, Early
  <2> QED BY <2>3, <2>4, <2>5, <2>6
<1>10. /\ eng' = [eng EXCEPT ![p] = f] /\ net' \subseteq net \union packets
       /\ departures' = departures /\ \A m \in packets : m.to = Other(p)
  BY <1>1, <1>2 DEF Step
<1> HIDE DEF packets
<1> QED BY <1>5, <1>8, <1>9, <1>10, RolesKeep

LEMMA Stop_Roles ==
  ASSUME RInv, NEW p \in Devices, Stop(p)
  PROVE  Roles'
<1> DEFINE h == Goto(CancelTimer(eng[p]), "Initial", NoPacket)
           o == SecretsOff(h)
           f == [o EXCEPT !.started = "stopped", !.due = FALSE]
           packets == {}
<1>1. Departs("stop") /\ eng' = [eng EXCEPT ![p] = f] /\ net' = net
  BY DEF Stop
<1>2. eng[p] \in Engine /\ "Initial" \in States /\ NoPacket \in Packet \union {NoPacket}
  BY Have DEF RInv, States
<1>3. h \in Engine /\ h.state = "Initial"
  BY <1>2, ResetFields
<1> HIDE DEF h
<1>4. o \in Engine /\ o.state = "Initial"
  <2>1. o = [h EXCEPT !.recv = 0, !.send = 0] /\ 0 \in 0 .. 2
    BY DEF SecretsOff
  <2> HIDE DEF o
  <2> QED BY <1>3, <2>1 DEF Engine
<1> HIDE DEF o
<1>5. f \in Engine /\ f.state = "Initial" /\ f.started = "stopped"
  BY <1>4 DEF Engine
<1> HIDE DEF f
<1>6. Memory(f) /\ Lapsed(f)
  BY <1>5 DEF Memory, Lapsed, Responding
<1>7. departures'["dropped"] = departures["dropped"]
  BY <1>1, DepartsType DEF Kinds, RInv
<1>8. net' \subseteq net \union packets /\ \A m \in packets : m.to = Other(p)
  BY <1>1
<1> HIDE DEF packets
<1> QED BY <1>1, <1>5, <1>6, <1>7, <1>8, LapseKeeps

(* The discovery fails.                                                    *)
LEMMA SendErrorRoles ==
  ASSUME RInv, NEW p \in Devices, SendError(p), eng[p].started = "yes",
         eng[p].state = "Detect", Regular => eng[Other(p)].started # "no"
  PROVE  Roles'
<1> DEFINE packet == To(p, "Error", 0)
           h == Goto(CancelTimer(eng[p]), "WaitErrorAck", packet)
           k == [h EXCEPT !.failed = "error"]
           f == StartTimer(k)
           g == eng[Other(p)]
<1>1. Step(p, f, {packet})
  BY DEF SendError
<1>2. /\ packet \in Packet /\ packet.to = Other(p) /\ packet.type = "Error"
      /\ "WaitErrorAck" \in States
  BY ToType DEF Types, States
<1> HIDE DEF packet
<1>3. /\ h \in Engine /\ h.armed = 0 /\ h.state = "WaitErrorAck" /\ h.sentPacket = packet
      /\ h.started = eng[p].started /\ h.notSupp = eng[p].notSupp
  BY <1>2, Have, ResetFields DEF RInv
<1> HIDE DEF h
<1>4. /\ k \in Engine /\ k.armed = 0 /\ k.state = "WaitErrorAck" /\ k.sentPacket = packet
      /\ k.started = h.started /\ k.notSupp = h.notSupp /\ k.failed = "error"
  BY <1>3 DEF Engine
<1> HIDE DEF k
<1>5. /\ f \in Engine /\ f.armed = k.armed + 1 /\ f.state = k.state
      /\ f.sentPacket = k.sentPacket
      /\ f.started = k.started /\ f.notSupp = k.notSupp /\ f.failed = k.failed
  BY <1>4, StartFields
<1> HIDE DEF f
<1>6. f.armed = 1
  BY <1>4, <1>5
<1>7. /\ f.state = "WaitErrorAck" /\ f.sentPacket = packet /\ f.failed = "error"
      /\ f.started = eng[p].started /\ f.notSupp = eng[p].notSupp
  BY <1>3, <1>4, <1>5
<1>8. Memory(f)
  BY <1>2, <1>7 DEF Memory, Responding
<1>9. ASSUME Regular
      PROVE  /\ Ticks(f) /\ Waits(f, g) /\ Waits(g, f) /\ Progress(p, eng[p], f, g)
             /\ Tells(p, f, g, packet)
  <2>1. Waits(g, eng[p]) /\ g.started # "no"
    BY <1>9, Known
  <2>2. Ticks(f)
    BY <1>6 DEF Ticks
  <2>3. Waits(f, g) /\ Waits(g, f)
    BY <1>7, <2>1 DEF Waits, Resending, Responding, Leading
  <2> QED BY <1>2, <1>7, <2>2, <2>3 DEF Tells, Progress, Onward, Early, Leading, Responding
<1>10. eng[p].state # "Initial" /\ \A m \in {packet} : m.to = Other(p)
  BY <1>2
<1> QED BY <1>1, <1>5, <1>7, <1>8, <1>9, <1>10, MoveKeeps

LEMMA DetectLowerHello_Roles ==
  ASSUME RInv, ZrtpAssumption, NEW p \in Devices, DetectLowerHello(p)
  PROVE  Roles'
<1> DEFINE common(m) == {v \in conf.versions[p] : v <= m.info}
           hello(m) == To(p, "Hello", Highest(common(m)))
<1>1. PICK m \in Got(p, "Hello") :
        IF common(m) = {} THEN SendError(p)
        ELSE Step(p, StartTimer([CancelTimer(eng[p]) EXCEPT
                       !.version = hello(m).info, !.sentPacket = hello(m)]), {hello(m)})
  BY Zenon DEF DetectLowerHello
<1>2. eng[p].started = "yes" /\ eng[p].state = "Detect" /\ eng[p] \in Engine
  BY Have DEF DetectLowerHello, Receives, RInv
<1>3. CASE common(m) = {}
  <2>1. Regular => eng[Other(p)].started # "no"
    BY Known DEF Tells
  <2> QED BY <1>1, <1>2, <1>3, <2>1, SendErrorRoles
<1>4. CASE common(m) # {}
  <2> DEFINE v == Highest(common(m))
             packet == To(p, "Hello", v)
             c == CancelTimer(eng[p])
             h == [c EXCEPT !.version = packet.info, !.sentPacket = packet]
             f == StartTimer(h)
             packets == {packet}
  <2>1. Step(p, f, packets)
    BY <1>1, <1>4
  <2>2. v \in {1, 2}
    <3>1. conf.versions[p] \subseteq {1, 2}
      BY ZrtpAssumption DEF RInv, Inv, TypeOK, Configs, Devices
    <3>2. common(m) \in (SUBSET {1, 2}) \ {{}}
      BY <1>4, <3>1
    <3> HIDE DEF common
    <3> QED BY <3>1, <3>2, Highests
  <2> HIDE DEF v
  <2>3. packet \in Packet /\ packet.to = Other(p) /\ packet.type = "Hello" /\ packet.info = v
    BY <2>2, ToType DEF Types
  <2> HIDE DEF packet
  <2>4. /\ c \in Engine /\ c.armed = 0 /\ c.state = "Detect"
        /\ c.started = "yes" /\ c.failed = eng[p].failed /\ c.notSupp = eng[p].notSupp
    BY <1>2, CancelFields
  <2> HIDE DEF c
  <2>5. /\ h \in Engine /\ h.armed = 0 /\ h.state = "Detect" /\ h.sentPacket = packet
        /\ h.started = "yes" /\ h.failed = eng[p].failed /\ h.notSupp = eng[p].notSupp
    BY <2>2, <2>3, <2>4 DEF Engine
  <2> HIDE DEF h
  <2>6. /\ f \in Engine /\ f.armed = h.armed + 1 /\ f.state = h.state
        /\ f.sentPacket = h.sentPacket
        /\ f.started = h.started /\ f.failed = h.failed /\ f.notSupp = h.notSupp
    BY <2>5, StartFields
  <2> HIDE DEF f
  <2>7. f.armed = 1
    BY <2>5, <2>6
  <2>8. /\ f.state = eng[p].state /\ f.sentPacket = packet /\ f.started = eng[p].started
        /\ f.failed = eng[p].failed /\ f.notSupp = eng[p].notSupp
        /\ f.sentPacket.type = eng[p].sentPacket.type
    BY <1>2, <2>3, <2>5, <2>6 DEF RInv, Roles, Memory
  <2>9. Ticks(f) /\ \A x \in packets : x.to = Other(p) /\ Tells(p, f, eng[Other(p)], x)
    BY <1>2, <2>3, <2>7, <2>8 DEF Ticks, Tells
  <2>10. /\ eng' = [eng EXCEPT ![p] = f] /\ net' \subseteq net \union packets
         /\ departures' = departures
    BY <2>1 DEF Step
  <2> HIDE DEF packets
  <2> QED BY <2>6, <2>8, <2>9, <2>10, SameKeeps
<1> QED BY <1>3, <1>4

LEMMA ReceiveConfirm1_Roles ==
  ASSUME RInv, NEW p \in Devices, ReceiveConfirm1(p)
  PROVE  Roles'
<1> DEFINE packet == To(p, "Confirm2", p)
           c == Confirmed(p)
           f == StartTimer(Goto(CancelTimer(c), "WaitConfAck", packet))
           g == eng[Other(p)]
<1>1. /\ eng[p].started = "yes" /\ eng[p].state \in {"CommitSent", "WaitConfirm1"}
      /\ eng[p] \in Engine /\ Got(p, "Confirm1") # {}
  BY Have DEF ReceiveConfirm1, Receives, RInv
<1>2. \A m \in Got(p, "Confirm1") : m.info = p
  BY Have, Two DEF Said, RInv
<1>3. Step(p, f, {packet})
  BY <1>2, Zenon DEF ReceiveConfirm1
<1>4. p \in 0 .. 2
  BY DEF Devices
<1>5. /\ packet \in Packet /\ packet.to = Other(p) /\ packet.type = "Confirm2"
      /\ "WaitConfAck" \in States
  BY <1>4, ToType DEF Types, States
<1> HIDE DEF packet
<1>6. /\ c \in Engine /\ c.started \in {"yes", "switching"} /\ c.failed = eng[p].failed
      /\ c.notSupp = eng[p].notSupp
  <2>1. CASE conf.multi
    BY <1>1, <1>4, <2>1 DEF Confirmed, Engine
  <2>2. CASE ~conf.multi
    BY <1>1, <1>4, <2>2 DEF Confirmed, Engine
  <2> QED BY <2>1, <2>2
<1> HIDE DEF c
<1>7. /\ f \in Engine /\ f.armed = 1 /\ f.state = "WaitConfAck" /\ f.sentPacket = packet
      /\ f.started = c.started /\ f.failed = c.failed /\ f.notSupp = c.notSupp
  BY <1>5, <1>6, ResetFields
<1> HIDE DEF f
<1>8. Memory(f)
  BY <1>1, <1>5, <1>6, <1>7 DEF Memory, RInv, Roles
<1>9. ASSUME Regular
      PROVE  /\ Ticks(f) /\ Waits(f, g) /\ Waits(g, f) /\ Progress(p, eng[p], f, g)
             /\ Tells(p, f, g, packet)
  <2>1. Waits(eng[p], g) /\ Waits(g, eng[p]) /\ g.state # "Detect"
    BY <1>1, <1>9, Known DEF Tells, Early
  <2>2. Ticks(f)
    BY <1>7 DEF Ticks
  <2>3. Waits(f, g) /\ Waits(g, f)
    BY <1>1, <1>6, <1>7, <2>1 DEF Waits, Resending, Responding, Leading
  <2> QED BY <1>1, <1>5, <1>6, <1>7, <2>2, <2>3
          DEF Tells, Progress, Onward, Early, Leading, Responding
<1>10. eng[p].state # "Initial" /\ \A m \in {packet} : m.to = Other(p)
  BY <1>1, <1>5
<1> QED BY <1>1, <1>3, <1>6, <1>7, <1>8, <1>9, <1>10, MoveKeeps

LEMMA ReceiveConfirm2_Roles ==
  ASSUME RInv, NEW p \in Devices, ReceiveConfirm2(p)
  PROVE  Roles'
<1> DEFINE packet == To(p, "Conf2Ack", 0)
           f == [eng[p] EXCEPT !.started = "switching", !.sentPacket = packet]
           g == eng[Other(p)]
<1>1. /\ eng[p].started = "yes" /\ eng[p].state = "WaitConfirm2"
      /\ eng[p] \in Engine /\ EngineInv(p, eng[p])
  BY Have DEF ReceiveConfirm2, Receives, RInv
<1>2. eng[p].key = Other(p)
  BY <1>1 DEF EngineInv, KeysOf
<1>3. \A m \in Got(p, "Confirm2") : m.info = eng[p].key
  BY <1>2, Have DEF SentBy, RInv
<1>4. Step(p, f, {packet})
  BY <1>3, Zenon DEF ReceiveConfirm2
<1>5. /\ packet \in Packet /\ packet.to = Other(p) /\ packet.type = "Conf2Ack"
  BY ToType DEF Types
<1> HIDE DEF packet
<1>6. /\ f \in Engine /\ f.state = "WaitConfirm2" /\ f.sentPacket = packet
      /\ f.started = "switching" /\ f.failed = eng[p].failed /\ f.notSupp = eng[p].notSupp
  BY <1>1, <1>5 DEF Engine
<1> HIDE DEF f
<1>7. Memory(f)
  BY <1>1, <1>5, <1>6 DEF Memory, RInv, Roles
<1>8. ASSUME Regular
      PROVE  /\ Ticks(f) /\ Waits(f, g) /\ Waits(g, f) /\ Progress(p, eng[p], f, g)
             /\ Tells(p, f, g, packet)
  <2>1. g.state \in Leading /\ g.started # "no"
    BY <1>1, <1>8, Known DEF Waits, Responding, EngineInv, Leading
  <2>2. Waits(f, g) /\ Waits(g, f)
    BY <1>1, <1>6, <2>1 DEF Waits, Responding, Leading
  <2> QED BY <1>1, <1>5, <1>6, <2>2
          DEF Ticks, Resending, Tells, Progress, Onward, Early, Leading, Responding
<1>9. eng[p].state # "Initial" /\ \A m \in {packet} : m.to = Other(p)
  BY <1>1, <1>5
<1> QED BY <1>1, <1>4, <1>6, <1>7, <1>8, <1>9, MoveKeeps

LEMMA SwitchReceiver_Roles ==
  ASSUME RInv, NEW p \in Devices, SwitchReceiver(p)
  PROVE  Roles'
<1> DEFINE f == [eng[p] EXCEPT !.started = "yes", !.recv = eng[p].key]
           g == eng[Other(p)]
<1>1. /\ eng[p].started = "switching" /\ eng[p].state = "WaitConfAck"
      /\ eng[p] \in Engine /\ Step(p, f, {})
  BY Have DEF SwitchReceiver, RInv
<1>2. /\ f \in Engine /\ f.state = "WaitConfAck" /\ f.sentPacket = eng[p].sentPacket
      /\ f.started = "yes" /\ f.failed = eng[p].failed /\ f.notSupp = eng[p].notSupp
      /\ f.armed = eng[p].armed /\ f.due = eng[p].due
  BY <1>1 DEF Engine
<1> HIDE DEF f
<1>3. Memory(f)
  BY <1>1, <1>2 DEF Memory, RInv, Roles
<1>4. ASSUME Regular
      PROVE  Ticks(f) /\ Waits(f, g) /\ Waits(g, f) /\ Progress(p, eng[p], f, g)
  <2>1. Waits(eng[p], g) /\ Waits(g, eng[p]) /\ Ticks(eng[p])
    BY <1>4, Known
  <2>2. Ticks(f) /\ Waits(f, g) /\ Waits(g, f)
    BY <1>1, <1>2, <2>1 DEF Ticks, Waits, Resending, Responding, Leading
  <2> QED BY <1>1, <1>2, <2>2 DEF Progress, Onward, Early, Leading, Responding
<1> QED BY <1>1, <1>2, <1>3, <1>4, MoveKeeps

LEMMA SwitchBoth_Roles ==
  ASSUME RInv, NEW p \in Devices, SwitchBoth(p)
  PROVE  Roles'
<1> DEFINE f == [eng[p] EXCEPT !.started = "yes", !.state = "SecureState",
                               !.recv = eng[p].key, !.send = eng[p].key]
           g == eng[Other(p)]
<1>1. /\ eng[p].started = "switching" /\ eng[p].state = "WaitConfirm2"
      /\ eng[p] \in Engine /\ Step(p, f, {})
  BY Have DEF SwitchBoth, RInv
<1>2. /\ f \in Engine /\ f.state = "SecureState" /\ f.sentPacket = eng[p].sentPacket
      /\ f.started = "yes" /\ f.failed = eng[p].failed /\ f.notSupp = eng[p].notSupp
  BY <1>1 DEF Engine, States
<1> HIDE DEF f
<1>3. Memory(f)
  BY <1>1, <1>2 DEF Memory, RInv, Roles
<1>4. ASSUME Regular
      PROVE  Ticks(f) /\ Waits(f, g) /\ Waits(g, f) /\ Progress(p, eng[p], f, g)
  <2>1. Waits(g, eng[p]) /\ EngineInv(Other(p), g)
    BY <1>4, Known
  <2>2. g.started # "no" /\ g.state # "Detect"
    BY <1>1, <2>1 DEF Waits
  <2>3. Waits(f, g) /\ Waits(g, f)
    BY <1>1, <1>2, <2>1, <2>2 DEF Waits, Resending, Responding, Leading
  <2> QED BY <1>1, <1>2, <2>3 DEF Ticks, Resending, Progress, Onward, Early, Leading, Responding
<1> QED BY <1>1, <1>2, <1>3, <1>4, MoveKeeps

(* The peer of an initiator that is done is secure or gone.                *)
LEMMA InitiatorSecure_Roles ==
  ASSUME RInv, NEW p \in Devices, eng[p].started = "yes", eng[p].state = "WaitConfAck",
         Step(p, InitiatorSecure(p), {}), ResponderReady(Other(p), eng[Other(p)])
  PROVE  Roles'
<1> DEFINE h == Goto(CancelTimer(eng[p]), "SecureState", NoPacket)
           f == [h EXCEPT !.send = eng[p].key]
           g == eng[Other(p)]
<1>1. /\ eng[p] \in Engine
      /\ "SecureState" \in States /\ NoPacket \in Packet \union {NoPacket}
  BY Have DEF States, RInv
<1>2. Step(p, f, {}) /\ eng[p].key \in 0 .. 2
  BY <1>1 DEF InitiatorSecure, Engine
<1>3. /\ h \in Engine /\ h.state = "SecureState" /\ h.sentPacket = NoPacket
      /\ h.started = eng[p].started /\ h.failed = eng[p].failed /\ h.notSupp = eng[p].notSupp
  BY <1>1, ResetFields
<1> HIDE DEF h
<1>4. /\ f \in Engine /\ f.state = "SecureState" /\ f.sentPacket = NoPacket
      /\ f.started = eng[p].started /\ f.failed = eng[p].failed /\ f.notSupp = eng[p].notSupp
  BY <1>2, <1>3 DEF Engine
<1> HIDE DEF f
<1>5. Memory(f)
  BY <1>4, NoPacketType DEF Memory, RInv, Roles
<1>6. ASSUME Regular
      PROVE  Ticks(f) /\ Waits(f, g) /\ Waits(g, f) /\ Progress(p, eng[p], f, g)
  <2>1. EngineInv(Other(p), g)
    BY <1>6, Known
  <2>2. /\ g.started # "no"
        /\ \/ g.state \in {"Initial", "WaitErrorAck", "SecureState"}
           \/ g.state = "WaitConfirm2" /\ g.started = "switching"
    BY <2>1 DEF EngineInv, ResponderReady, GoneEngine
  <2>3. Waits(f, g) /\ Waits(g, f)
    BY <1>4, <2>2 DEF Waits, Responding
  <2> QED BY <1>4, <2>2, <2>3 DEF Ticks, Resending, Progress, Onward, Early, Leading, Responding
<1> QED BY <1>2, <1>4, <1>5, <1>6, MoveKeeps

(* The negotiation of p ends when its peer's has ended or is about to.     *)
LEMMA EndKeeps ==
  ASSUME RInv, NEW p \in Devices, NEW f \in Engine, NEW packets, Step(p, f, packets),
         \A m \in packets : m.to = Other(p) /\ m.type = "ErrorAck",
         eng[p].state \notin {"Initial", "SecureState"}, eng[p].started = "yes",
         f.state = "Initial", f.started = eng[p].started, f.notSupp = eng[p].notSupp,
         Regular => /\ eng[Other(p)].started # "no"
                    /\ eng[Other(p)].state \in {"Initial", "SecureState", "WaitErrorAck"}
  PROVE  Roles'
<1> DEFINE g == eng[Other(p)]
<1>1. Memory(f)
  BY DEF Memory, Responding
<1>2. ASSUME Regular
      PROVE  /\ Ticks(f) /\ Waits(f, g) /\ Waits(g, f) /\ Progress(p, eng[p], f, g)
             /\ \A m \in packets : Tells(p, f, g, m)
  <2>1. Waits(f, g) /\ Waits(g, f)
    BY <1>2 DEF Waits, Responding
  <2> QED BY <1>2, <2>1
          DEF Ticks, Resending, Tells, Progress, Onward, Early, Leading, Responding
<1> QED BY <1>1, <1>2, MoveKeeps

LEMMA ErrorAck_Roles ==
  ASSUME RInv, NEW p \in Devices, ReceiveErrorAck(p)
  PROVE  Roles'
<1> DEFINE f == Goto(CancelTimer(eng[p]), "Initial", NoPacket)
           packets == {}
<1>1. /\ eng[p].started = "yes" /\ eng[p].state = "WaitErrorAck" /\ Step(p, f, packets)
      /\ Got(p, "ErrorAck") # {}
  BY DEF ReceiveErrorAck, Receives
<1>2. eng[p] \in Engine /\ "Initial" \in States /\ NoPacket \in Packet \union {NoPacket}
  BY Have DEF RInv, States
<1>3. /\ f \in Engine /\ f.state = "Initial"
      /\ f.started = eng[p].started /\ f.notSupp = eng[p].notSupp
  BY <1>2, ResetFields
<1> HIDE DEF f
<1>4. ASSUME Regular
      PROVE  /\ eng[Other(p)].started # "no"
             /\ eng[Other(p)].state \in {"Initial", "SecureState", "WaitErrorAck"}
  BY <1>1, <1>4, Known DEF Tells
<1>5. \A m \in packets : m.to = Other(p) /\ m.type = "ErrorAck"
  OBVIOUS
<1> HIDE DEF packets
<1> QED BY <1>1, <1>3, <1>4, <1>5, EndKeeps

LEMMA ReceiveError_Roles ==
  ASSUME RInv, NEW p \in Devices, ReceiveError(p)
  PROVE  Roles'
<1> DEFINE c == CancelTimer(eng[p])
           packets == {ErrorAck(p)}
<1>1. eng[p].started = "yes" /\ eng[p] \in Engine /\ Got(p, "Error") # {}
  BY Have DEF ReceiveError, Receives, RInv
<1>2. \A m \in packets : m.to = Other(p) /\ m.type = "ErrorAck"
  BY ToType DEF ErrorAck, Types
<1>3. /\ c \in Engine /\ c.state = eng[p].state /\ c.sentPacket = eng[p].sentPacket
      /\ c.started = eng[p].started /\ c.failed = eng[p].failed /\ c.notSupp = eng[p].notSupp
  BY <1>1, CancelFields
<1>4. CASE eng[p].state \in {"Initial", "SecureState"}
  <2>1. Step(p, c, packets)
    BY <1>4, Zenon DEF ReceiveError
  <2>2. /\ eng' = [eng EXCEPT ![p] = c] /\ net' \subseteq net \union packets
        /\ departures' = departures
    BY <2>1 DEF Step
  <2> HIDE DEF c, packets
  <2>3. Ticks(c) /\ \A m \in packets : Tells(p, c, eng[Other(p)], m)
    BY <1>1, <1>2, <1>3, <1>4 DEF Ticks, Tells, Resending, Early
  <2> QED BY <1>2, <1>3, <2>2, <2>3, SameKeeps
<1>5. CASE eng[p].state \notin {"Initial", "SecureState"}
  <2> DEFINE h == Failed(c, "peer")
             r == IF eng[p].state = "WaitConfAck" THEN 0 ELSE h.recv
             f == [h EXCEPT !.recv = r]
  <2>1. Step(p, f, packets)
    BY <1>5 DEF ReceiveError
  <2> HIDE DEF c
  <2>2. /\ h \in Engine /\ h.state = "Initial"
        /\ h.started = c.started /\ h.notSupp = c.notSupp
    BY <1>3, FailedFields
  <2> HIDE DEF h
  <2>3. r \in 0 .. 2
    <3>1. h.recv \in 0 .. 2
      BY <2>2 DEF Engine
    <3> QED BY <3>1
  <2> HIDE DEF r
  <2>4. /\ f \in Engine /\ f.state = "Initial"
        /\ f.started = eng[p].started /\ f.notSupp = eng[p].notSupp
    BY <1>3, <2>2, <2>3 DEF Engine
  <2> HIDE DEF f, packets
  <2>5. ASSUME Regular
        PROVE  /\ eng[Other(p)].started # "no"
               /\ eng[Other(p)].state \in {"Initial", "SecureState", "WaitErrorAck"}
    BY <1>1, <2>5, Known DEF Tells
  <2> QED BY <1>1, <1>2, <1>5, <2>1, <2>4, <2>5, EndKeeps
<1> QED BY <1>4, <1>5

(* The engine of p with one request less, as its timer's event finds it.   *)
LEMMA Timer_Roles ==
  ASSUME RInv, NEW p \in Devices, NEW e \in Engine, TimerEvent(p, e),
         eng[p].started # "switching",
         e.state = eng[p].state, e.sentPacket = eng[p].sentPacket,
         e.started = eng[p].started, e.failed = eng[p].failed, e.notSupp = eng[p].notSupp
  PROVE  Roles'
<1> DEFINE g == eng[Other(p)]
<1>1. EngineInv(p, eng[p]) /\ Memory(eng[p])
  BY Have DEF RInv, Roles
<1>2. CASE Resend(p, e)
  <2> DEFINE packets == {e.sentPacket}
  <2>1. e.state \in Resending /\ net' \subseteq net \union packets
    BY <1>2 DEF Resend
  <2>2. eng[p].started # "no" /\ eng[p].state \in Repeating
    BY <1>1, <2>1 DEF EngineInv, Resending, Repeating
  <2>3. \A m \in packets : m.to = Other(p) /\ (Regular => Tells(p, eng[p], g, m))
    BY <2>2, MayRepeat
  <2> HIDE DEF packets
  <2>4. CASE eng' = [eng EXCEPT ![p] = StartTimer(e)] /\ UNCHANGED departures
    <3> DEFINE f == StartTimer(e)
    <3>1. /\ f \in Engine /\ f.armed = e.armed + 1 /\ f.state = e.state
          /\ f.sentPacket = e.sentPacket /\ f.started = e.started
          /\ f.failed = e.failed /\ f.notSupp = e.notSupp
      BY StartFields
    <3>2. eng' = [eng EXCEPT ![p] = f]
      BY <2>4
    <3> HIDE DEF f
    <3>3. e.armed \in Nat
      BY DEF Engine
    <3>4. Ticks(f)
      BY <3>1, <3>3 DEF Ticks
    <3>5. \A m \in packets : m.to = Other(p) /\ (Regular => Tells(p, f, g, m))
      BY <2>3, <3>1 DEF Tells
    <3>6. departures' = departures
      BY <2>4
    <3> QED BY <2>1, <3>1, <3>2, <3>4, <3>5, <3>6, SameKeeps
  <2>5. CASE eng' = [eng EXCEPT ![p] = Exhausted(e)] /\ Departs("exhausted")
    <3>1. departures'["dropped"] = departures["dropped"]
      BY <2>5, DepartsType DEF Kinds, RInv
    <3>2. ASSUME NEW f \in Engine, eng' = [eng EXCEPT ![p] = f], Memory(f), Lapsed(f)
          PROVE  Roles'
      <4>1. /\ departures'["dropped"] = 0 => departures["dropped"] = 0
            /\ \A m \in packets : m.to = Other(p)
        BY <2>3, <3>1
      <4> QED BY <2>1, <3>2, <4>1, LapseKeeps
    <3>3. CASE e.state \in {"Detect", "AckSent"}
      <4> DEFINE f == [e EXCEPT !.state = "Detect", !.notSupp = TRUE]
      <4>1. eng' = [eng EXCEPT ![p] = f]
        BY <2>5, <3>3 DEF Exhausted
      <4>2. /\ f \in Engine /\ f.state = "Detect" /\ f.sentPacket = eng[p].sentPacket
            /\ f.notSupp /\ f.failed = eng[p].failed
        BY DEF Engine, States
      <4> HIDE DEF f
      <4>3. Memory(f) /\ Lapsed(f)
        BY <1>1, <3>3, <4>2 DEF Memory, Lapsed
      <4> QED BY <3>2, <4>1, <4>2, <4>3
    <3>4. CASE e.state \notin {"Detect", "AckSent"}
      <4> DEFINE h == Failed(e, "retries")
                 r == IF e.state = "WaitConfAck" THEN 0 ELSE h.recv
                 f == [h EXCEPT !.recv = r]
      <4>1. eng' = [eng EXCEPT ![p] = f]
        BY <2>5, <3>4 DEF Exhausted
      <4>2. h \in Engine /\ h.state = "Initial" /\ h.failed = "retries"
        BY FailedFields
      <4> HIDE DEF h
      <4>3. r \in 0 .. 2
        <5>1. h.recv \in 0 .. 2
          BY <4>2 DEF Engine
        <5> QED BY <5>1
      <4> HIDE DEF r
      <4>4. f \in Engine /\ f.state = "Initial" /\ f.failed = "retries"
        BY <4>2, <4>3 DEF Engine
      <4> HIDE DEF f
      <4>5. Memory(f) /\ Lapsed(f)
        BY <4>4 DEF Memory, Lapsed
      <4> QED BY <3>2, <4>1, <4>4, <4>5
    <3> QED BY <3>3, <3>4
  <2> QED BY <1>2, <2>4, <2>5 DEF Resend
<1>3. CASE NothingToSend(p, e)
  <2> DEFINE packets == {}
  <2>1. e.state \notin Resending /\ net' = net \union packets /\ departures' = departures
        /\ \A m \in packets : m.to = Other(p) /\ Tells(p, e, g, m)
    BY <1>3 DEF NothingToSend
  <2> HIDE DEF packets
  <2>2. CASE e.state \in {"Initial", "SecureState"}
    <3>1. eng' = [eng EXCEPT ![p] = e] /\ Ticks(e) /\ e.sentPacket.type = eng[p].sentPacket.type
      BY <1>3, <2>1, <2>2 DEF NothingToSend, Ticks
    <3>2. net' \subseteq net \union packets
      BY <2>1
    <3> QED BY <2>1, <3>1, <3>2, SameKeeps
  <2>3. CASE e.state \notin {"Initial", "SecureState"}
    <3> DEFINE f == Failed(e, "protocol")
    <3>1. eng' = [eng EXCEPT ![p] = f]
      BY <1>3, <2>3 DEF NothingToSend
    <3>2. /\ f \in Engine /\ f.state = "Initial"
          /\ f.started = e.started /\ f.notSupp = e.notSupp /\ f.failed = "protocol"
      BY FailedFields
    <3> HIDE DEF f
    <3>3. Step(p, f, packets)
      BY <2>1, <3>1 DEF Step, TimerEvent
    <3>4. Memory(f)
      BY <3>2 DEF Memory, Responding
    <3>5. ASSUME Regular
          PROVE  /\ Ticks(f) /\ Waits(f, g) /\ Waits(g, f) /\ Progress(p, eng[p], f, g)
                 /\ \A m \in packets : Tells(p, f, g, m)
      <4>1. /\ eng[p].started = "yes"
            /\ eng[p].state \in {"AckDetected", "WaitCommit", "WaitDHPart2", "WaitConfirm2"}
        BY <1>1, <2>1, <2>3, <3>5, Known
           DEF Regular, Lapsed, Engine, States, Resending, EngineInv
      <4>2. g.state \in Resending \ {"Detect"} /\ g.started # "no"
        BY <3>5, <4>1, Known DEF Waits, Responding, Leading, Resending, EngineInv
      <4>3. Ticks(f) /\ Waits(f, g) /\ Waits(g, f)
        BY <3>2, <4>1, <4>2 DEF Ticks, Waits, Responding, Resending
      <4>4. Progress(p, eng[p], f, g)
        BY <3>2, <4>1 DEF Progress, Onward, Early, Leading, Responding
      <4>5. \A m \in packets : Tells(p, f, g, m)
        BY DEF packets
      <4> QED BY <4>3, <4>4, <4>5
    <3>6. /\ eng[p].state # "Initial" /\ f.started = eng[p].started
          /\ f.notSupp = eng[p].notSupp /\ \A m \in packets : m.to = Other(p)
      BY <2>1, <2>3, <3>2
    <3> QED BY <3>2, <3>3, <3>4, <3>5, <3>6, MoveKeeps
  <2> QED BY <2>2, <2>3
<1> QED BY <1>2, <1>3 DEF TimerEvent

LEMMA Timeout_Roles ==
  ASSUME RInv, NEW p \in Devices, Timeout(p)
  PROVE  Roles'
<1> DEFINE e == [eng[p] EXCEPT !.armed = @ - 1]
<1>1. eng[p].armed > 0 /\ eng[p].started # "switching" /\ TimerEvent(p, e)
  BY DEF Timeout
<1>2. /\ e \in Engine /\ e.state = eng[p].state /\ e.sentPacket = eng[p].sentPacket
      /\ e.started = eng[p].started /\ e.failed = eng[p].failed /\ e.notSupp = eng[p].notSupp
  BY <1>1, Taken DEF RInv
<1> HIDE DEF e
<1> QED BY <1>1, <1>2, Timer_Roles

LEMMA CallTimeout_Roles ==
  ASSUME RInv, NEW p \in Devices, CallTimeout(p)
  PROVE  Roles'
<1> DEFINE e == [eng[p] EXCEPT !.due = FALSE]
<1>1. eng[p].started # "switching" /\ TimerEvent(p, e) /\ eng[p] \in Engine
  BY Have DEF CallTimeout, RInv
<1>2. /\ e \in Engine /\ e.state = eng[p].state /\ e.sentPacket = eng[p].sentPacket
      /\ e.started = eng[p].started /\ e.failed = eng[p].failed /\ e.notSupp = eng[p].notSupp
  BY <1>1 DEF Engine
<1> HIDE DEF e
<1> QED BY <1>1, <1>2, Timer_Roles

LEMMA DropRequest_Roles ==
  ASSUME RInv, NEW p \in Devices, DropRequest(p)
  PROVE  Roles'
<1> DEFINE f == [eng[p] EXCEPT !.armed = @ - 1]
           packets == {}
<1>1. /\ eng[p].armed > 0 /\ Departs("dropped") /\ net' = net
      /\ eng' = [eng EXCEPT ![p] = f]
  BY DEF DropRequest
<1>2. /\ f \in Engine /\ f.state = eng[p].state /\ f.sentPacket = eng[p].sentPacket
      /\ f.started = eng[p].started /\ f.failed = eng[p].failed /\ f.notSupp = eng[p].notSupp
  BY <1>1, Taken DEF RInv
<1> HIDE DEF f
<1>3. Memory(f) /\ (Lapsed(eng[p]) => Lapsed(f))
  BY <1>2 DEF Memory, Lapsed, RInv, Roles
<1>4. departures'["dropped"] > 0
  BY <1>1, DepartsType DEF Kinds, RInv
<1>5. departures'["dropped"] # 0
  BY <1>4
<1>6. net' \subseteq net \union packets /\ \A m \in packets : m.to = Other(p)
  BY <1>1
<1> HIDE DEF packets
<1> QED BY <1>1, <1>2, <1>3, <1>5, <1>6, LapseKeeps

LEMMA TakeRequest_Roles ==
  ASSUME RInv, NEW p \in Devices, TakeRequest(p)
  PROVE  Roles'
<1> DEFINE e == [eng[p] EXCEPT !.armed = @ - 1]
           f == [e EXCEPT !.due = TRUE]
           packets == {}
<1>1. /\ eng[p].armed > 0 /\ Departs("stray") /\ net' = net
      /\ eng' = [eng EXCEPT ![p] = f]
  BY DEF TakeRequest
<1>2. /\ e \in Engine /\ e.state = eng[p].state /\ e.sentPacket = eng[p].sentPacket
      /\ e.started = eng[p].started /\ e.failed = eng[p].failed /\ e.notSupp = eng[p].notSupp
  BY <1>1, Taken DEF RInv
<1> HIDE DEF e
<1>3. /\ f \in Engine /\ f.state = e.state /\ f.sentPacket = e.sentPacket
      /\ f.started = e.started /\ f.failed = e.failed /\ f.notSupp = e.notSupp /\ f.due
  BY <1>2 DEF Engine
<1> HIDE DEF f
<1>4. departures'["dropped"] = departures["dropped"]
  BY <1>1, DepartsType DEF Kinds, RInv
<1>5. /\ net' \subseteq net \union packets /\ Ticks(f)
      /\ \A m \in packets : m.to = Other(p) /\ Tells(p, f, eng[Other(p)], m)
  BY <1>1, <1>3 DEF Ticks
<1> HIDE DEF packets
<1> QED BY <1>1, <1>2, <1>3, <1>4, <1>5, SameKeeps

LEMMA Lose_Roles ==
  ASSUME RInv, NEW m \in net, Lose(m)
  PROVE  Roles'
<1>1. net' \subseteq net /\ eng' = eng /\ departures' = departures
  BY DEF Lose
<1>2. Regular' => Regular
  BY <1>1 DEF Regular
<1>3. \A p \in Devices : RolesOf(p, eng[p], eng[Other(p)]) => RolesOf(p, eng[p], eng[Other(p)])'
  BY <1>1 DEF RolesOf
<1> QED BY <1>1, <1>2, <1>3 DEF RInv, Roles

LEMMA Init_Roles ==
  ASSUME Init
  PROVE  Roles
<1>1. \A p \in Devices : /\ eng[p].state = "Initial" /\ eng[p].started = "no"
                         /\ eng[Other(p)].started = "no"
  BY Two DEF Init, NewEngine
<1>2. net = {}
  BY DEF Init
<1>3. \A p \in Devices : RolesOf(p, eng[p], eng[Other(p)])
  BY <1>1, <1>2 DEF RolesOf, Ticks, Waits, Responding, Resending
<1> QED BY <1>1, <1>3 DEF Roles, Memory, Responding

LEMMA Next_Roles ==
  ASSUME RInv, ZrtpAssumption, [Next]_vars
  PROVE  Roles'
<1>1. ASSUME NEW p \in Devices, Advance(p)
      PROVE  Roles'
  <2>1. CASE DetectHelloAck(p)
    BY <2>1, DetectHelloAck_Roles
  <2>2. CASE DetectLowerHello(p)
    BY <2>2, DetectLowerHello_Roles
  <2>3. CASE DetectHello(p)
    BY <2>3, DetectHello_Roles
  <2>4. CASE AckDetectedHello(p)
    BY <2>4, AckDetectedHello_Roles
  <2>5. CASE AckSentHelloAck(p)
    BY <2>5, AckSentHelloAck_Roles
  <2>6. CASE ReceiveCommit(p) \/ CommitClash(p)
    BY <2>6, Respond_Roles
  <2>7. CASE ReceiveDHPart1(p)
    BY <2>7, ReceiveDHPart1_Roles
  <2>8. CASE ReceiveDHPart2(p)
    BY <2>8, ReceiveDHPart2_Roles
  <2>9. CASE ReceiveConfirm1(p)
    BY <2>9, ReceiveConfirm1_Roles
  <2>10. CASE ReceiveConfirm2(p)
    BY <2>10, ReceiveConfirm2_Roles
  <2>11. CASE ReceiveConf2Ack(p)
    <3>1. ResponderReady(Other(p), eng[Other(p)])
      BY <2>11, Have DEF ReceiveConf2Ack, Receives, SentBy, RInv
    <3> QED BY <2>11, <3>1, InitiatorSecure_Roles DEF ReceiveConf2Ack, Receives
  <2>12. CASE ReceiveError(p)
    BY <2>12, ReceiveError_Roles
  <2>13. CASE ReceiveErrorAck(p)
    BY <2>13, ErrorAck_Roles
  <2> QED BY <1>1, <2>1, <2>2, <2>3, <2>4, <2>5, <2>6, <2>7, <2>8, <2>9, <2>10, <2>11,
             <2>12, <2>13 DEF Advance
<1>2. ASSUME NEW p \in Devices, Repeat(p)
      PROVE  Roles'
  BY <1>2, Repeat_Roles
<1>3. ASSUME NEW p \in Devices,
             \/ Start(p) \/ Stop(p) \/ DetectHigherHello(p) \/ CommitKept(p) \/ ReceiveMedia(p)
             \/ Switch(p)
             \/ Timeout(p) \/ DropRequest(p) \/ TakeRequest(p) \/ CallTimeout(p)
      PROVE  Roles'
  <2>1. CASE Start(p)
    BY <2>1, Start_Roles
  <2>2. CASE Stop(p)
    BY <2>2, Stop_Roles
  <2>3. CASE DetectHigherHello(p) \/ CommitKept(p)
    BY <2>3, RestartRoles DEF DetectHigherHello, CommitKept
  <2>4. CASE ReceiveMedia(p)
    <3>1. ResponderReady(Other(p), eng[Other(p)])
      BY <2>4, MediaReady DEF RInv
    <3> QED BY <2>4, <3>1, InitiatorSecure_Roles DEF ReceiveMedia
  <2>5. CASE Timeout(p)
    BY <2>5, Timeout_Roles
  <2>6. CASE DropRequest(p)
    BY <2>6, DropRequest_Roles
  <2>7. CASE TakeRequest(p)
    BY <2>7, TakeRequest_Roles
  <2>8. CASE CallTimeout(p)
    BY <2>8, CallTimeout_Roles
  <2>9. CASE Switch(p)
    BY <2>9, SwitchReceiver_Roles, SwitchBoth_Roles DEF Switch
  <2> QED BY <1>3, <2>1, <2>2, <2>3, <2>4, <2>5, <2>6, <2>7, <2>8, <2>9
<1>4. ASSUME NEW m \in net, Lose(m)
      PROVE  Roles'
  BY <1>4, Lose_Roles
<1>5. CASE UNCHANGED vars
  <2>1. eng' = eng /\ net' = net /\ departures' = departures
    BY <1>5 DEF vars
  <2>2. Regular' <=> Regular
    BY <2>1 DEF Regular
  <2>3. \A p \in Devices : RolesOf(p, eng[p], eng[Other(p)]) => RolesOf(p, eng[p], eng[Other(p)])'
    BY <2>1 DEF RolesOf
  <2> QED BY <2>1, <2>2, <2>3 DEF RInv, Roles
<1> QED BY <1>1, <1>2, <1>3, <1>4, <1>5 DEF Next

(* While no engine is stopped or has given up and no request is lost, the  *)
(* devices never wait for each other: one of them resends until both have  *)
(* settled.                                                                *)
THEOREM NeverBothWait == Spec => []SomeoneResends
<1>1. Init => RInv
  BY Init_Inv, Init_Roles, ZrtpAssumption DEF RInv
<1>2. RInv /\ [Next]_vars => RInv'
  BY Next_Inv, Next_Roles, ZrtpAssumption DEF RInv
<1>3. RInv => SomeoneResends
  <2> SUFFICES ASSUME RInv, ~(departures["dropped"] > 0),
                      \A p \in Devices : /\ eng[p].started = "yes" /\ ~eng[p].notSupp
                                         /\ eng[p].failed # "retries",
                      NEW p \in Devices, ~Settled(p)
               PROVE  \E q \in Devices : eng[q].armed > 0 \/ eng[q].due
    BY DEF SomeoneResends
  <2>1. Regular
    <3>1. departures \in [Kinds -> Nat] /\ "dropped" \in Kinds
      BY DEF RInv, Inv, TypeOK, Kinds
    <3>2. departures["dropped"] = 0
      BY <3>1
    <3> QED BY <3>2 DEF Regular, Lapsed
  <2>2. /\ eng[p] \in Engine /\ Ticks(eng[p]) /\ Waits(eng[p], eng[Other(p)])
        /\ Other(p) \in Devices /\ Ticks(eng[Other(p)])
    BY <2>1, Two, Known
  <2>3. CASE eng[p].state \in Resending
    BY <2>2, <2>3 DEF Ticks
  <2>4. CASE eng[p].state \notin Resending
    <3>1. eng[Other(p)].state \in Resending
      BY <2>2, <2>4 DEF Waits, Settled, Engine, States, Resending, Responding, Leading
    <3> QED BY <2>2, <3>1 DEF Ticks
  <2> QED BY <2>3, <2>4
<1> QED BY <1>1, <1>2, <1>3, PTL DEF Spec
=============================================================================
