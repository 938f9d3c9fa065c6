------------------------ MODULE ZinaRatchet_proofs ------------------------
(***************************************************************************)
(* Types, and that no message key is used twice, for any numbers of        *)
(* pre-keys, messages, deaths and re-keys; and that, without deaths and    *)
(* re-keys, no message is lost and the devices come to use one context,    *)
(* for any numbers of pre-keys and messages.                               *)
(***************************************************************************)
EXTENDS ZinaRatchet, TLAPS

-----------------------------------------------------------------------------
(* Devices, keys and chains.                                               *)

LEMMA Two ==
  ASSUME NEW p \in Devices
  PROVE  Other(p) \in Devices /\ Other(p) # p /\ \A q \in Devices : q = p \/ q = Other(p)
<1>1. \E q \in Devices : q # p
  BY DEF Devices
<1>2. Other(p) \in Devices /\ Other(p) # p
  BY <1>1 DEF Other
<1> QED BY <1>2 DEF Devices

LEMMA Pairs ==
  /\ None \notin Keys
  /\ \A k \in Keys : k = <<k[1], k[2]>> /\ k[1] \in Devices /\ k[2] \in Nat
  /\ \A p \in Devices, n \in Nat : <<p, n>> \in Keys /\ <<p, n>>[1] = p /\ <<p, n>>[2] = n
  BY DEF Keys, None

LEMMA Longer ==
  ASSUME NEW r \in Chains, NEW s \in SUBSET Keys
  PROVE  /\ Append(r, s) \in Chains /\ Append(r, s) # <<>>
         /\ Len(Append(r, s)) = Len(r) + 1 /\ Append(r, s)[Len(r) + 1] = s
         /\ \A i \in 1 .. Len(r) : Append(r, s)[i] = r[i]
         /\ DOMAIN Append(r, s) = 1 .. (Len(r) + 1)
  BY DEF Chains

LEMMA OneLong ==
  ASSUME NEW s \in SUBSET Keys
  PROVE  <<s>> \in Chains /\ <<s>> # <<>> /\ Len(<<s>>) = 1 /\ <<s>>[1] = s /\ DOMAIN <<s>> = {1}
  BY DEF Chains

LEMMA EmptyChain ==
  <<>> \in Chains /\ Len(<<>>) = 0 /\ DOMAIN <<>> = {}
  BY DEF Chains

LEMMA ChainLen ==
  ASSUME NEW c \in Chains
  PROVE  Len(c) \in Nat /\ DOMAIN c = 1 .. Len(c) /\ (c # <<>> => Len(c) >= 1)
         /\ \A i \in DOMAIN c : c[i] \in SUBSET Keys
  BY DEF Chains

-----------------------------------------------------------------------------
(* The invariant.  ks stands for keys.                                     *)

(* The key was generated.                                                  *)
Known(k, ks) == k[2] <= ks[k[1]]
KnownChain(c, ks) == \A i \in DOMAIN c : \A k \in c[i] : Known(k, ks)

(* Not a pre-key.                                                          *)
OwnKey(p, k) == k[1] = p /\ k[2] > MaxPreKeys

(* A context of device p.                                                  *)
ConvInv(p, c, ks) ==
  /\ KnownChain(c.root, ks) /\ KnownChain(c.cks, ks)
  /\ \A k \in {c.dhs, c.dhr, c.a0} : k # None => Known(k, ks)
  /\ c.a0 # None => OwnKey(p, c.a0)
  /\ c.root # <<>> => c.ctx # None /\ (c.flag \/ (c.dhs # None /\ c.cks # <<>>))
  /\ c.dhr # None => c.root # <<>>
  /\ c.flag => c.dhr # None

(* A message of device p.                                                  *)
MsgInv(p, m, ks) ==
  /\ KnownChain(m.key[1], ks) /\ Known(m.dh, ks)
  /\ m.a0 # None => OwnKey(p, m.a0) /\ Known(m.a0, ks)
  /\ m.setup => m.a0 # None

(* A sending chain of one agreement is Bob's, and its pre-key, not one of  *)
(* pk, is gone.                                                            *)
BobChain(p, c, pk) ==
  \E i \in (1 .. MaxPreKeys) \ pk, a0 \in Keys :
    OwnKey(Other(p), a0) /\ c = <<{a0, <<p, i>>}>>

(* The chain keys the device has used or may use.                          *)
ChainOk(p, c, pk, ks) == KnownChain(c, ks) /\ (Len(c) = 1 => BobChain(p, c, pk))

Messages(pr, st) == {st[i] : i \in DOMAIN st} \union {pr.out}
Primaries(cv, pr) == {cv[0], pr.convs[0]}
Sending(cv, pr, st) ==
  {m.key[1] : m \in Messages(pr, st)} \union {c.cks : c \in Primaries(cv, pr)}

(* Keys are used once by the device, and the chain is ahead of them.       *)
UsedOnce(pr, st) ==
  /\ \A i, j \in DOMAIN st : st[i].key = st[j].key => i = j
  /\ \A i \in DOMAIN st : st[i].key[1] # <<>> /\ st[i].key # pr.out.key
  /\ pr.pc = "stored" => pr.out.key[1] # <<>>

Ahead(m, c) == m.key[1] # <<>> /\ m.key[1] = c.cks => m.key[2] < c.ns

DeviceInv(p, cv, pr, st, pk, ks) ==
  /\ \A k \in PreKeyIds : ConvInv(p, cv[k], ks) /\ ConvInv(p, pr.convs[k], ks)
  /\ \A m \in Messages(pr, st) : MsgInv(p, m, ks)
  /\ \A c \in Sending(cv, pr, st) : ChainOk(p, c, pk, ks)
  /\ \A m \in Messages(pr, st), c \in Primaries(cv, pr) : Ahead(m, c)
  /\ UsedOnce(pr, st)

Apart ==
  \A p, q \in Devices :
    \A c \in Sending(convs[p], proc[p], sent[p]) :
      c \in Sending(convs[q], proc[q], sent[q]) => p = q \/ c = <<>>

Inv ==
  /\ TypeOK
  /\ \A p \in Devices : keys[p] >= MaxPreKeys
  /\ \A p \in Devices : DeviceInv(p, convs[p], proc[p], sent[p], preKeys[p], keys)
  /\ Apart

-----------------------------------------------------------------------------
(* Keys become more.                                                       *)

LEMMA KnownStays ==
  ASSUME NEW ks \in [Devices -> Nat], NEW ns \in [Devices -> Nat],
         \A p \in Devices : ks[p] <= ns[p]
  PROVE  /\ \A k \in Keys : Known(k, ks) => Known(k, ns)
         /\ \A c \in Chains : KnownChain(c, ks) => KnownChain(c, ns)
<1>1. ASSUME NEW k \in Keys, Known(k, ks)
      PROVE  Known(k, ns)
  <2>1. k[1] \in Devices /\ k[2] \in Nat
    BY Pairs
  <2>2. k[2] <= ks[k[1]] /\ ks[k[1]] <= ns[k[1]] /\ ks[k[1]] \in Nat /\ ns[k[1]] \in Nat
    BY <1>1, <2>1 DEF Known
  <2>3. k[2] <= ns[k[1]]
    BY <2>1, <2>2
  <2> QED BY <2>3 DEF Known
<1>2. ASSUME NEW c \in Chains, KnownChain(c, ks)
      PROVE  KnownChain(c, ns)
  BY <1>1, <1>2, ChainLen DEF KnownChain
<1> QED BY <1>1, <1>2

LEMMA ConvStays ==
  ASSUME NEW p \in Devices, NEW c \in Conv,
         NEW ks \in [Devices -> Nat], NEW ns \in [Devices -> Nat],
         \A q \in Devices : ks[q] <= ns[q], ConvInv(p, c, ks)
  PROVE  ConvInv(p, c, ns)
<1>1. /\ c.root \in Chains /\ c.cks \in Chains
      /\ \A k \in {c.dhs, c.dhr, c.a0} : k \in Keys \/ k = None
  BY DEF Conv
<1>2. KnownChain(c.root, ns) /\ KnownChain(c.cks, ns)
  BY <1>1, KnownStays DEF ConvInv
<1>3. \A k \in {c.dhs, c.dhr, c.a0} : k # None => Known(k, ns)
  BY <1>1, KnownStays DEF ConvInv
<1> QED BY <1>2, <1>3 DEF ConvInv

LEMMA MsgStays ==
  ASSUME NEW p \in Devices, NEW m \in Message,
         NEW ks \in [Devices -> Nat], NEW ns \in [Devices -> Nat],
         \A q \in Devices : ks[q] <= ns[q], MsgInv(p, m, ks)
  PROVE  MsgInv(p, m, ns)
<1>1. /\ m.key[1] \in Chains /\ m.dh \in Keys /\ (m.a0 # None => m.a0 \in Keys)
  BY DEF Message, MsgKeys
<1>2. KnownChain(m.key[1], ns) /\ Known(m.dh, ns) /\ (m.a0 # None => Known(m.a0, ns))
  BY <1>1, KnownStays DEF MsgInv
<1> QED BY <1>2 DEF MsgInv

(* What TypeOK says of one device.                                         *)
DeviceType(cv, pr, st, pk) ==
  cv \in Tables /\ pr \in Command /\ st \in Seq(Message) /\ pk \in SUBSET (1 .. MaxPreKeys)

LEMMA PartTypes ==
  ASSUME NEW cv, NEW pr, NEW st, NEW pk, DeviceType(cv, pr, st, pk), RatchetAssumption
  PROVE  /\ 0 \in PreKeyIds
         /\ \A k \in PreKeyIds : cv[k] \in Conv /\ pr.convs[k] \in Conv
         /\ \A m \in Messages(pr, st) : m \in Message
         /\ \A c \in Primaries(cv, pr) : c \in Conv
         /\ \A c \in Sending(cv, pr, st) : c \in Chains
<1>1. 0 \in PreKeyIds
  BY DEF PreKeyIds, RatchetAssumption
<1>2. \A k \in PreKeyIds : cv[k] \in Conv /\ pr.convs[k] \in Conv
  BY DEF DeviceType, Tables, Command
<1>3. \A m \in Messages(pr, st) : m \in Message
  BY DEF DeviceType, Messages, Command
<1>4. \A c \in Primaries(cv, pr) : c \in Conv
  BY <1>1, <1>2 DEF Primaries
<1>5. \A m \in Message : m.key[1] \in Chains
  BY DEF Message, MsgKeys
<1>6. \A c \in Conv : c.cks \in Chains
  BY DEF Conv
<1>7. \A c \in Sending(cv, pr, st) : c \in Chains
  BY <1>3, <1>4, <1>5, <1>6 DEF Sending
<1> QED BY <1>1, <1>2, <1>3, <1>4, <1>7

LEMMA DeviceStays ==
  ASSUME RatchetAssumption, NEW p \in Devices,
         NEW cv, NEW pr, NEW st, NEW pk, DeviceType(cv, pr, st, pk),
         NEW ks \in [Devices -> Nat], NEW ns \in [Devices -> Nat],
         \A q \in Devices : ks[q] <= ns[q], DeviceInv(p, cv, pr, st, pk, ks)
  PROVE  DeviceInv(p, cv, pr, st, pk, ns)
<1>1. \A k \in PreKeyIds : ConvInv(p, cv[k], ns) /\ ConvInv(p, pr.convs[k], ns)
  BY PartTypes, ConvStays DEF DeviceInv
<1>2. \A m \in Messages(pr, st) : MsgInv(p, m, ns)
  BY PartTypes, MsgStays DEF DeviceInv
<1>3. \A c \in Sending(cv, pr, st) : ChainOk(p, c, pk, ns)
  BY PartTypes, KnownStays DEF DeviceInv, ChainOk
<1> QED BY <1>1, <1>2, <1>3 DEF DeviceInv

LEMMA KeysGrow ==
  ASSUME RatchetAssumption, NEW ks \in [Devices -> Nat], NEW ns \in [Devices -> Nat],
         \A q \in Devices : ks[q] >= MaxPreKeys /\ ks[q] <= ns[q]
  PROVE  \A q \in Devices : ns[q] >= MaxPreKeys
<1>1. ASSUME NEW q \in Devices PROVE ns[q] >= MaxPreKeys
  <2>1. MaxPreKeys \in Nat /\ ks[q] \in Nat /\ ns[q] \in Nat
    BY DEF RatchetAssumption
  <2> QED BY <2>1
<1> QED BY <1>1

LEMMA DeviceHas ==
  ASSUME Inv, NEW p \in Devices
  PROVE  /\ DeviceType(convs[p], proc[p], sent[p], preKeys[p])
         /\ DeviceInv(p, convs[p], proc[p], sent[p], preKeys[p], keys)
  BY DEF Inv, TypeOK, DeviceType

(* A step of one device.                                                   *)
LEMMA StepKeeps ==
  ASSUME Inv, TypeOK', RatchetAssumption, NEW p \in Devices,
         convs'[Other(p)] = convs[Other(p)], proc'[Other(p)] = proc[Other(p)],
         sent'[Other(p)] = sent[Other(p)], preKeys'[Other(p)] = preKeys[Other(p)],
         \A q \in Devices : keys[q] <= keys'[q],
         DeviceInv(p, convs'[p], proc'[p], sent'[p], preKeys'[p], keys'),
         \A c \in Sending(convs'[p], proc'[p], sent'[p]) :
           \/ c = <<>> \/ c \in Sending(convs[p], proc[p], sent[p])
           \/ c \notin Sending(convs[Other(p)], proc[Other(p)], sent[Other(p)])
  PROVE  Inv'
<1> DEFINE q == Other(p)
<1>1. q \in Devices /\ q # p /\ \A r \in Devices : r = p \/ r = q
  BY Two
<1>2. keys \in [Devices -> Nat] /\ keys' \in [Devices -> Nat]
  BY DEF Inv, TypeOK
<1>3. DeviceType(convs[q], proc[q], sent[q], preKeys[q])
      /\ DeviceInv(q, convs[q], proc[q], sent[q], preKeys[q], keys)
  BY <1>1, DeviceHas
<1>4. DeviceInv(q, convs'[q], proc'[q], sent'[q], preKeys'[q], keys')
  BY <1>1, <1>2, <1>3, DeviceStays
<1>5. \A c \in Sending(convs'[p], proc'[p], sent'[p]) :
        c \in Sending(convs'[q], proc'[q], sent'[q]) => c = <<>>
  BY <1>1 DEF Inv, Apart
<1> HIDE DEF q
<1>6. Apart'
  BY <1>1, <1>5 DEF Apart
<1>7. \A r \in Devices : DeviceInv(r, convs'[r], proc'[r], sent'[r], preKeys'[r], keys')
  BY <1>1, <1>4
<1>8. \A r \in Devices : keys[r] >= MaxPreKeys
  BY DEF Inv
<1>9. \A r \in Devices : keys'[r] >= MaxPreKeys
  BY <1>2, <1>8, KeysGrow
<1> QED BY <1>6, <1>7, <1>9 DEF Inv

-----------------------------------------------------------------------------
(* What the operators on contexts return.                                  *)

LEMMA NewConvOk ==
  ASSUME RatchetAssumption, NEW p \in Devices, NEW ks
  PROVE  NewConv \in Conv /\ ConvInv(p, NewConv, ks) /\ NewConv.cks = <<>> /\ NewConv.ns = 0
<1>1. 0 \in PreKeyIds /\ <<>> \in Chains
  BY EmptyChain DEF RatchetAssumption, PreKeyIds
<1>2. NewConv \in Conv
  BY <1>1 DEF NewConv, Conv
<1>3. KnownChain(<<>>, ks)
  BY EmptyChain DEF KnownChain
<1>4. /\ NewConv.root = <<>> /\ NewConv.cks = <<>> /\ NewConv.dhs = None
      /\ NewConv.dhr = None /\ NewConv.a0 = None /\ NewConv.flag = FALSE
      /\ NewConv.ns = 0
  BY DEF NewConv
<1>5. ConvInv(p, NewConv, ks)
  BY <1>3, <1>4 DEF ConvInv
<1> QED BY <1>2, <1>4, <1>5

LEMMA ResetOk ==
  ASSUME RatchetAssumption, NEW p \in Devices, NEW ks, NEW c \in Conv
  PROVE  LET g == Reset(c)
         IN /\ g \in Conv /\ ConvInv(p, g, ks) /\ g.cks = <<>> /\ g.root = <<>>
            /\ g.dhs = None /\ g.dhr = None /\ g.a0 = None /\ g.preKey = 0 /\ g.flag = FALSE
            /\ g.ns = 0 /\ g.nr = 0 /\ g.pns = 0 /\ g.ckr = <<>>
            /\ g.ctx = c.ctx /\ g.staged = c.staged
<1> DEFINE g == Reset(c)
<1>1. g = [NewConv EXCEPT !.ctx = c.ctx, !.staged = c.staged]
  BY DEF Reset
<1> HIDE DEF g
<1>2. NewConv \in Conv
  BY NewConvOk
<1>3. g \in Conv
  BY <1>1, <1>2 DEF Conv
<1>4. KnownChain(<<>>, ks)
  BY EmptyChain DEF KnownChain
<1>5. /\ g.cks = <<>> /\ g.root = <<>>
      /\ g.dhs = None /\ g.dhr = None /\ g.a0 = None /\ g.preKey = 0 /\ g.flag = FALSE
      /\ g.ns = 0 /\ g.nr = 0 /\ g.pns = 0 /\ g.ckr = <<>>
      /\ g.ctx = c.ctx /\ g.staged = c.staged
  BY <1>1 DEF NewConv
<1>6. ConvInv(p, g, ks)
  BY <1>4, <1>5 DEF ConvInv
<1> QED BY <1>3, <1>5, <1>6 DEF g

LEMMA OneAgreement ==
  ASSUME NEW k \in Keys, NEW l \in Keys, NEW ks, Known(k, ks), Known(l, ks)
  PROVE  <<{k, l}>> \in Chains /\ <<{k, l}>> # <<>> /\ KnownChain(<<{k, l}>>, ks)
  BY OneLong DEF KnownChain

LEMMA AliceOk ==
  ASSUME RatchetAssumption, NEW p \in Devices, NEW ks, NEW c \in Conv, NEW a0 \in Keys,
         OwnKey(p, a0), Known(a0, ks), NEW q \in Devices, NEW i \in PreKeyIds,
         <<q, i>> \in Keys, Known(<<q, i>>, ks)
  PROVE  LET g == AliceConv(c, a0, q, i)
         IN g \in Conv /\ ConvInv(p, g, ks) /\ g.cks = <<>>
<1> DEFINE r == Reset(c)
           chain == <<{a0, <<q, i>>}>>
           g == AliceConv(c, a0, q, i)
<1>1. /\ r \in Conv /\ r.cks = <<>> /\ r.dhs = None
  BY ResetOk
<1>2. chain \in Chains /\ chain # <<>> /\ KnownChain(chain, ks)
  BY OneAgreement
<1>3. g = [r EXCEPT !.root = chain, !.ckr = chain, !.ctx = a0, !.dhr = <<q, i>>, !.a0 = a0,
                    !.preKey = i, !.flag = TRUE]
  BY DEF AliceConv
<1> HIDE DEF r, chain, g
<1>4. g \in Conv
  BY <1>1, <1>2, <1>3 DEF Conv
<1>5. /\ g.root = chain /\ g.cks = <<>> /\ g.dhs = None /\ g.dhr = <<q, i>> /\ g.a0 = a0
      /\ g.ctx = a0 /\ g.flag = TRUE
  BY <1>1, <1>3 DEF Conv
<1>6. KnownChain(<<>>, ks)
  BY EmptyChain DEF KnownChain
<1>7. a0 # None /\ <<q, i>> # None
  BY Pairs
<1>8. ConvInv(p, g, ks)
  BY <1>2, <1>5, <1>6, <1>7 DEF ConvInv
<1> QED BY <1>4, <1>5, <1>8 DEF g

LEMMA BobOk ==
  ASSUME RatchetAssumption, NEW p \in Devices, NEW ks, NEW c \in Conv, NEW m \in Message,
         m.a0 \in Keys, Known(m.a0, ks), <<p, m.preKey>> \in Keys, Known(<<p, m.preKey>>, ks)
  PROVE  LET g == BobConv(c, m, p)
         IN /\ g \in Conv /\ ConvInv(p, g, ks) /\ g.cks = <<{m.a0, <<p, m.preKey>>}>>
            /\ g.ns = 0
<1> DEFINE r == Reset(c)
           chain == <<{m.a0, <<p, m.preKey>>}>>
           g == BobConv(c, m, p)
<1>1. /\ r \in Conv /\ r.dhr = None /\ r.a0 = None /\ r.ns = 0 /\ r.flag = FALSE
  BY ResetOk
<1>2. chain \in Chains /\ chain # <<>> /\ KnownChain(chain, ks)
  BY OneAgreement
<1>3. g = [r EXCEPT !.root = chain, !.cks = chain, !.ctx = m.ctx, !.dhs = <<p, m.preKey>>]
  BY DEF BobConv
<1>4. m.ctx \in Keys /\ m.ctx # None /\ <<p, m.preKey>> # None
  BY Pairs DEF Message
<1> HIDE DEF r, chain, g
<1>5. g \in Conv
  BY <1>1, <1>2, <1>3, <1>4 DEF Conv
<1>6. /\ g.root = chain /\ g.cks = chain /\ g.dhs = <<p, m.preKey>> /\ g.dhr = None
      /\ g.a0 = None /\ g.ctx = m.ctx /\ g.flag = FALSE /\ g.ns = 0
  BY <1>1, <1>3 DEF Conv
<1>7. ConvInv(p, g, ks)
  BY <1>2, <1>4, <1>6 DEF ConvInv
<1> QED BY <1>5, <1>6, <1>7 DEF g, chain

LEMMA WithStagedOk ==
  ASSUME NEW p \in Devices, NEW ks, NEW c \in Conv, ConvInv(p, c, ks), NEW m
  PROVE  LET g == WithStaged(c, m)
         IN g \in Conv /\ ConvInv(p, g, ks) /\ g.cks = c.cks /\ g.ns = c.ns
<1> DEFINE left == c.staged \ {m.key}
           g == WithStaged(c, m)
<1>1. g = [c EXCEPT !.staged = left]
  BY DEF WithStaged
<1>2. left \in SUBSET MsgKeys
  BY DEF Conv
<1> HIDE DEF left, g
<1>3. g \in Conv
  BY <1>1, <1>2 DEF Conv
<1>4. /\ g.root = c.root /\ g.cks = c.cks /\ g.dhs = c.dhs /\ g.dhr = c.dhr
      /\ g.a0 = c.a0 /\ g.ctx = c.ctx /\ g.flag = c.flag /\ g.ns = c.ns
  BY <1>1 DEF Conv
<1>5. ConvInv(p, g, ks)
  BY <1>4 DEF ConvInv
<1> QED BY <1>3, <1>4, <1>5 DEF g

LEMMA ChainKeysType ==
  ASSUME NEW c \in Chains, NEW from \in Nat, NEW to \in Nat
  PROVE  ChainKeys(c, from, to) \in SUBSET MsgKeys
<1>1. \A i \in from .. (to - 1) : <<c, i>> \in MsgKeys
  BY DEF MsgKeys
<1> QED BY <1>1 DEF ChainKeys

LEMMA AppendKnown ==
  ASSUME NEW ks, NEW r \in Chains, KnownChain(r, ks), NEW k \in Keys, NEW l \in Keys,
         Known(k, ks), Known(l, ks)
  PROVE  LET g == Append(r, {k, l})
         IN g \in Chains /\ g # <<>> /\ KnownChain(g, ks)
<1> DEFINE g == Append(r, {k, l})
<1>1. /\ g \in Chains /\ g # <<>> /\ g[Len(r) + 1] = {k, l}
      /\ \A i \in 1 .. Len(r) : g[i] = r[i]
      /\ DOMAIN g = 1 .. (Len(r) + 1)
  BY Longer
<1>2. Len(r) \in Nat /\ DOMAIN r = 1 .. Len(r)
  BY ChainLen
<1> HIDE DEF g
<1>3. ASSUME NEW i \in DOMAIN g, NEW x \in g[i]
      PROVE  Known(x, ks)
  <2>1. CASE i = Len(r) + 1
    BY <1>1, <1>3, <2>1
  <2>2. CASE i # Len(r) + 1
    <3>1. i \in 1 .. Len(r)
      BY <1>1, <1>2, <2>2
    <3> QED BY <1>1, <1>2, <1>3, <3>1 DEF KnownChain
  <2> QED BY <2>1, <2>2
<1> QED BY <1>1, <1>3 DEF g, KnownChain

LEMMA ChainOfOk ==
  ASSUME NEW p \in Devices, NEW ks, NEW c \in Conv, ConvInv(p, c, ks),
         NEW m \in Message, Known(m.dh, ks), OpensWithChain(c, m)
  PROVE  LET chain == ChainOf(c, m)
         IN /\ chain \in Chains
            /\ NewRatchet(c, m) => KnownChain(chain, ks) /\ chain # <<>> /\ c.root # <<>>
            /\ ~NewRatchet(c, m) => c.root # <<>>
<1>1. c.root \in Chains /\ c.ckr \in Chains /\ m.dh \in Keys /\ m.dh # None
  BY Pairs DEF Conv, Message
<1>2. CASE NewRatchet(c, m)
  <2>1. c.dhs \in Keys /\ Known(c.dhs, ks) /\ KnownChain(c.root, ks) /\ c.root # <<>>
    BY <1>2 DEF OpensWithChain, ConvInv, Conv
  <2>2. ChainOf(c, m) = Append(c.root, {m.dh, c.dhs})
    BY <1>2 DEF ChainOf
  <2>3. LET g == Append(c.root, {m.dh, c.dhs})
        IN g \in Chains /\ g # <<>> /\ KnownChain(g, ks)
    BY <1>1, <2>1, AppendKnown
  <2> QED BY <1>2, <2>1, <2>2, <2>3
<1>3. CASE ~NewRatchet(c, m)
  <2>1. ChainOf(c, m) = c.ckr
    BY <1>3 DEF ChainOf
  <2>2. c.root # <<>>
    BY <1>1, <1>3 DEF NewRatchet, ConvInv
  <2> QED BY <1>1, <1>3, <2>1, <2>2
<1> QED BY <1>2, <1>3

LEMMA SkippedType ==
  ASSUME NEW c \in Conv, NEW m \in Message, ChainOf(c, m) \in Chains, RatchetAssumption
  PROVE  Skipped(c, m) \in SUBSET MsgKeys
<1>1. c.ckr \in Chains /\ c.nr \in Nat /\ m.pn \in Nat /\ m.np \in Nat
  BY DEF Conv, Message
<1>2. /\ ChainKeys(c.ckr, c.nr, m.pn) \in SUBSET MsgKeys
      /\ ChainKeys(c.ckr, c.nr, m.np) \in SUBSET MsgKeys
      /\ ChainKeys(ChainOf(c, m), 0, m.np) \in SUBSET MsgKeys
  BY <1>1, ChainKeysType
<1> QED BY <1>2 DEF Skipped

LEMMA WithChainOk ==
  ASSUME NEW p \in Devices, NEW ks, NEW c \in Conv, ConvInv(p, c, ks),
         NEW m \in Message, Known(m.dh, ks), OpensWithChain(c, m), RatchetAssumption
  PROVE  LET g == WithChain(c, m)
         IN g \in Conv /\ ConvInv(p, g, ks) /\ g.cks = c.cks /\ g.ns = c.ns
<1> DEFINE chain == ChainOf(c, m)
           root == IF NewRatchet(c, m) THEN chain ELSE c.root
           flag == (c.flag \/ NewRatchet(c, m))
           nr == m.np + 1
           staged == c.staged \union Skipped(c, m)
           g == WithChain(c, m)
<1>1. g = [c EXCEPT !.root = root, !.ckr = chain, !.dhr = m.dh, !.flag = flag, !.nr = nr,
                    !.a0 = None, !.staged = staged]
  BY DEF WithChain
<1>2. chain \in Chains
  BY ChainOfOk
<1>3. root \in Chains /\ root # <<>> /\ KnownChain(root, ks)
  BY ChainOfOk DEF ConvInv, Conv
<1>4. nr \in Nat /\ m.dh \in Keys /\ m.dh # None
  BY Pairs DEF Message
<1>5. staged \in SUBSET MsgKeys
  BY <1>2, SkippedType DEF Conv
<1>6. flag \in BOOLEAN /\ (flag \/ ~NewRatchet(c, m))
  BY DEF Conv, NewRatchet
<1>7. c.root # <<>>
  BY ChainOfOk
<1>8. c.flag => flag
  OBVIOUS
<1> HIDE DEF chain, root, flag, nr, staged, g
<1>9. g \in Conv
  BY <1>1, <1>2, <1>3, <1>4, <1>5, <1>6 DEF Conv
<1>10. /\ g.root = root /\ g.cks = c.cks /\ g.dhs = c.dhs /\ g.dhr = m.dh /\ g.a0 = None
       /\ g.ctx = c.ctx /\ g.flag = flag /\ g.ns = c.ns
  BY <1>1 DEF Conv
<1>11. ConvInv(p, g, ks)
  <2>1. KnownChain(g.root, ks) /\ KnownChain(g.cks, ks)
    BY <1>3, <1>10 DEF ConvInv
  <2>2. \A k \in {g.dhs, g.dhr, g.a0} : k # None => Known(k, ks)
    BY <1>10 DEF ConvInv
  <2>3. g.ctx # None /\ (g.flag \/ (g.dhs # None /\ g.cks # <<>>))
    BY <1>7, <1>8, <1>10 DEF ConvInv
  <2> QED BY <1>3, <1>4, <1>10, <2>1, <2>2, <2>3 DEF ConvInv
<1> QED BY <1>9, <1>10, <1>11 DEF g

-----------------------------------------------------------------------------
(* Steps that encrypt nothing.                                             *)

LEMMA NoMessageOk ==
  ASSUME RatchetAssumption, NEW p \in Devices, NEW ks \in [Devices -> Nat]
  PROVE  NoMessage \in Message /\ MsgInv(p, NoMessage, ks) /\ NoMessage.key[1] = <<>>
<1>1. <<"a", 0>> \in Keys /\ Known(<<"a", 0>>, ks)
  BY DEF Keys, Devices, Known
<1>2. 0 \in PreKeyIds /\ <<>> \in Chains /\ <<<<>>, 0>> \in MsgKeys
  BY EmptyChain DEF RatchetAssumption, PreKeyIds, MsgKeys
<1>3. NoMessage \in Message
  BY <1>1, <1>2 DEF NoMessage, Message
<1>4. /\ NoMessage.key[1] = <<>> /\ NoMessage.dh = <<"a", 0>> /\ NoMessage.a0 = None
      /\ NoMessage.setup = FALSE
  BY DEF NoMessage
<1>5. KnownChain(<<>>, ks)
  BY EmptyChain DEF KnownChain
<1> QED BY <1>1, <1>3, <1>4, <1>5 DEF MsgInv

LEMMA IdleOk ==
  ASSUME RatchetAssumption, NEW p \in Devices, NEW ks \in [Devices -> Nat]
  PROVE  /\ Idle \in Command /\ Idle.out = NoMessage /\ Idle.convs = Empty /\ Idle.pc = "idle"
         /\ \A k \in PreKeyIds : ConvInv(p, Empty[k], ks) /\ Empty[k].cks = <<>>
         /\ Empty \in Tables /\ 0 \in PreKeyIds
<1>1. /\ NewConv \in Conv /\ ConvInv(p, NewConv, ks) /\ NewConv.cks = <<>>
  BY NewConvOk
<1>2. Empty \in Tables /\ \A k \in PreKeyIds : Empty[k] = NewConv
  BY <1>1 DEF Empty, Tables
<1>3. NoMessage \in Message
  BY NoMessageOk
<1>4. Idle \in Command /\ Idle.out = NoMessage /\ Idle.convs = Empty /\ Idle.pc = "idle"
  BY <1>2, <1>3 DEF Idle, Command
<1>5. 0 \in PreKeyIds
  BY DEF RatchetAssumption, PreKeyIds
<1> QED BY <1>1, <1>2, <1>4, <1>5

(* A sending chain that was not used before.                               *)
New(p, c) ==
  /\ c \notin Sending(convs[p], proc[p], sent[p])
  /\ c \notin Sending(convs[Other(p)], proc[Other(p)], sent[Other(p)])

(* The chain of a primary context g goes on, is gone, or is new.           *)
GoesOn(p, g, pk, ks) ==
  \/ g.cks = <<>>
  \/ \E c \in Primaries(convs[p], proc[p]) : g.cks = c.cks /\ g.ns = c.ns
  \/ New(p, g.cks) /\ ChainOk(p, g.cks, pk, ks)

LEMMA FewerPreKeys ==
  ASSUME NEW p \in Devices, NEW c, NEW pk, NEW nk, nk \subseteq pk, NEW ks, ChainOk(p, c, pk, ks)
  PROVE  ChainOk(p, c, nk, ks)
  BY DEF ChainOk, BobChain

LEMMA QuietStep ==
  ASSUME Inv, TypeOK', RatchetAssumption, NEW p \in Devices,
         convs'[Other(p)] = convs[Other(p)], proc'[Other(p)] = proc[Other(p)],
         sent' = sent, preKeys'[Other(p)] = preKeys[Other(p)], preKeys'[p] \subseteq preKeys[p],
         \A q \in Devices : keys[q] <= keys'[q],
         proc'[p].out \in {NoMessage, proc[p].out}, proc'[p].pc # "stored",
         \A k \in PreKeyIds : /\ ConvInv(p, convs'[p][k], keys')
                              /\ ConvInv(p, proc'[p].convs[k], keys'),
         \A g \in Primaries(convs'[p], proc'[p]) : GoesOn(p, g, preKeys'[p], keys')
  PROVE  Inv'
<1>1. keys \in [Devices -> Nat] /\ keys' \in [Devices -> Nat]
  BY DEF Inv, TypeOK
<1>2. DeviceInv(p, convs[p], proc[p], sent[p], preKeys[p], keys')
  BY <1>1, DeviceHas, DeviceStays
<1>3. NoMessage \in Message /\ MsgInv(p, NoMessage, keys') /\ NoMessage.key[1] = <<>>
  BY <1>1, NoMessageOk
<1>4. \A m \in Messages(proc'[p], sent'[p]) : m \in Messages(proc[p], sent[p]) \/ m = NoMessage
  BY DEF Messages
<1>5. \A m \in Messages(proc'[p], sent'[p]) : MsgInv(p, m, keys')
  BY <1>2, <1>3, <1>4 DEF DeviceInv
<1>6. \A c \in Sending(convs'[p], proc'[p], sent'[p]) :
        \/ c = <<>> \/ c \in Sending(convs[p], proc[p], sent[p])
        \/ New(p, c) /\ ChainOk(p, c, preKeys'[p], keys')
  <2>1. \A m \in Messages(proc'[p], sent'[p]) :
          m.key[1] = <<>> \/ m.key[1] \in Sending(convs[p], proc[p], sent[p])
    BY <1>3, <1>4 DEF Sending
  <2>2. \A g \in Primaries(convs'[p], proc'[p]) :
          \/ g.cks = <<>> \/ g.cks \in Sending(convs[p], proc[p], sent[p])
          \/ New(p, g.cks) /\ ChainOk(p, g.cks, preKeys'[p], keys')
    BY DEF GoesOn, Sending
  <2> QED BY <2>1, <2>2 DEF Sending
<1>7. \A c \in Sending(convs'[p], proc'[p], sent'[p]) : ChainOk(p, c, preKeys'[p], keys')
  <2>1. ChainOk(p, <<>>, preKeys'[p], keys')
    BY EmptyChain DEF ChainOk, KnownChain
  <2>2. \A c \in Sending(convs[p], proc[p], sent[p]) : ChainOk(p, c, preKeys'[p], keys')
    BY <1>2, FewerPreKeys DEF DeviceInv
  <2> QED BY <1>6, <2>1, <2>2
<1>8. \A m \in Messages(proc'[p], sent'[p]), g \in Primaries(convs'[p], proc'[p]) : Ahead(m, g)
  <2> SUFFICES ASSUME NEW m \in Messages(proc'[p], sent'[p]),
                      NEW g \in Primaries(convs'[p], proc'[p]),
                      m.key[1] # <<>>, m.key[1] = g.cks
               PROVE  m.key[2] < g.ns
    BY DEF Ahead
  <2>1. m \in Messages(proc[p], sent[p])
    BY <1>3, <1>4
  <2>2. ~New(p, g.cks)
    BY <2>1 DEF New, Sending
  <2>3. PICK c \in Primaries(convs[p], proc[p]) : g.cks = c.cks /\ g.ns = c.ns
    BY <2>2 DEF GoesOn
  <2> QED BY <1>2, <2>1, <2>3 DEF DeviceInv, Ahead
<1>9. UsedOnce(proc'[p], sent'[p])
  <2>1. UsedOnce(proc[p], sent[p])
    BY <1>2 DEF DeviceInv
  <2>2. \A i \in DOMAIN sent[p] : sent[p][i].key # proc'[p].out.key
    BY <1>3, <2>1 DEF UsedOnce
  <2> QED BY <2>1, <2>2 DEF UsedOnce
<1>10. DeviceInv(p, convs'[p], proc'[p], sent'[p], preKeys'[p], keys')
  BY <1>5, <1>7, <1>8, <1>9 DEF DeviceInv
<1> QED BY <1>6, <1>10, StepKeeps DEF New

LEMMA Same ==
  ASSUME Inv, NEW p \in Devices
  PROVE  /\ \A k \in PreKeyIds : ConvInv(p, convs[p][k], keys) /\ ConvInv(p, proc[p].convs[k], keys)
         /\ \A pk, ks : \A g \in Primaries(convs[p], proc[p]) : GoesOn(p, g, pk, ks)
         /\ \A k \in PreKeyIds : convs[p][k] \in Conv /\ proc[p].convs[k] \in Conv
         /\ convs[p] \in Tables /\ proc[p] \in Command /\ proc[p].convs \in Tables
         /\ proc[p].out \in Message
         /\ keys \in [Devices -> Nat] /\ \A q \in Devices : keys[q] <= keys[q]
<1>1. convs[p] \in Tables /\ proc[p] \in Command /\ keys \in [Devices -> Nat]
  BY DEF Inv, TypeOK
<1>2. proc[p].convs \in Tables /\ proc[p].out \in Message
  BY <1>1 DEF Command
<1>3. \A k \in PreKeyIds : convs[p][k] \in Conv /\ proc[p].convs[k] \in Conv
  BY <1>1, <1>2 DEF Tables
<1>4. \A k \in PreKeyIds : ConvInv(p, convs[p][k], keys) /\ ConvInv(p, proc[p].convs[k], keys)
  BY DEF Inv, DeviceInv
<1>5. \A pk, ks : \A g \in Primaries(convs[p], proc[p]) : GoesOn(p, g, pk, ks)
  BY DEF GoesOn
<1>6. \A q \in Devices : keys[q] <= keys[q]
  BY <1>1
<1> QED BY <1>1, <1>2, <1>3, <1>4, <1>5, <1>6

LEMMA Crash_Inv ==
  ASSUME Inv, RatchetAssumption, NEW p \in Devices, Crash(p)
  PROVE  Inv'
<1>1. /\ proc' = [proc EXCEPT ![p] = Idle] /\ crashes' = crashes + 1
      /\ convs' = convs /\ preKeys' = preKeys /\ served' = served /\ keys' = keys
      /\ sent' = sent /\ accepted' = accepted /\ rejected' = rejected
      /\ reordered' = reordered /\ reKeys' = reKeys
  BY DEF Crash
<1>2. TypeOK /\ Other(p) \in Devices /\ Other(p) # p
  BY Two DEF Inv
<1>3. proc'[p] = Idle /\ proc'[Other(p)] = proc[Other(p)]
  BY <1>1, <1>2 DEF TypeOK
<1>4. /\ Idle \in Command /\ Idle.out = NoMessage /\ Idle.convs = Empty /\ Idle.pc = "idle"
      /\ \A k \in PreKeyIds : ConvInv(p, Empty[k], keys) /\ Empty[k].cks = <<>>
      /\ 0 \in PreKeyIds
  BY Same, IdleOk
<1>5. TypeOK'
  BY <1>1, <1>2, <1>4 DEF TypeOK
<1>6. \A g \in Primaries(convs'[p], proc'[p]) : GoesOn(p, g, preKeys'[p], keys')
  <2>1. GoesOn(p, Empty[0], preKeys'[p], keys')
    BY <1>4 DEF GoesOn
  <2>2. GoesOn(p, convs[p][0], preKeys'[p], keys')
    BY Same DEF Primaries
  <2> QED BY <1>1, <1>3, <1>4, <2>1, <2>2 DEF Primaries
<1> QED BY <1>1, <1>3, <1>4, <1>5, <1>6, Same, QuietStep

LEMMA Commit_Inv ==
  ASSUME Inv, RatchetAssumption, NEW p \in Devices, Commit(p),
         proc[p].pc = "decrypted" => proc[p].in \in 1 .. MaxSends
  PROVE  Inv'
<1>1. /\ proc' = [proc EXCEPT ![p] = Idle] /\ convs' = [convs EXCEPT ![p] = proc[p].convs]
      /\ accepted' = [accepted EXCEPT ![p] = @ \union {proc[p].in}]
      /\ preKeys' = preKeys /\ served' = served /\ keys' = keys
      /\ sent' = sent /\ rejected' = rejected
      /\ reordered' = reordered /\ reKeys' = reKeys /\ crashes' = crashes
      /\ proc[p].pc = "decrypted"
  BY DEF Commit
<1>2. TypeOK /\ Other(p) \in Devices /\ Other(p) # p
  BY Two DEF Inv
<1>3. /\ proc'[p] = Idle /\ proc'[Other(p)] = proc[Other(p)]
      /\ convs'[p] = proc[p].convs /\ convs'[Other(p)] = convs[Other(p)]
  BY <1>1, <1>2 DEF TypeOK
<1>4. /\ Idle \in Command /\ Idle.out = NoMessage /\ Idle.convs = Empty /\ Idle.pc = "idle"
      /\ \A k \in PreKeyIds : ConvInv(p, Empty[k], keys) /\ Empty[k].cks = <<>>
      /\ 0 \in PreKeyIds
  BY Same, IdleOk
<1>5. proc[p].convs \in Tables
  BY Same
<1>6. TypeOK'
  BY <1>1, <1>2, <1>4, <1>5 DEF TypeOK
<1>7. \A g \in Primaries(convs'[p], proc'[p]) : GoesOn(p, g, preKeys'[p], keys')
  <2>1. GoesOn(p, Empty[0], preKeys'[p], keys')
    BY <1>4 DEF GoesOn
  <2>2. GoesOn(p, proc[p].convs[0], preKeys'[p], keys')
    BY Same DEF Primaries
  <2> QED BY <1>3, <1>4, <2>1, <2>2 DEF Primaries
<1> QED BY <1>1, <1>3, <1>4, <1>6, <1>7, Same, QuietStep

LEMMA Reject_Inv ==
  ASSUME Inv, RatchetAssumption, NEW p \in Devices, NEW i \in 1 .. MaxSends, Reject(p, i)
  PROVE  Inv'
<1>1. /\ proc' = proc /\ convs' = convs /\ accepted' = accepted
      /\ served' = served /\ keys' = keys /\ sent' = sent
      /\ rejected' = [rejected EXCEPT ![p] = @ \union {i}]
      /\ reKeys' = reKeys /\ crashes' = crashes
      /\ proc[p].pc = "idle"
  BY DEF Reject, Take
<1>2. preKeys' \in {preKeys, [preKeys EXCEPT ![p] = @ \ {sent[Other(p)][i].preKey}]}
  BY DEF Reject, TakePreKey
<1>3. reordered' \in BOOLEAN
  BY DEF Reject, Take, Inv, TypeOK
<1>4. TypeOK /\ Other(p) \in Devices /\ Other(p) # p
  BY Two DEF Inv
<1>5. /\ preKeys' \in [Devices -> SUBSET (1 .. MaxPreKeys)]
      /\ preKeys'[Other(p)] = preKeys[Other(p)] /\ preKeys'[p] \subseteq preKeys[p]
  BY <1>2, <1>4 DEF TypeOK
<1>6. TypeOK'
  BY <1>1, <1>3, <1>4, <1>5 DEF TypeOK
<1> QED BY <1>1, <1>5, <1>6, Same, QuietStep

LEMMA ReKey_Inv ==
  ASSUME Inv, RatchetAssumption, NEW p \in Devices, ReKey(p)
  PROVE  Inv'
<1> DEFINE table == [convs[p] EXCEPT ![0] = Reset(@)]
<1>1. /\ proc' = proc /\ accepted' = accepted /\ preKeys' = preKeys
      /\ served' = served /\ keys' = keys /\ sent' = sent
      /\ rejected' = rejected /\ reKeys' = reKeys + 1 /\ crashes' = crashes
      /\ reordered' = reordered
      /\ convs' = [convs EXCEPT ![p] = table] /\ proc[p].pc = "idle"
  BY DEF ReKey
<1>2. TypeOK /\ Other(p) \in Devices /\ Other(p) # p /\ 0 \in PreKeyIds
  BY Two, IdleOk, Same DEF Inv
<1>3. /\ Reset(convs[p][0]) \in Conv /\ ConvInv(p, Reset(convs[p][0]), keys)
      /\ Reset(convs[p][0]).cks = <<>>
  BY <1>2, Same, ResetOk
<1>4. /\ table \in Tables /\ table[0] = Reset(convs[p][0])
      /\ \A k \in PreKeyIds : k # 0 => table[k] = convs[p][k]
  BY <1>2, <1>3, Same DEF Tables
<1> HIDE DEF table
<1>5. TypeOK' /\ convs'[p] = table /\ convs'[Other(p)] = convs[Other(p)]
  BY <1>1, <1>2, <1>4 DEF TypeOK
<1>6. \A k \in PreKeyIds : ConvInv(p, table[k], keys)
  BY <1>3, <1>4, Same
<1>7. \A g \in Primaries(convs'[p], proc'[p]) : GoesOn(p, g, preKeys'[p], keys')
  <2>1. GoesOn(p, table[0], preKeys'[p], keys')
    BY <1>3, <1>4 DEF GoesOn
  <2>2. GoesOn(p, proc[p].convs[0], preKeys'[p], keys')
    BY Same DEF Primaries
  <2> QED BY <1>1, <1>5, <2>1, <2>2 DEF Primaries
<1> QED BY <1>1, <1>5, <1>6, <1>7, Same, QuietStep

LEMMA Setup_Inv ==
  ASSUME Inv, RatchetAssumption, NEW p \in Devices, Setup(p)
  PROVE  Inv'
<1> DEFINE q == Other(p)
           key == <<p, keys[p] + 1>>
           i == served[q] + 1
           g == AliceConv(convs[p][0], key, q, i)
           table == [convs[p] EXCEPT ![0] = g]
<1>1. /\ TypeOK /\ q \in Devices /\ q # p /\ 0 \in PreKeyIds
      /\ keys[p] \in Nat /\ keys[q] \in Nat
      /\ keys[p] >= MaxPreKeys /\ keys[q] >= MaxPreKeys /\ MaxPreKeys \in Nat
  BY Two, IdleOk, Same DEF Inv, TypeOK, RatchetAssumption
<1>2. served[q] \in PreKeyIds /\ served[q] < MaxPreKeys
  BY <1>1 DEF Setup, TypeOK
<1>3. i \in PreKeyIds /\ i \in Nat /\ i <= MaxPreKeys
  BY <1>1, <1>2 DEF PreKeyIds
<1>4. /\ served' = [served EXCEPT ![q] = i]
      /\ keys' = [keys EXCEPT ![p] = keys[p] + 1]
      /\ proc' = [proc EXCEPT ![p].pc = "setup"]
      /\ accepted' = accepted /\ preKeys' = preKeys /\ sent' = sent
      /\ rejected' = rejected /\ reKeys' = reKeys /\ crashes' = crashes
      /\ reordered' = reordered
  BY DEF Setup
<1>5. /\ keys' \in [Devices -> Nat] /\ keys'[p] = keys[p] + 1 /\ keys'[q] = keys[q]
      /\ served' \in [Devices -> PreKeyIds] /\ served'[q] = i
  BY <1>1, <1>3, <1>4 DEF TypeOK
<1>6. \A r \in Devices : keys[r] <= keys'[r]
  BY <1>1, <1>5, Two
<1>7. convs' = [convs EXCEPT ![p] = table]
  BY <1>1, <1>5 DEF Setup, TypeOK
<1>8. /\ proc' \in [Devices -> Command] /\ proc'[p].pc = "setup"
      /\ proc'[p].out = proc[p].out /\ proc'[p].convs = proc[p].convs
      /\ proc'[q] = proc[q]
  <2> DEFINE command == [proc[p] EXCEPT !.pc = "setup"]
  <2>1. proc[p] \in Command /\ proc \in [Devices -> Command]
    BY <1>1 DEF TypeOK
  <2>2. command \in Command
    BY <2>1 DEF Command
  <2>3. command.pc = "setup" /\ command.out = proc[p].out /\ command.convs = proc[p].convs
    BY <2>1 DEF Command
  <2>4. proc' = [proc EXCEPT ![p] = command]
    BY <1>4, <2>1
  <2> HIDE DEF command
  <2> QED BY <1>1, <2>1, <2>2, <2>3, <2>4
<1>9. key \in Keys /\ key[1] = p /\ key[2] = keys[p] + 1 /\ <<q, i>> \in Keys
      /\ <<q, i>>[1] = q /\ <<q, i>>[2] = i
  BY <1>1, <1>3, Pairs
<1> HIDE DEF q, key, i
<1>10. OwnKey(p, key) /\ Known(key, keys') /\ Known(<<q, i>>, keys')
  <2>1. keys[p] + 1 > MaxPreKeys /\ keys[p] + 1 <= keys[p] + 1 /\ i <= keys[q]
    BY <1>1, <1>3
  <2> QED BY <1>5, <1>9, <2>1 DEF OwnKey, Known
<1>11. g \in Conv /\ ConvInv(p, g, keys') /\ g.cks = <<>>
  <2> DEFINE old == convs[p][0]
  <2>1. old \in Conv
    BY <1>1, Same
  <2> HIDE DEF old
  <2>2. q \in Devices /\ i \in PreKeyIds /\ key \in Keys /\ <<q, i>> \in Keys
    BY <1>1, <1>3, <1>9
  <2>3. RatchetAssumption
    OBVIOUS
  <2>4. LET x == AliceConv(old, key, q, i)
        IN x \in Conv /\ ConvInv(p, x, keys') /\ x.cks = <<>>
    BY <1>10, <2>1, <2>2, <2>3, AliceOk
  <2> QED BY <2>4 DEF old
<1> HIDE DEF g
<1>12. /\ table \in Tables /\ table[0] = g
       /\ \A k \in PreKeyIds : k # 0 => table[k] = convs[p][k]
  BY <1>1, <1>11, Same DEF Tables
<1> HIDE DEF table
<1>13. /\ convs' \in [Devices -> Tables] /\ convs'[p] = table /\ convs'[q] = convs[q]
  BY <1>1, <1>7, <1>12 DEF TypeOK
<1>14. TypeOK'
  BY <1>1, <1>4, <1>5, <1>8, <1>13 DEF TypeOK
<1>15. \A k \in PreKeyIds : /\ ConvInv(p, convs[p][k], keys')
                            /\ ConvInv(p, proc[p].convs[k], keys')
  BY <1>5, <1>6, Same, ConvStays
<1>16. \A k \in PreKeyIds : ConvInv(p, table[k], keys')
  BY <1>11, <1>12, <1>15
<1>17. \A c \in Primaries(convs'[p], proc'[p]) : GoesOn(p, c, preKeys'[p], keys')
  <2>1. GoesOn(p, table[0], preKeys'[p], keys')
    BY <1>11, <1>12 DEF GoesOn
  <2>2. GoesOn(p, proc[p].convs[0], preKeys'[p], keys')
    BY Same DEF Primaries
  <2> QED BY <1>8, <1>13, <2>1, <2>2 DEF Primaries
<1> QED BY <1>4, <1>6, <1>8, <1>13, <1>14, <1>15, <1>16, <1>17, QuietStep DEF q

-----------------------------------------------------------------------------
(* Decrypting.                                                             *)

(* A chain set up with a stored pre-key was not sent in before.            *)
LEMMA BobFresh ==
  ASSUME Inv, RatchetAssumption, NEW p \in Devices, NEW i \in preKeys[p],
         NEW a0 \in Keys, OwnKey(Other(p), a0), Known(a0, keys),
         NEW pk, pk \subseteq preKeys[p], i \notin pk
  PROVE  LET c == <<{a0, <<p, i>>}>>
         IN New(p, c) /\ ChainOk(p, c, pk, keys)
<1> DEFINE q == Other(p)
           s == {a0, <<p, i>>}
           c == <<s>>
<1>1. /\ q \in Devices /\ q # p /\ Other(q) = p
      /\ i \in 1 .. MaxPreKeys /\ i \in Nat /\ MaxPreKeys \in Nat
      /\ keys[p] \in Nat /\ keys[p] >= MaxPreKeys
  BY Two DEF Inv, TypeOK, RatchetAssumption
<1>2. i <= MaxPreKeys /\ i <= keys[p] /\ ~(i > MaxPreKeys)
  BY <1>1
<1>3. /\ <<p, i>> \in Keys /\ <<p, i>>[1] = p /\ <<p, i>>[2] = i
      /\ a0[1] = q /\ a0 \in s /\ <<p, i>> \in s
  BY <1>1, Pairs DEF OwnKey
<1>4. Known(<<p, i>>, keys)
  BY <1>2, <1>3 DEF Known
<1>5. s \in SUBSET Keys /\ c \in Chains /\ KnownChain(c, keys) /\ c[1] = s /\ Len(c) = 1
  BY <1>3, <1>4, OneAgreement, OneLong
<1>6. BobChain(p, c, pk)
  BY <1>1 DEF BobChain
<1>7. ChainOk(p, c, pk, keys)
  BY <1>5, <1>6 DEF ChainOk
<1>8. \A t \in SUBSET Keys : c = <<t>> => s = t
  BY <1>5, OneLong
<1> HIDE DEF s, c
<1>9. ~BobChain(p, c, preKeys[p])
  <2> SUFFICES ASSUME NEW j \in (1 .. MaxPreKeys) \ preKeys[p], NEW b0 \in Keys,
                      OwnKey(q, b0), c = <<{b0, <<p, j>>}>>
               PROVE  FALSE
    BY DEF BobChain
  <2>1. <<p, j>> \in Keys /\ <<p, j>>[2] = j
    BY Pairs
  <2>2. s = {b0, <<p, j>>}
    BY <1>8, <2>1
  <2>3. <<p, i>> # b0
    BY <1>1, <1>3 DEF OwnKey
  <2>4. <<p, i>> = <<p, j>>
    BY <1>3, <2>2, <2>3
  <2> QED BY <1>3, <2>1, <2>4
<1>10. ~BobChain(q, c, preKeys[q])
  <2> SUFFICES ASSUME NEW j \in 1 .. MaxPreKeys, NEW b0 \in Keys,
                      OwnKey(p, b0), c = <<{b0, <<q, j>>}>>
               PROVE  FALSE
    BY <1>1 DEF BobChain
  <2>1. <<q, j>> \in Keys /\ <<q, j>>[1] = q
    BY <1>1, Pairs
  <2>2. s = {b0, <<q, j>>}
    BY <1>8, <2>1
  <2>3. <<p, i>> = b0
    BY <1>1, <1>3, <2>1, <2>2
  <2> QED BY <1>2, <1>3, <2>3 DEF OwnKey
<1>11. c \notin Sending(convs[p], proc[p], sent[p])
  BY <1>5, <1>9, DeviceHas DEF DeviceInv, ChainOk
<1>12. c \notin Sending(convs[q], proc[q], sent[q])
  BY <1>1, <1>5, <1>10, DeviceHas DEF DeviceInv, ChainOk
<1> QED BY <1>7, <1>11, <1>12 DEF New, c, s, q

(* The message p decrypts.                                                 *)
LEMMA Received ==
  ASSUME Inv, RatchetAssumption, NEW p \in Devices, NEW i, Take(p, i)
  PROVE  LET m == sent[Other(p)][i]
         IN m \in Message /\ MsgInv(Other(p), m, keys)
<1> DEFINE q == Other(p)
           m == sent[q][i]
<1>1. q \in Devices /\ i \in DOMAIN sent[q]
  BY Two DEF Take, Waiting
<1>2. m \in Messages(proc[q], sent[q])
  BY <1>1 DEF Messages
<1>3. /\ DeviceType(convs[q], proc[q], sent[q], preKeys[q])
      /\ DeviceInv(q, convs[q], proc[q], sent[q], preKeys[q], keys)
  BY <1>1, DeviceHas
<1> HIDE DEF m, q
<1>4. m \in Message
  BY <1>2, <1>3, PartTypes
<1>5. MsgInv(q, m, keys)
  BY <1>2, <1>3 DEF DeviceInv
<1> QED BY <1>4, <1>5 DEF m, q

(* The context a message is decrypted with.                                *)
LEMMA PreparedOk ==
  ASSUME Inv, RatchetAssumption, NEW p \in Devices, NEW c \in Conv, ConvInv(p, c, keys),
         NEW m \in Message, MsgInv(Other(p), m, keys)
  PROVE  LET g == Prepared(c, m, p)
         IN /\ g \in Conv /\ ConvInv(p, g, keys)
            /\ \/ g.cks = c.cks /\ g.ns = c.ns
               \/ /\ m.setup /\ m.preKey \in preKeys[p] /\ m.a0 \in Keys
                  /\ g.cks = <<{m.a0, <<p, m.preKey>>}>>
<1> DEFINE g == Prepared(c, m, p)
<1>1. m.ctx \in Keys /\ m.ctx # None /\ (m.a0 # None => m.a0 \in Keys) /\ None \notin Keys
  BY Pairs DEF Message
<1>2. CASE ~m.setup
  <2>1. g = c
    BY <1>2 DEF Prepared
  <2> QED BY <2>1
<1>3. CASE m.setup /\ m.preKey \in preKeys[p]
  <2>1. g = BobConv(c, m, p)
    BY <1>3 DEF Prepared
  <2>2. m.a0 \in Keys /\ Known(m.a0, keys)
    BY <1>1, <1>3 DEF MsgInv
  <2>3. /\ m.preKey \in Nat /\ m.preKey <= MaxPreKeys /\ MaxPreKeys \in Nat
        /\ keys[p] \in Nat /\ keys[p] >= MaxPreKeys
    BY <1>3 DEF Inv, TypeOK, RatchetAssumption
  <2>4. m.preKey <= keys[p] /\ <<p, m.preKey>> \in Keys
    BY <2>3, Pairs
  <2>5. Known(<<p, m.preKey>>, keys)
    BY <2>4 DEF Known
  <2>6. /\ BobConv(c, m, p) \in Conv /\ ConvInv(p, BobConv(c, m, p), keys)
        /\ BobConv(c, m, p).cks = <<{m.a0, <<p, m.preKey>>}>>
    BY <2>2, <2>4, <2>5, BobOk
  <2> QED BY <1>3, <2>1, <2>2, <2>6
<1>4. CASE m.setup /\ m.preKey \notin preKeys[p]
  <2>1. g = [c EXCEPT !.ctx = m.ctx]
    BY <1>4 DEF Prepared
  <2> HIDE DEF g
  <2>2. g \in Conv
    BY <1>1, <2>1 DEF Conv
  <2>3. /\ g.root = c.root /\ g.cks = c.cks /\ g.dhs = c.dhs /\ g.dhr = c.dhr
        /\ g.a0 = c.a0 /\ g.ctx = m.ctx /\ g.flag = c.flag /\ g.ns = c.ns
    BY <2>1 DEF Conv
  <2>4. ConvInv(p, g, keys)
    BY <1>1, <2>3 DEF ConvInv
  <2> QED BY <2>2, <2>3, <2>4 DEF g
<1> QED BY <1>2, <1>3, <1>4

LEMMA DecryptedOk ==
  ASSUME RatchetAssumption, NEW p \in Devices, NEW c \in Conv, NEW ks, ConvInv(p, c, ks),
         NEW m \in Message, Known(m.dh, ks), Opens(c, m)
  PROVE  LET g == Decrypted(c, m)
         IN g \in Conv /\ ConvInv(p, g, ks) /\ g.cks = c.cks /\ g.ns = c.ns
<1>1. CASE m.key \in c.staged
  BY <1>1, WithStagedOk DEF Decrypted
<1>2. CASE m.key \notin c.staged
  <2>1. OpensWithChain(c, m)
    BY <1>2 DEF Opens
  <2> QED BY <1>2, <2>1, WithChainOk DEF Decrypted
<1> QED BY <1>1, <1>2

LEMMA Decrypt_Inv ==
  ASSUME Inv, RatchetAssumption, NEW p \in Devices, NEW i \in 1 .. MaxSends, Decrypt(p, i)
  PROVE  Inv'
<1> DEFINE q == Other(p)
           m == sent[q][i]
<1>1. TypeOK /\ q \in Devices /\ q # p /\ 0 \in PreKeyIds
  BY Two, IdleOk, Same DEF Inv
<1>2. m \in Message /\ MsgInv(q, m, keys) /\ Known(m.dh, keys)
  BY Received DEF Decrypt, MsgInv
<1>3. PICK k \in Tried(p, m) :
        /\ MayOpen(p, k, m)
        /\ proc' = [proc EXCEPT ![p] =
             [Idle EXCEPT !.pc = "decrypted", !.in = i,
                          !.convs = [convs[p] EXCEPT ![k] =
                            Decrypted(Prepared(convs[p][k], m, p), m)]]]
        /\ convs' = IF m.key \in Prepared(convs[p][k], m, p).staged
                    THEN [convs EXCEPT ![p][k] = WithStaged(@, m)]
                    ELSE convs
  BY DEF Decrypt
<1>4. /\ accepted' = accepted /\ served' = served /\ keys' = keys /\ sent' = sent
      /\ rejected' = rejected /\ reKeys' = reKeys /\ crashes' = crashes
      /\ preKeys' \in {preKeys, [preKeys EXCEPT ![p] = @ \ {m.preKey}]}
      /\ m.setup => preKeys' = [preKeys EXCEPT ![p] = @ \ {m.preKey}]
  BY DEF Decrypt, TakePreKey
<1>5. reordered' \in BOOLEAN
  BY DEF Decrypt, Take, Inv, TypeOK
<1>6. k \in PreKeyIds
  BY <1>1, <1>2 DEF Tried, Message
<1>7. /\ preKeys' \in [Devices -> SUBSET (1 .. MaxPreKeys)]
      /\ preKeys'[q] = preKeys[q] /\ preKeys'[p] \subseteq preKeys[p]
      /\ m.setup => m.preKey \notin preKeys'[p]
  BY <1>1, <1>4 DEF TypeOK
<1> DEFINE old == convs[p][k]
           c == Prepared(old, m, p)
           g == Decrypted(c, m)
           table == [convs[p] EXCEPT ![k] = g]
           left == WithStaged(old, m)
<1>8. old \in Conv /\ ConvInv(p, old, keys)
  BY <1>6, Same
<1> HIDE DEF q, m
<1>9. /\ c \in Conv /\ ConvInv(p, c, keys)
      /\ \/ c.cks = old.cks /\ c.ns = old.ns
         \/ /\ m.setup /\ m.preKey \in preKeys[p] /\ m.a0 \in Keys
            /\ c.cks = <<{m.a0, <<p, m.preKey>>}>>
  BY <1>2, <1>8, PreparedOk DEF q
<1>10. Opens(c, m)
  BY <1>3 DEF MayOpen
<1> HIDE DEF old, c
<1>11. g \in Conv /\ ConvInv(p, g, keys) /\ g.cks = c.cks /\ g.ns = c.ns
  BY <1>2, <1>9, <1>10, DecryptedOk
<1>12. left \in Conv /\ ConvInv(p, left, keys) /\ left.cks = old.cks /\ left.ns = old.ns
  BY <1>8, WithStagedOk
<1>13. /\ proc' = [proc EXCEPT ![p] = [Idle EXCEPT !.pc = "decrypted", !.in = i, !.convs = table]]
       /\ convs' \in {convs, [convs EXCEPT ![p] = [convs[p] EXCEPT ![k] = left]]}
  BY <1>1, <1>3 DEF old, c, TypeOK
<1> HIDE DEF g, left
<1>14. /\ table \in Tables /\ table[k] = g
       /\ \A l \in PreKeyIds : l # k => table[l] = convs[p][l]
  BY <1>6, <1>11, Same DEF Tables
<1> HIDE DEF table
<1>15. /\ proc' \in [Devices -> Command] /\ proc'[q] = proc[q] /\ proc'[p].pc = "decrypted"
       /\ proc'[p].out = NoMessage /\ proc'[p].convs = table
  <2>1. Idle \in Command /\ Idle.out = NoMessage
    BY IdleOk, Same
  <2> DEFINE command == [Idle EXCEPT !.pc = "decrypted", !.in = i, !.convs = table]
  <2>2. i \in Nat
    OBVIOUS
  <2>3. command \in Command
    BY <1>14, <2>1, <2>2 DEF Command
  <2>4. command.pc = "decrypted" /\ command.out = NoMessage /\ command.convs = table
    BY <2>1 DEF Command
  <2> HIDE DEF command
  <2>5. proc' = [proc EXCEPT ![p] = command]
    BY <1>13 DEF command
  <2> QED BY <1>1, <2>3, <2>4, <2>5 DEF TypeOK
<1>16. /\ convs' \in [Devices -> Tables] /\ convs'[q] = convs[q]
       /\ \A l \in PreKeyIds : /\ ConvInv(p, convs'[p][l], keys)
                               /\ convs'[p][l].cks = convs[p][l].cks
                               /\ convs'[p][l].ns = convs[p][l].ns
  <2>1. CASE convs' = convs
    BY <1>1, <2>1, Same DEF TypeOK
  <2>2. CASE convs' = [convs EXCEPT ![p] = [convs[p] EXCEPT ![k] = left]]
    <3> DEFINE rest == [convs[p] EXCEPT ![k] = left]
    <3>1. /\ rest \in Tables /\ rest[k] = left
          /\ \A l \in PreKeyIds : l # k => rest[l] = convs[p][l]
      BY <1>6, <1>12, Same DEF Tables
    <3> HIDE DEF rest
    <3>2. convs' \in [Devices -> Tables] /\ convs'[q] = convs[q] /\ convs'[p] = rest
      BY <1>1, <2>2, <3>1 DEF TypeOK, rest
    <3>3. \A l \in PreKeyIds : /\ ConvInv(p, rest[l], keys)
                               /\ rest[l].cks = convs[p][l].cks
                               /\ rest[l].ns = convs[p][l].ns
      BY <1>12, <3>1, Same DEF old
    <3> QED BY <3>2, <3>3
  <2> QED BY <1>13, <2>1, <2>2
<1>17. TypeOK'
  BY <1>1, <1>4, <1>5, <1>7, <1>15, <1>16 DEF TypeOK
<1>18. \A l \in PreKeyIds : ConvInv(p, table[l], keys)
  BY <1>11, <1>14, Same
<1>19. /\ GoesOn(p, convs'[p][0], preKeys'[p], keys)
       /\ GoesOn(p, convs[p][0], preKeys'[p], keys)
  BY <1>1, <1>16 DEF GoesOn, Primaries
<1>20. GoesOn(p, table[0], preKeys'[p], keys)
  <2>1. CASE k # 0
    BY <1>1, <1>14, <1>19, <2>1
  <2>2. CASE k = 0 /\ c.cks = old.cks /\ c.ns = old.ns
    BY <1>11, <1>14, <2>2 DEF GoesOn, Primaries, old
  <2>3. CASE /\ k = 0 /\ m.setup /\ m.preKey \in preKeys[p] /\ m.a0 \in Keys
             /\ c.cks = <<{m.a0, <<p, m.preKey>>}>>
    <3>1. OwnKey(q, m.a0) /\ Known(m.a0, keys)
      BY <1>2, <2>3 DEF MsgInv
    <3>2. LET x == <<{m.a0, <<p, m.preKey>>}>>
          IN New(p, x) /\ ChainOk(p, x, preKeys'[p], keys)
      BY <1>7, <2>3, <3>1, BobFresh DEF q
    <3> QED BY <1>11, <1>14, <2>3, <3>2 DEF GoesOn
  <2> QED BY <1>9, <2>1, <2>2, <2>3
<1>21. \A x \in Primaries(convs'[p], proc'[p]) : GoesOn(p, x, preKeys'[p], keys')
  BY <1>4, <1>15, <1>19, <1>20 DEF Primaries
<1>22. \A r \in Devices : keys[r] <= keys'[r]
  BY <1>4, Same
<1> QED BY <1>4, <1>7, <1>15, <1>16, <1>17, <1>18, <1>21, <1>22, QuietStep DEF q

-----------------------------------------------------------------------------
(* Encrypting.                                                             *)

(* The context a message is encrypted with, and the message.               *)
LEMMA TurnedOk ==
  ASSUME RatchetAssumption, NEW p \in Devices, NEW c \in Conv,
         NEW ks \in [Devices -> Nat], NEW ns \in [Devices -> Nat],
         \A q \in Devices : ks[q] <= ns[q], ConvInv(p, c, ks),
         NEW key \in Keys, ~Known(key, ks), c.flag => Known(key, ns),
         Turned(c, key).root # <<>>
  PROVE  LET g == Turned(c, key)
         IN /\ g \in Conv /\ ConvInv(p, g, ns) /\ g.cks # <<>> /\ g.dhs # None /\ g.ctx # None
            /\ \/ g = c
               \/ Len(g.cks) # 1 /\ ~KnownChain(g.cks, ks)
<1> DEFINE g == Turned(c, key)
<1>1. ConvInv(p, c, ns)
  BY ConvStays
<1>2. CASE ~c.flag
  <2>1. g = c
    BY <1>2 DEF Turned
  <2>2. c.root # <<>>
    BY <2>1
  <2> QED BY <1>1, <1>2, <2>1, <2>2 DEF ConvInv
<1>3. CASE c.flag
  <2> DEFINE chain == Append(c.root, {key, c.dhr})
  <2>1. g = [c EXCEPT !.dhs = key, !.root = chain, !.cks = chain, !.pns = c.ns, !.ns = 0,
                      !.flag = FALSE]
    BY <1>3 DEF Turned, Conv
  <2>2. /\ c.root \in Chains /\ c.dhr \in Keys /\ Known(c.dhr, ns) /\ Known(key, ns)
        /\ KnownChain(c.root, ns) /\ c.root # <<>> /\ c.ctx # None
    BY <1>1, <1>3 DEF ConvInv, Conv
  <2>3. chain \in Chains /\ chain # <<>> /\ KnownChain(chain, ns)
    BY <2>2, AppendKnown
  <2>4. /\ Len(chain) = Len(c.root) + 1 /\ chain[Len(c.root) + 1] = {key, c.dhr}
        /\ DOMAIN chain = 1 .. (Len(c.root) + 1) /\ Len(c.root) \in Nat /\ Len(c.root) >= 1
    BY <2>2, Longer, ChainLen
  <2>5. Len(chain) # 1
    BY <2>4
  <2>6. Len(c.root) + 1 \in DOMAIN chain /\ key \in chain[Len(c.root) + 1]
    BY <2>4
  <2>7. ~KnownChain(chain, ks)
    BY <2>6 DEF KnownChain
  <2>8. key # None
    BY Pairs
  <2> HIDE DEF chain, g
  <2>9. c.ns \in Nat
    BY DEF Conv
  <2>10. g \in Conv
    BY <2>1, <2>3, <2>9 DEF Conv
  <2>11. /\ g.root = chain /\ g.cks = chain /\ g.dhs = key /\ g.dhr = c.dhr
         /\ g.a0 = c.a0 /\ g.ctx = c.ctx /\ g.flag = FALSE
    BY <2>1 DEF Conv
  <2>12. ConvInv(p, g, ns)
    BY <1>1, <2>2, <2>3, <2>8, <2>11 DEF ConvInv
  <2> QED BY <2>2, <2>3, <2>5, <2>7, <2>8, <2>10, <2>11, <2>12 DEF g
<1> QED BY <1>2, <1>3

LEMMA WireOk ==
  ASSUME NEW p \in Devices, NEW g \in Conv, NEW ks, ConvInv(p, g, ks),
         g.dhs # None, g.ctx # None
  PROVE  LET m == Wire(g)
         IN /\ m \in Message /\ MsgInv(p, m, ks) /\ m.key = <<g.cks, g.ns>>
            /\ m.key[1] = g.cks /\ m.key[2] = g.ns
<1> DEFINE m == Wire(g)
<1>1. /\ g.dhs \in Keys /\ g.ctx \in Keys /\ g.ns \in Nat /\ g.pns \in Nat
      /\ g.preKey \in PreKeyIds /\ g.a0 \in Keys \union {None} /\ g.cks \in Chains
  BY DEF Conv
<1>2. <<g.cks, g.ns>> \in MsgKeys
  BY <1>1 DEF MsgKeys
<1>3. m \in Message
  BY <1>1, <1>2 DEF Wire, Message
<1>4. /\ m.setup = (g.a0 # None) /\ m.dh = g.dhs /\ m.a0 = g.a0
      /\ m.key = <<g.cks, g.ns>> /\ m.key[1] = g.cks /\ m.key[2] = g.ns
  BY DEF Wire
<1> HIDE DEF m
<1>5. MsgInv(p, m, ks)
  BY <1>4 DEF ConvInv, MsgInv
<1> QED BY <1>3, <1>4, <1>5 DEF m

LEMMA Encrypt_Inv ==
  ASSUME Inv, RatchetAssumption, NEW p \in Devices, Encrypt(p)
  PROVE  Inv'
<1> DEFINE q == Other(p)
           old == convs[p][0]
           key == <<p, keys[p] + 1>>
           g == Turned(old, key)
           w == Wire(g)
           next == [g EXCEPT !.ns = g.ns + 1]
           table == [convs[p] EXCEPT ![0] = next]
<1>1. /\ TypeOK /\ q \in Devices /\ q # p /\ 0 \in PreKeyIds /\ keys[p] \in Nat
      /\ keys \in [Devices -> Nat] /\ old \in Conv /\ ConvInv(p, old, keys)
      /\ \A r \in Devices : keys[r] <= keys[r]
  BY Two, IdleOk, Same DEF Inv, TypeOK
<1>2. /\ accepted' = accepted /\ served' = served /\ sent' = sent /\ preKeys' = preKeys
      /\ rejected' = rejected /\ reKeys' = reKeys /\ crashes' = crashes
      /\ reordered' = reordered
      /\ keys' = IF old.flag THEN [keys EXCEPT ![p] = @ + 1] ELSE keys
      /\ g.root # <<>>
      /\ proc' = [proc EXCEPT ![p] = [Idle EXCEPT !.pc = "stored", !.out = w]]
  BY DEF Encrypt, Generated
<1>3. convs' = [convs EXCEPT ![p] = table]
  BY <1>1 DEF Encrypt, TypeOK
<1>4. /\ keys' \in [Devices -> Nat] /\ \A r \in Devices : keys[r] <= keys'[r]
      /\ old.flag => keys'[p] = keys[p] + 1
  BY <1>1, <1>2
<1>5. key \in Keys /\ key[1] = p /\ key[2] = keys[p] + 1
  BY <1>1, Pairs
<1> HIDE DEF q, key
<1>6. ~Known(key, keys) /\ (old.flag => Known(key, keys'))
  BY <1>1, <1>4, <1>5 DEF Known
<1> HIDE DEF old
<1>7. /\ g \in Conv /\ ConvInv(p, g, keys') /\ g.cks # <<>> /\ g.dhs # None /\ g.ctx # None
      /\ g = old \/ (Len(g.cks) # 1 /\ ~KnownChain(g.cks, keys))
  <2>1. Turned(old, key).root # <<>>
    BY <1>2
  <2>2. /\ old \in Conv /\ ConvInv(p, old, keys) /\ keys \in [Devices -> Nat]
        /\ keys' \in [Devices -> Nat] /\ key \in Keys
    BY <1>1, <1>4, <1>5
  <2>3. \A r \in Devices : keys[r] <= keys'[r]
    BY <1>4
  <2>4. RatchetAssumption
    OBVIOUS
  <2> QED BY <1>6, <2>1, <2>2, <2>3, <2>4, TurnedOk
<1> HIDE DEF g
<1>8. /\ w \in Message /\ MsgInv(p, w, keys') /\ w.key = <<g.cks, g.ns>>
      /\ w.key[1] = g.cks /\ w.key[2] = g.ns
  BY <1>7, WireOk
<1> HIDE DEF w
<1>9. next \in Conv /\ next.cks = g.cks /\ next.ns = g.ns + 1 /\ g.ns \in Nat
  BY <1>7 DEF Conv
<1>10. ConvInv(p, next, keys')
  <2>1. /\ next.root = g.root /\ next.cks = g.cks /\ next.dhs = g.dhs /\ next.dhr = g.dhr
        /\ next.a0 = g.a0 /\ next.ctx = g.ctx /\ next.flag = g.flag
    BY <1>7 DEF Conv
  <2> HIDE DEF next
  <2> QED BY <1>7, <2>1 DEF ConvInv
<1> HIDE DEF next
<1>11. /\ table \in Tables /\ table[0] = next
       /\ \A k \in PreKeyIds : k # 0 => table[k] = convs[p][k]
  BY <1>1, <1>9, Same DEF Tables
<1> HIDE DEF table
<1>12. /\ Idle \in Command /\ Idle.convs = Empty
       /\ \A k \in PreKeyIds : ConvInv(p, Empty[k], keys') /\ Empty[k].cks = <<>>
  BY <1>4, IdleOk
<1>13. /\ proc' \in [Devices -> Command] /\ proc'[q] = proc[q]
       /\ proc'[p].out = w /\ proc'[p].convs = Empty
  <2> DEFINE command == [Idle EXCEPT !.pc = "stored", !.out = w]
  <2>1. command \in Command /\ command.out = w /\ command.convs = Empty
    BY <1>8, <1>12 DEF Command
  <2> HIDE DEF command
  <2>2. proc' = [proc EXCEPT ![p] = command]
    BY <1>2 DEF command
  <2> QED BY <1>1, <2>1, <2>2 DEF TypeOK
<1>14. convs' \in [Devices -> Tables] /\ convs'[p] = table /\ convs'[q] = convs[q]
  BY <1>1, <1>3, <1>11 DEF TypeOK
<1>15. TypeOK'
  BY <1>1, <1>2, <1>4, <1>13, <1>14 DEF TypeOK
<1>16. DeviceInv(p, convs[p], proc[p], sent[p], preKeys[p], keys')
  BY <1>1, <1>4, DeviceHas, DeviceStays
<1>17. \A k \in PreKeyIds : /\ ConvInv(p, convs'[p][k], keys')
                            /\ ConvInv(p, proc'[p].convs[k], keys')
  BY <1>10, <1>11, <1>12, <1>13, <1>14, <1>16 DEF DeviceInv
<1>18. \A m \in Messages(proc'[p], sent'[p]) : m \in {sent[p][i] : i \in DOMAIN sent[p]} \/ m = w
  BY <1>2, <1>13 DEF Messages
<1>19. \A m \in Messages(proc'[p], sent'[p]) : MsgInv(p, m, keys')
  BY <1>8, <1>16, <1>18 DEF DeviceInv, Messages
<1>20. \A x \in Primaries(convs'[p], proc'[p]) : x = next \/ x.cks = <<>>
  BY <1>1, <1>11, <1>12, <1>13, <1>14 DEF Primaries
<1>21. \A x \in Sending(convs'[p], proc'[p], sent'[p]) :
         x = <<>> \/ x \in Sending(convs[p], proc[p], sent[p]) \/ x = g.cks
  <2>1. \A m \in Messages(proc'[p], sent'[p]) :
          m.key[1] \in Sending(convs[p], proc[p], sent[p]) \/ m.key[1] = g.cks
    BY <1>8, <1>18 DEF Sending, Messages
  <2>2. \A x \in Primaries(convs'[p], proc'[p]) : x.cks = g.cks \/ x.cks = <<>>
    BY <1>9, <1>20
  <2> QED BY <2>1, <2>2 DEF Sending
<1>22. \/ g = old /\ g.cks \in Sending(convs[p], proc[p], sent[p])
       \/ Len(g.cks) # 1 /\ New(p, g.cks)
  <2>1. CASE g = old
    BY <2>1 DEF Sending, Primaries, old
  <2>2. CASE Len(g.cks) # 1 /\ ~KnownChain(g.cks, keys)
    <3>1. \A r \in Devices : g.cks \notin Sending(convs[r], proc[r], sent[r])
      BY <2>2, DeviceHas DEF DeviceInv, ChainOk
    <3> QED BY <1>1, <2>2, <3>1 DEF New, q
  <2> QED BY <1>7, <2>1, <2>2
<1>23. \A x \in Sending(convs'[p], proc'[p], sent'[p]) : ChainOk(p, x, preKeys'[p], keys')
  <2>1. ChainOk(p, <<>>, preKeys'[p], keys')
    BY EmptyChain DEF ChainOk, KnownChain
  <2>2. \A x \in Sending(convs[p], proc[p], sent[p]) : ChainOk(p, x, preKeys'[p], keys')
    BY <1>2, <1>16 DEF DeviceInv
  <2>3. ChainOk(p, g.cks, preKeys'[p], keys')
    <3>1. KnownChain(g.cks, keys')
      BY <1>7 DEF ConvInv
    <3> QED BY <1>22, <2>2, <3>1 DEF ChainOk
  <2> QED BY <1>21, <2>1, <2>2, <2>3
<1>24. \A m \in {sent[p][i] : i \in DOMAIN sent[p]} : m.key[1] = g.cks => m.key[2] < g.ns
  <2> SUFFICES ASSUME NEW m \in {sent[p][i] : i \in DOMAIN sent[p]}, m.key[1] = g.cks
               PROVE  m.key[2] < g.ns
    OBVIOUS
  <2>1. m \in Messages(proc[p], sent[p])
    BY DEF Messages
  <2>2. g = old
    BY <1>22, <2>1 DEF New, Sending
  <2>3. old \in Primaries(convs[p], proc[p])
    BY DEF Primaries, old
  <2> QED BY <1>7, <1>16, <2>1, <2>2, <2>3 DEF DeviceInv, Ahead
<1>25. \A m \in Messages(proc'[p], sent'[p]), x \in Primaries(convs'[p], proc'[p]) : Ahead(m, x)
  <2> SUFFICES ASSUME NEW m \in Messages(proc'[p], sent'[p]),
                      NEW x \in Primaries(convs'[p], proc'[p]),
                      m.key[1] # <<>>, m.key[1] = x.cks
               PROVE  m.key[2] < x.ns
    BY DEF Ahead
  <2>1. x = next
    BY <1>20
  <2>2. x.ns = g.ns + 1 /\ m.key[1] = g.cks /\ g.ns \in Nat
    BY <1>9, <2>1
  <2>3. m \in Message
    <3>1. \A l \in Messages(proc[p], sent[p]) : l \in Message
      BY DeviceHas, PartTypes
    <3> QED BY <1>8, <1>18, <3>1 DEF Messages
  <2>4. m.key[2] \in Nat
    BY <2>3 DEF Message, MsgKeys
  <2>5. m.key[2] <= g.ns
    <3>1. CASE m = w
      BY <1>8, <2>2, <3>1
    <3>2. CASE m # w
      <4>1. m.key[2] < g.ns
        BY <1>18, <1>24, <2>2, <3>2
      <4> QED BY <2>2, <2>4, <4>1
    <3> QED BY <3>1, <3>2
  <2> QED BY <2>2, <2>4, <2>5
<1>26. UsedOnce(proc'[p], sent'[p])
  <2>1. UsedOnce(proc[p], sent[p])
    BY <1>16 DEF DeviceInv
  <2>2. ASSUME NEW i \in DOMAIN sent[p], sent[p][i].key = w.key
        PROVE  FALSE
    <3>1. sent[p][i].key[1] = g.cks /\ sent[p][i].key[2] = g.ns
      BY <1>8, <2>2
    <3>2. sent[p][i].key[2] < g.ns
      BY <1>24, <3>1
    <3> QED BY <1>9, <3>1, <3>2
  <2>3. w.key[1] # <<>>
    BY <1>7, <1>8
  <2> QED BY <1>2, <1>13, <2>1, <2>2, <2>3 DEF UsedOnce
<1>27. DeviceInv(p, convs'[p], proc'[p], sent'[p], preKeys'[p], keys')
  BY <1>17, <1>19, <1>23, <1>25, <1>26 DEF DeviceInv
<1>28. \A x \in Sending(convs'[p], proc'[p], sent'[p]) :
         \/ x = <<>> \/ x \in Sending(convs[p], proc[p], sent[p])
         \/ x \notin Sending(convs[q], proc[q], sent[q])
  BY <1>21, <1>22 DEF New, q
<1> QED BY <1>2, <1>4, <1>13, <1>14, <1>15, <1>27, <1>28, StepKeeps DEF q

LEMMA HandOver_Inv ==
  ASSUME Inv, RatchetAssumption, NEW p \in Devices, HandOver(p)
  PROVE  Inv'
<1> DEFINE q == Other(p)
           out == proc[p].out
           longer == Append(sent[p], out)
<1>1. /\ TypeOK /\ q \in Devices /\ q # p /\ 0 \in PreKeyIds
      /\ keys \in [Devices -> Nat] /\ out \in Message /\ sent[p] \in Seq(Message)
      /\ \A r \in Devices : keys[r] <= keys[r]
  BY Two, IdleOk, Same DEF Inv, TypeOK
<1>2. /\ accepted' = accepted /\ served' = served /\ preKeys' = preKeys
      /\ rejected' = rejected /\ reKeys' = reKeys /\ crashes' = crashes
      /\ reordered' = reordered /\ keys' = keys /\ convs' = convs
      /\ sent' = [sent EXCEPT ![p] = longer] /\ proc' = [proc EXCEPT ![p] = Idle]
      /\ proc[p].pc = "stored"
  BY DEF HandOver
<1>3. /\ Idle \in Command /\ Idle.out = NoMessage /\ Idle.convs = Empty /\ Idle.pc = "idle"
      /\ \A k \in PreKeyIds : ConvInv(p, Empty[k], keys) /\ Empty[k].cks = <<>>
  BY <1>1, IdleOk
<1>4. NoMessage \in Message /\ MsgInv(p, NoMessage, keys) /\ NoMessage.key[1] = <<>>
  BY <1>1, NoMessageOk
<1>5. /\ longer \in Seq(Message) /\ DOMAIN longer = 1 .. (Len(sent[p]) + 1)
      /\ longer[Len(sent[p]) + 1] = out /\ DOMAIN sent[p] = 1 .. Len(sent[p])
      /\ Len(sent[p]) \in Nat /\ \A i \in DOMAIN sent[p] : longer[i] = sent[p][i]
  BY <1>1
<1> HIDE DEF longer
<1>6. \A i \in DOMAIN longer : i = Len(sent[p]) + 1 \/ i \in DOMAIN sent[p]
  BY <1>5
<1>7. /\ sent' \in [Devices -> Seq(Message)] /\ sent'[p] = longer /\ sent'[q] = sent[q]
      /\ proc' \in [Devices -> Command] /\ proc'[p] = Idle /\ proc'[q] = proc[q]
  BY <1>1, <1>2, <1>3, <1>5 DEF TypeOK
<1>8. TypeOK'
  BY <1>1, <1>2, <1>7 DEF TypeOK
<1>9. DeviceInv(p, convs[p], proc[p], sent[p], preKeys[p], keys)
  BY DeviceHas
<1>10. \A m \in Messages(proc'[p], sent'[p]) : m \in Messages(proc[p], sent[p]) \/ m = NoMessage
  BY <1>3, <1>5, <1>6, <1>7 DEF Messages
<1>11. \A m \in Messages(proc'[p], sent'[p]) : MsgInv(p, m, keys)
  BY <1>4, <1>9, <1>10 DEF DeviceInv
<1>12. \A x \in Primaries(convs'[p], proc'[p]) : x \in Primaries(convs[p], proc[p]) \/ x.cks = <<>>
  BY <1>1, <1>2, <1>3, <1>7 DEF Primaries
<1>13. \A c \in Sending(convs'[p], proc'[p], sent'[p]) :
         c = <<>> \/ c \in Sending(convs[p], proc[p], sent[p])
  BY <1>4, <1>10, <1>12 DEF Sending
<1>14. \A c \in Sending(convs'[p], proc'[p], sent'[p]) : ChainOk(p, c, preKeys[p], keys)
  <2>1. ChainOk(p, <<>>, preKeys[p], keys)
    BY EmptyChain DEF ChainOk, KnownChain
  <2> QED BY <1>9, <1>13, <2>1 DEF DeviceInv
<1>15. \A m \in Messages(proc'[p], sent'[p]), x \in Primaries(convs'[p], proc'[p]) : Ahead(m, x)
  BY <1>4, <1>9, <1>10, <1>12 DEF DeviceInv, Ahead
<1>16. UsedOnce(Idle, longer)
  <2>1. /\ \A i, j \in DOMAIN sent[p] : sent[p][i].key = sent[p][j].key => i = j
        /\ \A i \in DOMAIN sent[p] : sent[p][i].key[1] # <<>> /\ sent[p][i].key # out.key
        /\ out.key[1] # <<>>
    BY <1>2, <1>9 DEF DeviceInv, UsedOnce
  <2>2. ASSUME NEW i \in DOMAIN longer, NEW j \in DOMAIN longer, longer[i].key = longer[j].key
        PROVE  i = j
    BY <1>5, <1>6, <2>1, <2>2
  <2>3. \A i \in DOMAIN longer : longer[i].key[1] # <<>>
    BY <1>5, <1>6, <2>1
  <2>4. \A i \in DOMAIN longer : longer[i].key # NoMessage.key
    BY <1>4, <2>3
  <2>5. Idle.pc # "stored"
    BY <1>3
  <2> QED BY <1>3, <2>2, <2>3, <2>4, <2>5 DEF UsedOnce
<1>17. \A k \in PreKeyIds : ConvInv(p, convs'[p][k], keys) /\ ConvInv(p, proc'[p].convs[k], keys)
  BY <1>2, <1>3, <1>7, <1>9 DEF DeviceInv
<1>18. DeviceInv(p, convs'[p], proc'[p], sent'[p], preKeys'[p], keys')
  BY <1>2, <1>7, <1>11, <1>14, <1>15, <1>16, <1>17 DEF DeviceInv
<1> QED BY <1>1, <1>2, <1>7, <1>8, <1>13, <1>18, StepKeeps DEF q

-----------------------------------------------------------------------------
(* The theorems.                                                           *)

(* A message that is decrypted but not committed is one that was sent.     *)
InRange == \A p \in Devices : proc[p].pc = "decrypted" => proc[p].in \in 1 .. MaxSends

LEMMA Init_Inv ==
  ASSUME RatchetAssumption, Init
  PROVE  Inv /\ InRange
<1>1. keys \in [Devices -> Nat] /\ \A p \in Devices : keys[p] = MaxPreKeys
  BY DEF Init, RatchetAssumption
<1>2. ASSUME NEW p \in Devices
      PROVE  /\ Idle \in Command /\ Idle.out = NoMessage /\ Idle.convs = Empty
             /\ Idle.pc = "idle" /\ Empty \in Tables /\ 0 \in PreKeyIds
             /\ \A k \in PreKeyIds : ConvInv(p, Empty[k], keys) /\ Empty[k].cks = <<>>
             /\ MsgInv(p, NoMessage, keys) /\ NoMessage.key[1] = <<>>
  BY <1>1, IdleOk, NoMessageOk
<1>3. "a" \in Devices
  BY DEF Devices
<1>4. Idle \in Command /\ Empty \in Tables /\ 0 \in PreKeyIds
  BY <1>2, <1>3
<1>5. /\ served \in [Devices -> PreKeyIds] /\ proc \in [Devices -> Command]
      /\ convs \in [Devices -> Tables]
  BY <1>4 DEF Init
<1>6. /\ preKeys \in [Devices -> SUBSET (1 .. MaxPreKeys)]
      /\ sent \in [Devices -> Seq(Message)]
      /\ accepted \in [Devices -> SUBSET (1 .. MaxSends)]
      /\ rejected \in [Devices -> SUBSET (1 .. MaxSends)]
      /\ reordered \in BOOLEAN /\ crashes \in Nat /\ reKeys \in Nat
  <2>1. preKeys \in [Devices -> SUBSET (1 .. MaxPreKeys)]
    BY DEF Init
  <2>2. <<>> \in Seq(Message)
    OBVIOUS
  <2>3. sent \in [Devices -> Seq(Message)]
    BY <2>2 DEF Init
  <2>4. /\ accepted \in [Devices -> SUBSET (1 .. MaxSends)]
        /\ rejected \in [Devices -> SUBSET (1 .. MaxSends)]
    BY DEF Init
  <2>5. reordered \in BOOLEAN /\ crashes \in Nat /\ reKeys \in Nat
    BY DEF Init
  <2> QED BY <2>1, <2>3, <2>4, <2>5
<1>7. TypeOK
  BY <1>1, <1>5, <1>6 DEF TypeOK
<1>8. ASSUME NEW p \in Devices
      PROVE  /\ convs[p] = Empty /\ proc[p] = Idle /\ sent[p] = <<>>
             /\ \A m \in Messages(proc[p], sent[p]) : m = NoMessage
             /\ \A c \in Primaries(convs[p], proc[p]) : c = Empty[0]
             /\ \A c \in Sending(convs[p], proc[p], sent[p]) : c = <<>>
  <2>1. convs[p] = Empty /\ proc[p] = Idle /\ sent[p] = <<>>
    BY DEF Init
  <2>2. \A m \in Messages(proc[p], sent[p]) : m = NoMessage
    BY <1>2, <2>1 DEF Messages
  <2>3. \A c \in Primaries(convs[p], proc[p]) : c = Empty[0]
    BY <1>2, <2>1 DEF Primaries
  <2>4. \A c \in Sending(convs[p], proc[p], sent[p]) : c = <<>>
    BY <1>2, <2>2, <2>3 DEF Sending
  <2> QED BY <2>1, <2>2, <2>3, <2>4
<1>9. ASSUME NEW p \in Devices
      PROVE  DeviceInv(p, convs[p], proc[p], sent[p], preKeys[p], keys)
  <2>1. \A k \in PreKeyIds : ConvInv(p, convs[p][k], keys) /\ ConvInv(p, proc[p].convs[k], keys)
    BY <1>2, <1>8
  <2>2. \A m \in Messages(proc[p], sent[p]) : MsgInv(p, m, keys)
    BY <1>2, <1>8
  <2>3. \A c \in Sending(convs[p], proc[p], sent[p]) : ChainOk(p, c, preKeys[p], keys)
    <3>1. ChainOk(p, <<>>, preKeys[p], keys)
      BY EmptyChain DEF ChainOk, KnownChain
    <3> QED BY <1>8, <3>1
  <2>4. \A m \in Messages(proc[p], sent[p]), c \in Primaries(convs[p], proc[p]) : Ahead(m, c)
    BY <1>2, <1>8 DEF Ahead
  <2>5. UsedOnce(proc[p], sent[p])
    BY <1>2, <1>8, EmptyChain DEF UsedOnce
  <2> QED BY <2>1, <2>2, <2>3, <2>4, <2>5 DEF DeviceInv
<1>10. Apart
  BY <1>8 DEF Apart
<1>11. \A p \in Devices : keys[p] >= MaxPreKeys
  BY <1>1 DEF RatchetAssumption
<1>12. InRange
  BY <1>2, <1>8 DEF InRange
<1> QED BY <1>7, <1>9, <1>10, <1>11, <1>12 DEF Inv

LEMMA Next_InRange ==
  ASSUME Inv, RatchetAssumption, InRange, [Next]_vars
  PROVE  InRange'
<1>1. Idle.pc = "idle"
  BY DEF Idle
<1>2. proc \in [Devices -> Command]
  BY DEF Inv, TypeOK
<1>3. CASE proc' = proc
  BY <1>3 DEF InRange
<1>4. ASSUME NEW p \in Devices, NEW r \in Command, proc' = [proc EXCEPT ![p] = r],
             r.pc = "decrypted" => r.in \in 1 .. MaxSends
      PROVE  InRange'
  BY <1>2, <1>4 DEF InRange
<1>5. ASSUME NEW p \in Devices, NEW i \in 1 .. MaxSends, Decrypt(p, i)
      PROVE  InRange'
  <2>1. PICK k \in Tried(p, sent[Other(p)][i]) : proc' = [proc EXCEPT ![p] =
          [Idle EXCEPT !.pc = "decrypted", !.in = i,
             !.convs = [convs[p] EXCEPT ![k] =
               Decrypted(Prepared(convs[p][k], sent[Other(p)][i], p), sent[Other(p)][i])]]]
    BY <1>5 DEF Decrypt
  <2> QED BY <1>2, <2>1 DEF InRange, Idle
<1>6. ASSUME NEW p \in Devices, proc' = [proc EXCEPT ![p] = Idle]
      PROVE  InRange'
  BY <1>1, <1>2, <1>6 DEF InRange
<1>7. ASSUME NEW p \in Devices, Setup(p)
      PROVE  InRange'
  <2>1. proc' = [proc EXCEPT ![p].pc = "setup"]
    BY <1>7 DEF Setup
  <2> QED BY <1>2, <2>1 DEF InRange, Command
<1>8. ASSUME NEW p \in Devices, Encrypt(p)
      PROVE  InRange'
  <2>1. PICK m : proc' = [proc EXCEPT ![p] = [Idle EXCEPT !.pc = "stored", !.out = m]]
    BY <1>8 DEF Encrypt
  <2> QED BY <1>2, <2>1 DEF InRange, Idle
<1>9. CASE Next
  <2>1. ASSUME NEW p \in Devices, HandOver(p) \/ Commit(p) \/ Crash(p)
        PROVE  InRange'
    BY <1>6, <2>1 DEF HandOver, Commit, Crash
  <2>2. ASSUME NEW p \in Devices, ReKey(p) \/ \E i \in 1 .. MaxSends : Reject(p, i)
        PROVE  InRange'
    BY <1>3, <2>2 DEF ReKey, Reject
  <2> QED BY <1>5, <1>7, <1>8, <1>9, <2>1, <2>2 DEF Next
<1> QED BY <1>3, <1>9 DEF vars

LEMMA Next_Inv ==
  ASSUME Inv, RatchetAssumption, InRange, [Next]_vars
  PROVE  Inv'
<1>1. CASE UNCHANGED vars
  <2>1. /\ convs' = convs /\ preKeys' = preKeys /\ served' = served /\ keys' = keys
        /\ proc' = proc /\ sent' = sent /\ accepted' = accepted /\ rejected' = rejected
        /\ reordered' = reordered /\ crashes' = crashes /\ reKeys' = reKeys
    BY <1>1 DEF vars
  <2>2. TypeOK'
    BY <2>1 DEF Inv, TypeOK
  <2>3. Apart'
    BY <2>1 DEF Inv, Apart
  <2>4. /\ \A p \in Devices : keys'[p] >= MaxPreKeys
        /\ \A p \in Devices : DeviceInv(p, convs'[p], proc'[p], sent'[p], preKeys'[p], keys')
    BY <2>1 DEF Inv
  <2> QED BY <2>2, <2>3, <2>4 DEF Inv
<1>2. ASSUME NEW p \in Devices, Commit(p)
      PROVE  Inv'
  BY <1>2, Commit_Inv DEF InRange
<1>3. CASE Next
  BY <1>2, <1>3, Setup_Inv, Encrypt_Inv, HandOver_Inv, ReKey_Inv, Decrypt_Inv,
     Reject_Inv, Crash_Inv DEF Next
<1> QED BY <1>1, <1>3

LEMMA SpecInv == Spec => [](Inv /\ InRange)
<1>1. Init => Inv /\ InRange
  BY RatchetAssumption, Init_Inv
<1>2. Inv /\ InRange /\ [Next]_vars => (Inv /\ InRange)'
  BY RatchetAssumption, Next_Inv, Next_InRange
<1> QED BY <1>1, <1>2, PTL DEF Spec

(* Every variable keeps its type, for any numbers of pre-keys, messages,   *)
(* deaths and re-keys.                                                     *)
THEOREM TypeCorrect == Spec => []TypeOK
<1>1. Inv => TypeOK
  BY DEF Inv
<1> QED BY <1>1, SpecInv, PTL

(* No two messages are encrypted with the same key.                        *)
THEOREM KeysOnce == Spec => []KeyUsedOnce
<1>1. ASSUME Inv, NEW p \in Devices, NEW q \in Devices,
             NEW i \in DOMAIN sent[p], NEW j \in DOMAIN sent[q],
             sent[p][i].key = sent[q][j].key
      PROVE  p = q /\ i = j
  <2>1. UsedOnce(proc[p], sent[p])
    BY <1>1 DEF Inv, DeviceInv
  <2>2. /\ sent[p][i].key[1] \in Sending(convs[p], proc[p], sent[p])
        /\ sent[q][j].key[1] \in Sending(convs[q], proc[q], sent[q])
    BY DEF Sending, Messages
  <2>3. sent[p][i].key[1] # <<>>
    BY <2>1 DEF UsedOnce
  <2>4. p = q
    BY <1>1, <2>2, <2>3 DEF Inv, Apart
  <2>5. i = j
    BY <1>1, <2>1, <2>4 DEF UsedOnce
  <2> QED BY <2>4, <2>5
<1>2. Inv => KeyUsedOnce
  BY <1>1 DEF KeyUsedOnce
<1> QED BY <1>2, SpecInv, PTL

-----------------------------------------------------------------------------
(* Two contexts that talk.  x and y are the primary contexts of the two    *)
(* devices.                                                                *)

(* y receives with the chain x sends with, or x turned its ratchet since.  *)
Heard(x, y) == y.ckr = x.cks /\ y.dhr = x.dhs /\ y.nr <= x.ns
Unheard(x, y) == x.cks = Append(y.root, {x.dhs, y.dhs}) /\ y.dhr # x.dhs

(* The next ratchet turn is x's, or it has made it and y has not heard.    *)
Leads(x, y) ==
  /\ Heard(y, x) /\ y.cks = y.root /\ ~y.flag
  /\ \/ Heard(x, y) /\ x.root = y.root /\ x.flag
     \/ Unheard(x, y) /\ x.root = x.cks /\ ~x.flag

(* y opens message m of x, now and after whatever else it receives.        *)
OpenTo(x, y, m) ==
  /\ m.ctx = x.ctx /\ m.key[2] = m.np
  /\ \/ m.key \in y.staged
     \/ /\ m.key[1] = x.cks /\ m.dh = x.dhs /\ m.pn = x.pns
        /\ Heard(x, y) => m.np >= y.nr
     \/ /\ Unheard(x, y)
        /\ m.key[1] = y.ckr /\ m.dh = y.dhr /\ y.nr <= m.np /\ m.np < x.pns

(* x's messages O, when the pre-keys pk of y's device are left.            *)
Way(x, y, O, pk) ==
  \A m \in O : OpenTo(x, y, m) /\ (m.setup => m.preKey \notin pk /\ y.a0 = None)

End(x, y, pk) ==
  /\ x.root # <<>> /\ x.dhs # None
  /\ x.a0 # None => x.preKey \notin pk /\ y.a0 = None

Link(x, y, O, P, px, py) ==
  /\ Leads(x, y) \/ Leads(y, x)
  /\ x.ctx = y.ctx
  /\ End(x, y, py) /\ End(y, x, px)
  /\ Way(x, y, O, py) /\ Way(y, x, P, px)

LEMMA LinkTurns ==
  ASSUME NEW x, NEW y, NEW O, NEW P, NEW px, NEW py, Link(x, y, O, P, px, py)
  PROVE  Link(y, x, P, O, py, px)
  BY DEF Link

LEMMA LinkLess ==
  ASSUME NEW x, NEW y, NEW O, NEW P, NEW px, NEW py, Link(x, y, O, P, px, py),
         NEW Q, NEW R, NEW qx, NEW qy,
         Q \subseteq O, R \subseteq P, qx \subseteq px, qy \subseteq py
  PROVE  Link(x, y, Q, R, qx, qy)
  BY DEF Link, Way, End

LEMMA Either ==
  ASSUME NEW x, NEW y, Leads(x, y) \/ Leads(y, x)
  PROVE  Heard(x, y) \/ Unheard(x, y)
  BY DEF Leads

(* The keys an agreement gave but for those below the position.            *)
LEMMA InChainKeys ==
  ASSUME NEW c, NEW i \in Int, NEW j \in Int, NEW n \in Int, NEW K,
         K = <<c, n>>, i <= n, n < j
  PROVE  K \in ChainKeys(c, i, j)
  BY DEF ChainKeys

LEMMA MessageTypes ==
  ASSUME NEW m \in Message
  PROVE  /\ m.np \in Nat /\ m.pn \in Nat /\ m.key = <<m.key[1], m.key[2]>>
         /\ m.dh \in Keys /\ m.ctx \in Keys /\ m.key[1] \in Chains /\ m.setup \in BOOLEAN
  BY DEF Message, MsgKeys

LEMMA ConvTypes ==
  ASSUME NEW c \in Conv
  PROVE  /\ c.ns \in Nat /\ c.nr \in Nat /\ c.pns \in Nat /\ c.flag \in BOOLEAN
         /\ c.root \in Chains /\ c.cks \in Chains /\ c.ckr \in Chains
         /\ c.staged \in SUBSET MsgKeys
         /\ c.dhs \in Keys \union {None} /\ c.ctx \in Keys \union {None}
         /\ c.a0 \in Keys \union {None} /\ c.dhr \in Keys \union {None}
         /\ c.preKey \in PreKeyIds
  BY DEF Conv

(* The fields decryption leaves alone.                                     *)
LEMMA DecryptedFields ==
  ASSUME NEW c \in Conv, NEW m \in Message
  PROVE  LET z == Decrypted(c, m)
         IN /\ z.ctx = c.ctx /\ z.cks = c.cks /\ z.dhs = c.dhs /\ z.pns = c.pns
            /\ z.ns = c.ns /\ z.preKey = c.preKey /\ z.a0 \in {None, c.a0}
            /\ m.key \in c.staged =>
                 /\ z.root = c.root /\ z.ckr = c.ckr /\ z.dhr = c.dhr /\ z.flag = c.flag
                 /\ z.nr = c.nr /\ z.a0 = c.a0 /\ z.staged = c.staged \ {m.key}
            /\ m.key \notin c.staged =>
                 /\ z.root = (IF NewRatchet(c, m) THEN ChainOf(c, m) ELSE c.root)
                 /\ z.ckr = ChainOf(c, m) /\ z.dhr = m.dh
                 /\ z.flag = (c.flag \/ NewRatchet(c, m)) /\ z.nr = m.np + 1
                 /\ z.a0 = None /\ z.staged = c.staged \union Skipped(c, m)
<1>1. CASE m.key \in c.staged
  <2>1. Decrypted(c, m) = [c EXCEPT !.staged = @ \ {m.key}]
    BY <1>1 DEF Decrypted, WithStaged
  <2> QED BY <1>1, <2>1 DEF Conv
<1>2. CASE m.key \notin c.staged
  <2>1. Decrypted(c, m) = WithChain(c, m)
    BY <1>2 DEF Decrypted
  <2> DEFINE ch == ChainOf(c, m)
             nw == NewRatchet(c, m)
             sk == Skipped(c, m)
  <2> HIDE DEF ch, nw, sk
  <2>2. WithChain(c, m) =
          [c EXCEPT !.root = IF nw THEN ch ELSE @, !.ckr = ch, !.dhr = m.dh,
                    !.flag = @ \/ nw, !.nr = m.np + 1, !.a0 = None,
                    !.staged = @ \union sk]
    BY DEF WithChain, ch, nw, sk
  <2>3. LET z == WithChain(c, m)
        IN /\ z.ctx = c.ctx /\ z.cks = c.cks /\ z.dhs = c.dhs /\ z.pns = c.pns
           /\ z.ns = c.ns /\ z.preKey = c.preKey /\ z.a0 = None
           /\ z.root = (IF nw THEN ch ELSE c.root)
           /\ z.ckr = ch /\ z.dhr = m.dh
           /\ z.flag = (c.flag \/ nw) /\ z.nr = m.np + 1
           /\ z.staged = c.staged \union sk
    BY <2>2 DEF Conv
  <2> QED BY <1>2, <2>1, <2>3 DEF ch, nw, sk
<1> QED BY <1>1, <1>2

(* y opens every message on its way to it, and stays linked.               *)
LEMMA Hear_Link ==
  ASSUME NEW x \in Conv, NEW y \in Conv, NEW m \in Message,
         NEW O \in SUBSET Message, NEW P, NEW Q, NEW px, NEW py,
         Link(x, y, O, P, px, py), m \in O,
         Q \subseteq O, \A n \in Q : n.key # m.key,
         m.key[1] = x.cks => m.np < x.ns
  PROVE  Opens(y, m) /\ Link(x, Decrypted(y, m), Q, P, px, py)
<1> DEFINE z == Decrypted(y, m)
<1> SUFFICES Opens(y, m) /\ Link(x, z, Q, P, px, py)
  OBVIOUS
<1>1. /\ OpenTo(x, y, m) /\ (Heard(x, y) \/ Unheard(x, y)) /\ y.flag \in BOOLEAN
      /\ m.ctx = y.ctx /\ m.key = <<m.key[1], m.np>>
      /\ m.np \in Nat /\ y.nr \in Nat /\ x.ns \in Nat /\ x.pns \in Nat
  BY Either, MessageTypes, ConvTypes DEF Link, Way, OpenTo
<1>2. /\ z.ctx = y.ctx /\ z.cks = y.cks /\ z.dhs = y.dhs /\ z.pns = y.pns
      /\ z.ns = y.ns /\ z.preKey = y.preKey /\ z.a0 \in {None, y.a0}
      /\ m.key \in y.staged =>
           /\ z.root = y.root /\ z.ckr = y.ckr /\ z.dhr = y.dhr /\ z.flag = y.flag
           /\ z.nr = y.nr /\ z.staged = y.staged \ {m.key}
      /\ m.key \notin y.staged =>
           /\ z.root = (IF NewRatchet(y, m) THEN ChainOf(y, m) ELSE y.root)
           /\ z.ckr = ChainOf(y, m) /\ z.dhr = m.dh
           /\ z.flag = (y.flag \/ NewRatchet(y, m)) /\ z.nr = m.np + 1
           /\ z.staged = y.staged \union Skipped(y, m)
  BY DecryptedFields
<1>3. Way(z, x, P, px)
  BY <1>2 DEF Link, Way, OpenTo, Heard, Unheard
<1> HIDE DEF z
<1>4. ASSUME Opens(y, m), z.root # <<>>, Leads(x, z) \/ Leads(z, x),
             \A n \in Q : OpenTo(x, y, n) => OpenTo(x, z, n)
      PROVE  Opens(y, m) /\ Link(x, z, Q, P, px, py)
  <2>1. x.ctx = z.ctx /\ End(x, z, py) /\ End(z, x, px)
    BY <1>2, <1>4 DEF Link, End
  <2>2. Way(x, z, Q, py)
    BY <1>2, <1>4 DEF Link, Way
  <2> QED BY <1>3, <1>4, <2>1, <2>2 DEF Link
<1>5. CASE m.key \in y.staged
  <2>1. Opens(y, m)
    BY <1>1, <1>5 DEF Opens
  <2>2. /\ z.root # <<>> /\ (Leads(x, z) \/ Leads(z, x))
        /\ Heard(x, z) = Heard(x, y) /\ Unheard(x, z) = Unheard(x, y)
    BY <1>2, <1>5 DEF Link, End, Leads, Heard, Unheard
  <2>3. \A n \in Q : OpenTo(x, y, n) => OpenTo(x, z, n)
    BY <1>2, <1>5, <2>2 DEF OpenTo
  <2> QED BY <1>4, <2>1, <2>2, <2>3
<1>6. \A n \in Q : n \in Message /\ n.np \in Nat /\ n.key = <<n.key[1], n.key[2]>>
  BY MessageTypes
<1>7. CASE m.key \notin y.staged /\ Heard(x, y)
  <2>1. /\ ~Unheard(x, y) /\ m.key[1] = x.cks /\ m.dh = x.dhs /\ y.nr <= m.np
        /\ y.ckr = x.cks /\ y.dhr = x.dhs /\ m.np < x.ns
    BY <1>1, <1>7 DEF OpenTo, Heard, Unheard
  <2>2. ~NewRatchet(y, m) /\ ChainOf(y, m) = x.cks
    BY <2>1 DEF NewRatchet, ChainOf
  <2>3. Opens(y, m)
    BY <1>1, <2>1, <2>2 DEF Opens, OpensWithChain
  <2>4. /\ z.root = y.root /\ z.ckr = x.cks /\ z.dhr = x.dhs /\ z.flag = y.flag
        /\ z.nr = m.np + 1 /\ z.staged = y.staged \union ChainKeys(x.cks, y.nr, m.np)
    BY <1>1, <1>2, <1>7, <2>1, <2>2 DEF Skipped
  <2>5. Heard(x, z) /\ ~Unheard(x, z)
    BY <1>1, <2>1, <2>4 DEF Heard, Unheard
  <2>6. z.root # <<>> /\ (Leads(x, z) \/ Leads(z, x))
    BY <1>2, <2>1, <2>4, <2>5 DEF Link, End, Leads, Heard, Unheard
  <2>7. ASSUME NEW n \in Q, OpenTo(x, y, n)
        PROVE  OpenTo(x, z, n)
    <3>1. CASE n.key \in y.staged
      BY <2>4, <2>7, <3>1 DEF OpenTo
    <3>2. CASE n.key \notin y.staged
      <4>1. /\ n.key[1] = x.cks /\ n.dh = x.dhs /\ n.pn = x.pns /\ y.nr <= n.np
            /\ n.key = <<x.cks, n.np>> /\ n.ctx = x.ctx /\ n.key[2] = n.np
        BY <1>6, <1>7, <2>1, <2>7, <3>2 DEF OpenTo
      <4>2. n.np # m.np
        BY <1>1, <2>1, <4>1
      <4>3. CASE n.np < m.np
        <5>1. n.key \in ChainKeys(x.cks, y.nr, m.np)
          BY <1>1, <1>6, <4>1, <4>3, InChainKeys
        <5> QED BY <2>4, <4>1, <5>1 DEF OpenTo
      <4>4. CASE n.np > m.np
        <5>1. n.np >= z.nr
          BY <1>1, <1>6, <2>4, <4>4
        <5> QED BY <4>1, <5>1 DEF OpenTo
      <4> QED BY <1>1, <1>6, <4>2, <4>3, <4>4
    <3> QED BY <3>1, <3>2
  <2> QED BY <1>4, <2>3, <2>6, <2>7
<1>8. CASE m.key \notin y.staged /\ Unheard(x, y) /\ m.key[1] = x.cks /\ m.dh = x.dhs /\ m.pn = x.pns
  <2>1. /\ ~Heard(x, y) /\ x.cks = Append(y.root, {x.dhs, y.dhs}) /\ y.dhr # x.dhs
        /\ m.np < x.ns /\ y.root # <<>> /\ y.dhs # None /\ y.root \in Chains
    BY <1>8, ConvTypes DEF Heard, Unheard, Link, End
  <2>2. NewRatchet(y, m) /\ ChainOf(y, m) = x.cks
    BY <1>8, <2>1 DEF NewRatchet, ChainOf
  <2>3. Opens(y, m)
    BY <1>1, <1>8, <2>1, <2>2 DEF Opens, OpensWithChain
  <2>4. /\ z.root = x.cks /\ z.ckr = x.cks /\ z.dhr = x.dhs /\ z.flag = TRUE
        /\ z.nr = m.np + 1
        /\ z.staged = y.staged \union (ChainKeys(y.ckr, y.nr, x.pns) \union ChainKeys(x.cks, 0, m.np))
    BY <1>2, <1>8, <2>1, <2>2 DEF Skipped
  <2>5. /\ Heard(y, x) /\ x.root = x.cks /\ ~x.flag
    BY <2>1 DEF Link, Leads
  <2>6. Heard(x, z) /\ ~Unheard(x, z) /\ Heard(z, x)
    BY <1>1, <1>2, <2>1, <2>4, <2>5 DEF Heard, Unheard
  <2>7. Leads(z, x)
    BY <2>4, <2>5, <2>6 DEF Leads
  <2>8. z.root # <<>>
    BY <2>4, <2>5 DEF Link, End
  <2>9. ASSUME NEW n \in Q, OpenTo(x, y, n)
        PROVE  OpenTo(x, z, n)
    <3>1. CASE n.key \in y.staged
      BY <2>4, <2>9, <3>1 DEF OpenTo
    <3>2. CASE n.key[1] = x.cks /\ n.dh = x.dhs /\ n.pn = x.pns
      <4>1. /\ n.key = <<x.cks, n.np>> /\ n.ctx = x.ctx /\ n.key[2] = n.np
        BY <1>6, <2>9, <3>2 DEF OpenTo
      <4>2. n.np # m.np
        BY <1>1, <1>8, <4>1
      <4>3. CASE n.np < m.np
        <5>1. n.key \in ChainKeys(x.cks, 0, m.np)
          BY <1>1, <1>6, <4>1, <4>3, InChainKeys
        <5> QED BY <2>4, <4>1, <5>1 DEF OpenTo
      <4>4. CASE n.np > m.np
        <5>1. n.np >= z.nr
          BY <1>1, <1>6, <2>4, <4>4
        <5> QED BY <3>2, <4>1, <5>1 DEF OpenTo
      <4> QED BY <1>1, <1>6, <4>2, <4>3, <4>4
    <3>3. CASE n.key[1] = y.ckr /\ y.nr <= n.np /\ n.np < x.pns
      <4>1. /\ n.key = <<y.ckr, n.np>> /\ n.ctx = x.ctx /\ n.key[2] = n.np
        BY <1>6, <2>9, <3>3 DEF OpenTo
      <4>2. n.key \in ChainKeys(y.ckr, y.nr, x.pns)
        BY <1>1, <1>6, <3>3, <4>1, InChainKeys
      <4> QED BY <2>4, <4>1, <4>2 DEF OpenTo
    <3> QED BY <2>9, <3>1, <3>2, <3>3 DEF OpenTo
  <2> QED BY <1>4, <2>3, <2>7, <2>8, <2>9
<1>9. CASE m.key \notin y.staged /\ Unheard(x, y) /\ m.key[1] = y.ckr /\ m.dh = y.dhr /\ y.nr <= m.np /\ m.np < x.pns
  <2>1. ~NewRatchet(y, m) /\ ChainOf(y, m) = y.ckr
    BY <1>9 DEF NewRatchet, ChainOf
  <2>2. Opens(y, m)
    BY <1>1, <1>9, <2>1 DEF Opens, OpensWithChain
  <2>3. /\ z.root = y.root /\ z.ckr = y.ckr /\ z.dhr = y.dhr /\ z.flag = y.flag
        /\ z.nr = m.np + 1 /\ z.staged = y.staged \union ChainKeys(y.ckr, y.nr, m.np)
    BY <1>1, <1>2, <1>9, <2>1 DEF Skipped
  <2>4. Unheard(x, z) /\ ~Heard(x, z)
    BY <1>2, <1>9, <2>3 DEF Heard, Unheard
  <2>5. z.root # <<>> /\ (Leads(x, z) \/ Leads(z, x))
    BY <1>2, <1>9, <2>3, <2>4 DEF Link, End, Leads, Heard, Unheard
  <2>6. ASSUME NEW n \in Q, OpenTo(x, y, n)
        PROVE  OpenTo(x, z, n)
    <3>1. CASE n.key \in y.staged
      BY <2>3, <2>6, <3>1 DEF OpenTo
    <3>2. CASE n.key[1] = x.cks /\ n.dh = x.dhs /\ n.pn = x.pns
      BY <2>4, <2>6, <3>2 DEF OpenTo
    <3>3. CASE n.key[1] = y.ckr /\ n.dh = y.dhr /\ y.nr <= n.np /\ n.np < x.pns
      <4>1. /\ n.key = <<y.ckr, n.np>> /\ n.ctx = x.ctx /\ n.key[2] = n.np
        BY <1>6, <2>6, <3>3 DEF OpenTo
      <4>2. n.np # m.np
        BY <1>1, <1>9, <4>1
      <4>3. CASE n.np < m.np
        <5>1. n.key \in ChainKeys(y.ckr, y.nr, m.np)
          BY <1>1, <1>6, <3>3, <4>1, <4>3, InChainKeys
        <5> QED BY <2>3, <4>1, <5>1 DEF OpenTo
      <4>4. CASE n.np > m.np
        <5>1. z.nr <= n.np
          BY <1>1, <1>6, <2>3, <4>4
        <5> QED BY <2>3, <2>4, <3>3, <4>1, <5>1 DEF OpenTo
      <4> QED BY <1>1, <1>6, <4>2, <4>3, <4>4
    <3> QED BY <2>6, <3>1, <3>2, <3>3 DEF OpenTo
  <2> QED BY <1>4, <2>2, <2>5, <2>6
<1> QED BY <1>1, <1>5, <1>7, <1>8, <1>9 DEF OpenTo

(* x sends, perhaps after a turn of its ratchet with a new key.            *)
Sends(x, key) == [Turned(x, key) EXCEPT !.ns = @ + 1]

LEMMA SentFields ==
  ASSUME NEW x \in Conv, NEW key \in Keys
  PROVE  LET g == Turned(x, key)
             z == Sends(x, key)
             w == Wire(g)
         IN /\ z.ctx = x.ctx /\ z.a0 = x.a0 /\ z.preKey = x.preKey /\ z.dhr = x.dhr
            /\ z.ckr = x.ckr /\ z.nr = x.nr /\ z.staged = x.staged
            /\ x.flag =>
                 /\ z.dhs = key /\ z.root = Append(x.root, {key, x.dhr})
                 /\ z.cks = Append(x.root, {key, x.dhr}) /\ z.pns = x.ns /\ z.ns = 1
                 /\ z.flag = FALSE
                 /\ w.np = 0
            /\ ~x.flag =>
                 /\ z.dhs = x.dhs /\ z.root = x.root /\ z.cks = x.cks /\ z.pns = x.pns
                 /\ z.ns = x.ns + 1 /\ z.flag = FALSE
                 /\ w.np = x.ns
            /\ w.setup = (x.a0 # None) /\ w.ctx = x.ctx /\ w.dh = z.dhs /\ w.pn = z.pns
            /\ w.preKey = x.preKey /\ w.a0 = x.a0 /\ w.key = <<z.cks, w.np>>
<1> DEFINE g == Turned(x, key)
           z == Sends(x, key)
<1>1. CASE x.flag
  <2>1. g = [x EXCEPT !.dhs = key, !.root = Append(@, {key, x.dhr}),
                      !.cks = Append(x.root, {key, x.dhr}),
                      !.pns = x.ns, !.ns = 0, !.flag = FALSE]
    BY <1>1 DEF Turned
  <2>2. /\ g.ctx = x.ctx /\ g.a0 = x.a0 /\ g.preKey = x.preKey /\ g.dhr = x.dhr
        /\ g.ckr = x.ckr /\ g.nr = x.nr /\ g.staged = x.staged
        /\ g.dhs = key /\ g.root = Append(x.root, {key, x.dhr})
        /\ g.cks = Append(x.root, {key, x.dhr}) /\ g.pns = x.ns /\ g.ns = 0
        /\ g.flag = FALSE
    BY <2>1 DEF Conv
  <2>3. /\ z.ctx = x.ctx /\ z.a0 = x.a0 /\ z.preKey = x.preKey /\ z.dhr = x.dhr
        /\ z.ckr = x.ckr /\ z.nr = x.nr /\ z.staged = x.staged
        /\ z.dhs = key /\ z.root = Append(x.root, {key, x.dhr})
        /\ z.cks = Append(x.root, {key, x.dhr}) /\ z.pns = x.ns /\ z.ns = 1
        /\ z.flag = FALSE
    BY <2>1 DEF Sends, Conv
  <2> HIDE DEF g, z
  <2>4. LET w == Wire(g)
        IN /\ w.setup = (x.a0 # None) /\ w.ctx = x.ctx /\ w.dh = z.dhs /\ w.pn = z.pns
           /\ w.preKey = x.preKey /\ w.a0 = x.a0 /\ w.key = <<z.cks, w.np>> /\ w.np = 0
    BY <2>2, <2>3 DEF Wire
  <2> QED BY <1>1, <2>3, <2>4 DEF g, z
<1>2. CASE ~x.flag
  <2>1. g = x
    BY <1>2 DEF Turned
  <2>2. /\ z.ctx = x.ctx /\ z.a0 = x.a0 /\ z.preKey = x.preKey /\ z.dhr = x.dhr
        /\ z.ckr = x.ckr /\ z.nr = x.nr /\ z.staged = x.staged
        /\ z.dhs = x.dhs /\ z.root = x.root /\ z.cks = x.cks /\ z.pns = x.pns
        /\ z.ns = x.ns + 1 /\ z.flag = FALSE
    BY <1>2, <2>1 DEF Sends, Conv
  <2> HIDE DEF g, z
  <2>3. LET w == Wire(g)
        IN /\ w.setup = (x.a0 # None) /\ w.ctx = x.ctx /\ w.dh = z.dhs /\ w.pn = z.pns
           /\ w.preKey = x.preKey /\ w.a0 = x.a0 /\ w.key = <<z.cks, w.np>> /\ w.np = x.ns
    BY <2>1, <2>2 DEF Wire
  <2> QED BY <1>2, <2>2, <2>3 DEF g, z
<1> QED BY <1>1, <1>2

LEMMA Send_Link ==
  ASSUME NEW x \in Conv, NEW y \in Conv, NEW key \in Keys,
         NEW O \in SUBSET Message, NEW P, NEW px, NEW py,
         Link(x, y, O, P, px, py),
         x.flag => key # y.dhr,
         \A n \in O : n.key[1] = x.cks => n.key[2] < x.ns
  PROVE  Link(Sends(x, key), y, O \union {Wire(Turned(x, key))}, P, px, py)
<1> DEFINE z == Sends(x, key)
           w == Wire(Turned(x, key))
<1> SUFFICES Link(z, y, O \union {w}, P, px, py)
  OBVIOUS
<1>1. /\ z.ctx = x.ctx /\ z.a0 = x.a0 /\ z.preKey = x.preKey /\ z.dhr = x.dhr
      /\ z.ckr = x.ckr /\ z.nr = x.nr /\ z.staged = x.staged
      /\ x.flag =>
           /\ z.dhs = key /\ z.root = Append(x.root, {key, x.dhr})
           /\ z.cks = Append(x.root, {key, x.dhr}) /\ z.pns = x.ns /\ z.ns = 1
           /\ z.flag = FALSE
           /\ w.np = 0
      /\ ~x.flag =>
           /\ z.dhs = x.dhs /\ z.root = x.root /\ z.cks = x.cks /\ z.pns = x.pns
           /\ z.ns = x.ns + 1 /\ z.flag = FALSE
           /\ w.np = x.ns
      /\ w.setup = (x.a0 # None) /\ w.ctx = x.ctx /\ w.dh = z.dhs /\ w.pn = z.pns
      /\ w.preKey = x.preKey /\ w.a0 = x.a0 /\ w.key = <<z.cks, w.np>>
  BY SentFields
<1> HIDE DEF z, w
<1>2. /\ x.ns \in Nat /\ y.nr \in Nat /\ x.nr \in Nat /\ y.ns \in Nat /\ x.flag \in BOOLEAN
      /\ x.root \in Chains /\ key # None
      /\ Heard(x, y) \/ Unheard(x, y)
  BY Either, ConvTypes, Pairs DEF Link
<1>3. \A n \in O : n.np \in Nat
  BY MessageTypes
<1>4. ASSUME z.root # <<>>, z.dhs # None, Leads(z, y) \/ Leads(y, z),
             \A n \in O : OpenTo(x, y, n) => OpenTo(z, y, n),
             \A n \in P : OpenTo(y, x, n) => OpenTo(y, z, n),
             OpenTo(z, y, w)
      PROVE  Link(z, y, O \union {w}, P, px, py)
  <2>1. z.ctx = y.ctx /\ End(z, y, py) /\ End(y, z, px)
    BY <1>1, <1>4 DEF Link, End
  <2>2. w.setup => w.preKey \notin py /\ y.a0 = None
    BY <1>1 DEF Link, End
  <2>3. Way(z, y, O \union {w}, py)
    BY <1>4, <2>2 DEF Link, Way
  <2>4. Way(y, z, P, px)
    BY <1>1, <1>4 DEF Link, Way
  <2> QED BY <1>4, <2>1, <2>3, <2>4 DEF Link
<1>5. CASE ~x.flag
  <2>1. /\ Unheard(z, y) <=> Unheard(x, y)
        /\ Heard(y, z) <=> Heard(y, x)
        /\ Unheard(y, z) <=> Unheard(y, x)
        /\ Heard(x, y) => Heard(z, y)
    <3>1. Heard(x, y) => Heard(z, y)
      BY <1>1, <1>2, <1>5 DEF Heard
    <3> QED BY <1>1, <1>5, <3>1 DEF Heard, Unheard
  <2>2. z.root # <<>> /\ z.dhs # None /\ (Leads(z, y) \/ Leads(y, z))
    BY <1>1, <1>5, <2>1 DEF Link, Leads, End
  <2>3. Heard(z, y) => Heard(x, y)
    BY <1>1, <1>2, <1>5, <2>1 DEF Heard, Unheard
  <2>4. \A n \in O : OpenTo(x, y, n) => OpenTo(z, y, n)
    BY <1>1, <1>5, <2>1, <2>3 DEF OpenTo
  <2>5. \A n \in P : OpenTo(y, x, n) => OpenTo(y, z, n)
    BY <1>1, <2>1 DEF OpenTo
  <2>6. OpenTo(z, y, w)
    <3>1. Heard(z, y) => w.np >= y.nr
      BY <1>1, <1>2, <1>5, <2>3 DEF Heard
    <3> QED BY <1>1, <1>5, <3>1 DEF OpenTo
  <2> QED BY <1>4, <2>2, <2>4, <2>5, <2>6
<1>6. CASE x.flag
  <2>1. /\ Heard(y, x) /\ y.cks = y.root /\ ~y.flag /\ Heard(x, y) /\ x.root = y.root
    BY <1>6 DEF Link, Leads
  <2>2. /\ Unheard(z, y) /\ ~Heard(z, y) /\ Heard(y, z) /\ ~Unheard(x, y) /\ ~Unheard(y, x)
    BY <1>1, <1>6, <2>1 DEF Heard, Unheard
  <2>3. z.root # <<>> /\ z.dhs # None /\ Leads(z, y)
    <3>1. Append(x.root, {key, x.dhr}) # <<>>
      BY <1>2 DEF Chains
    <3> QED BY <1>1, <1>2, <1>6, <2>1, <2>2, <3>1 DEF Leads
  <2>4. ASSUME NEW n \in O, OpenTo(x, y, n)
        PROVE  OpenTo(z, y, n)
    <3>1. CASE n.key \in y.staged
      BY <1>1, <2>4, <3>1 DEF OpenTo
    <3>2. CASE n.key \notin y.staged
      <4>1. n.key[1] = x.cks /\ n.dh = x.dhs /\ n.np >= y.nr /\ n.np < x.ns
        BY <2>1, <2>2, <2>4, <3>2 DEF OpenTo
      <4>2. y.nr <= n.np /\ n.np < z.pns /\ n.key[1] = y.ckr /\ n.dh = y.dhr
        BY <1>1, <1>2, <1>3, <1>6, <2>1, <4>1 DEF Heard
      <4> QED BY <1>1, <2>2, <2>4, <4>2 DEF OpenTo
    <3> QED BY <3>1, <3>2
  <2>5. \A n \in P : OpenTo(y, x, n) => OpenTo(y, z, n)
    BY <1>1, <2>1, <2>2 DEF OpenTo
  <2>6. OpenTo(z, y, w)
    BY <1>1, <1>6, <2>2 DEF OpenTo
  <2> QED BY <1>4, <2>3, <2>4, <2>5, <2>6
<1> QED BY <1>2, <1>5, <1>6

-----------------------------------------------------------------------------
(* A context that its device set up with a pre-key of device q and that    *)
(* has received nothing.                                                   *)

PreKeyOf(c, q) == <<q, c.preKey>>
FirstChain(c, q) == <<{c.ctx, PreKeyOf(c, q)}>>
SecondChain(c, q) == Append(FirstChain(c, q), {c.dhs, PreKeyOf(c, q)})

AloneConv(c, q) ==
  /\ c.a0 = c.ctx /\ c.ctx # None
  /\ c.preKey \in 1 .. MaxPreKeys
  /\ c.ckr = FirstChain(c, q) /\ c.dhr = PreKeyOf(c, q)
  /\ c.nr = 0 /\ c.pns = 0 /\ c.staged = {}
  /\ c.flag => c.root = FirstChain(c, q) /\ c.ns = 0
  /\ ~c.flag => c.dhs # None /\ c.root = SecondChain(c, q) /\ c.cks = SecondChain(c, q)

(* A message sent in it.                                                   *)
SetupMessage(c, m) ==
  /\ m.setup /\ m.a0 = c.ctx /\ m.ctx = c.ctx /\ m.preKey = c.preKey
  /\ m.dh = c.dhs /\ m.pn = 0 /\ m.key = <<c.cks, m.np>>

LEMMA AliceAlone ==
  ASSUME NEW a0 \in Keys, NEW q, NEW i \in 1 .. MaxPreKeys
  PROVE  AloneConv(AliceConv(NewConv, a0, q, i), q)
         /\ AliceConv(NewConv, a0, q, i).preKey = i
         /\ AliceConv(NewConv, a0, q, i).flag
<1> DEFINE c == AliceConv(NewConv, a0, q, i)
<1>1. /\ c.a0 = a0 /\ c.ctx = a0 /\ c.preKey = i /\ c.ckr = <<{a0, <<q, i>>}>>
      /\ c.dhr = <<q, i>> /\ c.nr = 0 /\ c.pns = 0 /\ c.staged = {} /\ c.flag
      /\ c.root = <<{a0, <<q, i>>}>> /\ c.ns = 0
  BY DEF AliceConv, Reset, NewConv
<1> HIDE DEF c
<1>2. a0 # None
  BY Pairs
<1>3. AloneConv(c, q)
  BY <1>1, <1>2 DEF AloneConv, FirstChain, PreKeyOf
<1> QED BY <1>1, <1>3 DEF c

LEMMA Send_Alone ==
  ASSUME NEW c \in Conv, NEW q, NEW key \in Keys, AloneConv(c, q)
  PROVE  LET z == Sends(c, key)
             w == Wire(Turned(c, key))
         IN /\ AloneConv(z, q) /\ ~z.flag /\ SetupMessage(z, w)
            /\ z.preKey = c.preKey /\ z.ns = w.np + 1
            /\ ~c.flag => /\ w.np = c.ns /\ z.cks = c.cks /\ z.dhs = c.dhs
                          /\ \A m : SetupMessage(c, m) => SetupMessage(z, m)
<1> DEFINE z == Sends(c, key)
           w == Wire(Turned(c, key))
<1>1. /\ z.ctx = c.ctx /\ z.a0 = c.a0 /\ z.preKey = c.preKey /\ z.dhr = c.dhr
      /\ z.ckr = c.ckr /\ z.nr = c.nr /\ z.staged = c.staged
      /\ c.flag =>
           /\ z.dhs = key /\ z.root = Append(c.root, {key, c.dhr})
           /\ z.cks = Append(c.root, {key, c.dhr}) /\ z.pns = c.ns /\ z.ns = 1
           /\ z.flag = FALSE
           /\ w.np = 0
      /\ ~c.flag =>
           /\ z.dhs = c.dhs /\ z.root = c.root /\ z.cks = c.cks /\ z.pns = c.pns
           /\ z.ns = c.ns + 1 /\ z.flag = FALSE
           /\ w.np = c.ns
      /\ w.setup = (c.a0 # None) /\ w.ctx = c.ctx /\ w.dh = z.dhs /\ w.pn = z.pns
      /\ w.preKey = c.preKey /\ w.a0 = c.a0 /\ w.key = <<z.cks, w.np>>
  BY SentFields
<1> HIDE DEF z, w
<1>2. key # None /\ c.flag \in BOOLEAN
  BY Pairs, ConvTypes
<1>3. FirstChain(z, q) = FirstChain(c, q) /\ PreKeyOf(z, q) = PreKeyOf(c, q)
  BY <1>1 DEF FirstChain, PreKeyOf
<1>4. z.flag = FALSE /\ z.pns = 0 /\ z.ns = w.np + 1
  BY <1>1, <1>2 DEF AloneConv
<1>5. z.dhs # None /\ z.root = SecondChain(z, q) /\ z.cks = SecondChain(z, q)
  BY <1>1, <1>2, <1>3 DEF AloneConv, SecondChain
<1>6. AloneConv(z, q)
  BY <1>1, <1>3, <1>4, <1>5 DEF AloneConv
<1>7. SetupMessage(z, w)
  BY <1>1, <1>4 DEF AloneConv, SetupMessage
<1>8. ~c.flag => \A m : SetupMessage(c, m) => SetupMessage(z, m)
  BY <1>1 DEF SetupMessage
<1> QED BY <1>1, <1>4, <1>6, <1>7, <1>8 DEF z, w

(* The context the first of these messages sets up is linked to it.        *)
LEMMA Join_Link ==
  ASSUME NEW x \in Conv, NEW y \in Conv, NEW q \in Devices,
         NEW O \in SUBSET Message, NEW m \in O, NEW px, NEW py,
         AloneConv(x, q), ~x.flag, y.staged = {},
         \A n \in O : SetupMessage(x, n)
  PROVE  Link(x, BobConv(y, m, q), O, {}, px, py \ {m.preKey})
<1> DEFINE z == BobConv(y, m, q)
           pk == <<q, m.preKey>>
<1>1. /\ z.root = <<{m.a0, pk}>> /\ z.cks = <<{m.a0, pk}>> /\ z.ctx = m.ctx
      /\ z.dhs = pk /\ z.dhr = None /\ z.a0 = None /\ z.ns = 0 /\ z.nr = 0
      /\ z.pns = 0 /\ z.flag = FALSE /\ z.ckr = <<>>
  BY DEF BobConv, Reset, NewConv
<1> HIDE DEF z
<1>2. /\ SetupMessage(x, m) /\ x.ns \in Nat /\ pk # None /\ x.dhs # None
      /\ pk = PreKeyOf(x, q)
  BY ConvTypes DEF SetupMessage, AloneConv, None, PreKeyOf
<1>3. z.root = FirstChain(x, q) /\ z.root # <<>> /\ z.ctx = x.ctx /\ z.cks = FirstChain(x, q)
  BY <1>1, <1>2 DEF SetupMessage, FirstChain
<1>4. x.cks = SecondChain(x, q) /\ x.root = x.cks /\ x.root # <<>>
  <2>1. Append(FirstChain(x, q), {x.dhs, PreKeyOf(x, q)}) # <<>>
    BY DEF FirstChain
  <2> QED BY <2>1 DEF AloneConv, SecondChain
<1>5. Unheard(x, z) /\ ~Heard(x, z)
  BY <1>1, <1>2, <1>3, <1>4 DEF Unheard, Heard, SecondChain
<1>6. Leads(x, z)
  <2>1. /\ x.ckr = FirstChain(x, q) /\ x.dhr = PreKeyOf(x, q)
        /\ x.nr = 0 /\ ~x.flag
    BY DEF AloneConv
  <2>2. x.nr <= z.ns
    BY <1>1, <2>1
  <2>3. Heard(z, x)
    BY <1>1, <1>2, <1>3, <2>1, <2>2 DEF Heard
  <2> QED BY <1>1, <1>3, <1>4, <1>5, <2>1, <2>3 DEF Leads
<1>7. End(x, z, py \ {m.preKey}) /\ End(z, x, px)
  BY <1>1, <1>2, <1>3, <1>4 DEF End, SetupMessage
<1>8. Way(x, z, O, py \ {m.preKey})
  <2>1. \A n \in O : n.key = <<x.cks, n.np>> /\ n.ctx = x.ctx /\ n.dh = x.dhs /\ n.pn = x.pns
    BY DEF SetupMessage, AloneConv
  <2>2. \A n \in O : OpenTo(x, z, n)
    BY <1>5, <2>1 DEF OpenTo
  <2> QED BY <1>1, <1>2, <2>2 DEF Way, SetupMessage
<1>9. Way(z, x, {}, px)
  BY DEF Way
<1> QED BY <1>3, <1>6, <1>7, <1>8, <1>9 DEF Link, z

-----------------------------------------------------------------------------
(* The messages with which b set up a conversation that loses against a's. *)
(* Device a opens them in a secondary context.  cv stands for the contexts *)
(* of a, and pk for its pre-keys.                                          *)

SideFresh(cv, pk, k) == cv[k] = NewConv /\ k \in pk
SideUsed(cv, pk, k, chain, dh) ==
  cv[k].root # <<>> /\ cv[k].ckr = chain /\ cv[k].dhr = dh /\ k \notin pk

(* The key follows from what a set-up message carries.                     *)
SideKeys(m) ==
  LET pre == <<"a", m.preKey>>
  IN /\ m.preKey \in 1 .. MaxPreKeys /\ m.pn = 0
     /\ m.key = <<Append(<<{m.a0, pre}>>, {m.dh, pre}), m.np>>

SideOpen(cv, pk, m) ==
  \/ SideFresh(cv, pk, m.preKey)
  \/ /\ SideUsed(cv, pk, m.preKey, m.key[1], m.dh)
     /\ m.key \in cv[m.preKey].staged \/ cv[m.preKey].nr <= m.np

(* They belong to one conversation.                                        *)
Agree(m, n) == m.a0 = n.a0 /\ m.preKey = n.preKey /\ m.dh = n.dh

LEMMA Hear_Side ==
  ASSUME RatchetAssumption, NEW cv \in Tables, NEW m \in Message, m.setup,
         SideKeys(m), SideOpen(cv, preKeys["a"], m),
         Prepared(cv[m.preKey], m, "a") \in Conv
  PROVE  LET k == m.preKey
             c == Prepared(cv[k], m, "a")
             d == Decrypted(c, m)
             pk == preKeys["a"] \ {k}
         IN /\ k \in PreKeyIds /\ k # 0
            /\ cv[k].root = <<>> => k \in preKeys["a"]
            /\ Opens(c, m)
            /\ d.nr \in {cv[k].nr, m.np + 1}
            /\ \A nv : nv[k] = d =>
                 /\ SideUsed(nv, pk, k, m.key[1], m.dh)
                 /\ \A n \in Message :
                      n.key # m.key /\ SideKeys(n) /\ Agree(m, n)
                        /\ SideOpen(cv, preKeys["a"], n) => SideOpen(nv, pk, n)
<1> DEFINE k == m.preKey
           c == Prepared(cv[k], m, "a")
           d == Decrypted(c, m)
           pk == preKeys["a"] \ {k}
           pre == <<"a", k>>
           chain == Append(<<{m.a0, pre}>>, {m.dh, pre})
<1>1. /\ k \in PreKeyIds /\ k # 0 /\ cv[k] \in Conv
      /\ m.np \in Nat /\ m.dh \in Keys /\ m.ctx \in Keys /\ None \notin Keys
      /\ m.key = <<chain, m.np>> /\ m.key[1] = chain /\ m.pn = 0
      /\ chain \in Chains /\ chain # <<>>
  <2>1. k \in 1 .. MaxPreKeys /\ MaxPreKeys \in Nat
    BY DEF SideKeys, RatchetAssumption
  <2>2. k \in PreKeyIds /\ k # 0
    BY <2>1 DEF PreKeyIds
  <2>3. cv[k] \in Conv
    BY <2>2 DEF Tables
  <2>4. m.key = <<chain, m.np>> /\ m.pn = 0
    BY DEF SideKeys
  <2>6. chain # <<>>
    OBVIOUS
  <2> HIDE DEF chain, k
  <2>5. m.key[1] = chain /\ chain \in Chains
    BY <2>4, MessageTypes
  <2> QED BY <2>2, <2>3, <2>4, <2>5, <2>6, MessageTypes, Pairs
<1>2. \A n \in Message : SideKeys(n) /\ Agree(m, n) =>
        /\ n.key = <<chain, n.np>> /\ n.key[1] = chain /\ n.dh = m.dh
        /\ n.preKey = k /\ n.np \in Nat
  <2> SUFFICES ASSUME NEW n \in Message, SideKeys(n), Agree(m, n)
               PROVE  n.key = <<chain, n.np>> /\ n.key[1] = chain /\ n.dh = m.dh
                      /\ n.preKey = k /\ n.np \in Nat
    OBVIOUS
  <2>1. n.preKey = k /\ n.a0 = m.a0 /\ n.dh = m.dh
    BY DEF Agree
  <2>2. n.key = <<chain, n.np>>
    BY <2>1 DEF SideKeys
  <2> QED BY <2>1, <2>2, MessageTypes
<1>3. /\ \/ cv[k] = NewConv /\ k \in preKeys["a"]
         \/ /\ cv[k].root # <<>> /\ cv[k].ckr = chain /\ cv[k].dhr = m.dh
            /\ k \notin preKeys["a"]
            /\ m.key \in cv[k].staged \/ cv[k].nr <= m.np
      /\ \A n \in Message : SideKeys(n) /\ Agree(m, n) /\ SideOpen(cv, preKeys["a"], n) =>
           \/ k \in preKeys["a"]
           \/ n.key \in cv[k].staged \/ cv[k].nr <= n.np
  BY <1>1, <1>2 DEF SideOpen, SideFresh, SideUsed
<1> SUFFICES /\ k \in PreKeyIds /\ k # 0
             /\ cv[k].root = <<>> => k \in preKeys["a"]
             /\ Opens(c, m)
             /\ d.nr \in {cv[k].nr, m.np + 1}
             /\ \A nv : nv[k] = d =>
                  /\ SideUsed(nv, pk, k, m.key[1], m.dh)
                  /\ \A n \in Message :
                       n.key # m.key /\ SideKeys(n) /\ Agree(m, n)
                         /\ SideOpen(cv, preKeys["a"], n) => SideOpen(nv, pk, n)
  OBVIOUS
<1>4. /\ k \in preKeys["a"] => c = BobConv(cv[k], m, "a")
      /\ k \notin preKeys["a"] => c = [cv[k] EXCEPT !.ctx = m.ctx]
  BY DEF Prepared
<1>5. c \in Conv
  OBVIOUS
<1> HIDE DEF chain, k, c, d
<1>6. ASSUME c \in Conv,
             c.ctx = m.ctx, m.key \notin c.staged => ChainOf(c, m) = chain,
             m.key \in c.staged => c.root # <<>> /\ c.ckr = chain /\ c.dhr = m.dh,
             m.key \notin c.staged =>
               IF NewRatchet(c, m) THEN c.root # <<>> /\ c.dhs # None
               ELSE c.root # <<>> /\ c.nr <= m.np,
             NEW lo \in Nat, lo = (IF NewRatchet(c, m) THEN 0 ELSE c.nr),
             c.nr = cv[k].nr,
             cv[k].root = <<>> => k \in preKeys["a"],
             \A n \in Message : SideKeys(n) /\ Agree(m, n) /\ SideOpen(cv, preKeys["a"], n) =>
               n.key \in c.staged \/ lo <= n.np
      PROVE  /\ k \in PreKeyIds /\ k # 0
             /\ cv[k].root = <<>> => k \in preKeys["a"]
             /\ Opens(c, m)
             /\ d.nr \in {cv[k].nr, m.np + 1}
             /\ \A nv : nv[k] = d =>
                  /\ SideUsed(nv, pk, k, m.key[1], m.dh)
                  /\ \A n \in Message :
                       n.key # m.key /\ SideKeys(n) /\ Agree(m, n)
                         /\ SideOpen(cv, preKeys["a"], n) => SideOpen(nv, pk, n)
  <2>1. Opens(c, m)
    BY <1>1, <1>6 DEF Opens, OpensWithChain
  <2>2. /\ m.key \in c.staged =>
             /\ d.root = c.root /\ d.ckr = c.ckr /\ d.dhr = c.dhr
             /\ d.nr = c.nr /\ d.staged = c.staged \ {m.key}
        /\ m.key \notin c.staged =>
             /\ d.root = (IF NewRatchet(c, m) THEN ChainOf(c, m) ELSE c.root)
             /\ d.ckr = ChainOf(c, m) /\ d.dhr = m.dh
             /\ d.nr = m.np + 1
             /\ d.staged = c.staged \union Skipped(c, m)
    BY <1>6, DecryptedFields DEF d
  <2>3. d.root # <<>> /\ d.ckr = chain /\ d.dhr = m.dh /\ d.nr \in {cv[k].nr, m.np + 1}
    BY <1>1, <1>6, <2>2
  <2>4. m.key \notin c.staged => ChainKeys(chain, lo, m.np) \subseteq d.staged
    <3>1. CASE NewRatchet(c, m)
      BY <1>6, <2>2, <3>1 DEF Skipped
    <3>2. CASE ~NewRatchet(c, m)
      <4>1. ChainOf(c, m) = c.ckr
        BY <3>2 DEF ChainOf
      <4> QED BY <1>6, <2>2, <3>2, <4>1 DEF Skipped
    <3> QED BY <3>1, <3>2
  <2>5. ASSUME NEW n \in Message, n.key # m.key, SideKeys(n), Agree(m, n),
               SideOpen(cv, preKeys["a"], n)
        PROVE  n.key \in d.staged \/ d.nr <= n.np
    <3>1. n.key \in c.staged \/ lo <= n.np
      BY <1>6, <2>5
    <3>2. n.key = <<chain, n.np>> /\ n.np \in Nat /\ n.np # m.np
      BY <1>1, <1>2, <2>5
    <3>3. CASE n.key \in c.staged
      BY <2>2, <2>5, <3>3
    <3>4. CASE n.key \notin c.staged /\ m.key \in c.staged
      <4>1. lo = c.nr
        BY <1>6, <3>4 DEF NewRatchet
      <4> QED BY <2>2, <3>1, <3>4, <4>1
    <3>5. CASE n.key \notin c.staged /\ m.key \notin c.staged
      <4>1. lo <= n.np
        BY <3>1, <3>5
      <4>2. CASE n.np < m.np
        <5>1. n.key \in ChainKeys(chain, lo, m.np)
          BY <1>1, <1>6, <3>2, <4>1, <4>2, InChainKeys
        <5> QED BY <2>4, <3>5, <5>1
      <4>3. CASE n.np > m.np
        BY <1>1, <2>2, <3>2, <3>5, <4>3
      <4> QED BY <1>1, <3>2, <4>2, <4>3
    <3> QED BY <3>3, <3>4, <3>5
  <2>6. ASSUME NEW nv, nv[k] = d
        PROVE  /\ SideUsed(nv, pk, k, m.key[1], m.dh)
               /\ \A n \in Message :
                    n.key # m.key /\ SideKeys(n) /\ Agree(m, n)
                      /\ SideOpen(cv, preKeys["a"], n) => SideOpen(nv, pk, n)
    <3>1. SideUsed(nv, pk, k, m.key[1], m.dh)
      BY <1>1, <2>3, <2>6 DEF SideUsed
    <3>2. SideUsed(nv, pk, k, chain, m.dh)
      BY <1>1, <3>1
    <3> QED BY <1>2, <2>5, <2>6, <3>1, <3>2 DEF SideOpen
  <2> QED BY <1>1, <1>6, <2>1, <2>3, <2>6
<1>7. CASE k \in preKeys["a"]
  <2>1. cv[k] = NewConv /\ c = BobConv(NewConv, m, "a")
    BY <1>3, <1>4, <1>7
  <2>2. /\ c.root = <<{m.a0, pre}>> /\ c.ctx = m.ctx /\ c.dhs = pre /\ c.dhr = None
        /\ c.nr = 0 /\ c.ckr = <<>> /\ c.staged = {}
        /\ NewConv.nr = 0
    BY <2>1 DEF BobConv, Reset, NewConv, k
  <2>3. pre # None /\ <<{m.a0, pre}>> # <<>>
    BY DEF None
  <2>4. NewRatchet(c, m) /\ ChainOf(c, m) = chain
    BY <1>1, <2>2 DEF NewRatchet, ChainOf, chain
  <2> HIDE DEF pre
  <2> QED
    <3>1. NewRatchet(c, m) /\ c.root # <<>> /\ c.dhs # None
      BY <2>2, <2>3, <2>4
    <3>2. \A n \in Message : SideKeys(n) /\ Agree(m, n) => 0 <= n.np
      BY <1>2
    <3> QED BY <1>6, <1>7, <1>5, <2>1, <2>2, <2>4, <3>1, <3>2
<1>8. CASE k \notin preKeys["a"]
  <2>1. c = [cv[k] EXCEPT !.ctx = m.ctx]
    BY <1>4, <1>8
  <2>2. /\ c \in Conv /\ c.root = cv[k].root /\ c.ctx = m.ctx /\ c.ckr = cv[k].ckr
        /\ c.dhr = cv[k].dhr /\ c.nr = cv[k].nr /\ c.staged = cv[k].staged /\ c.nr \in Nat
    <3> DEFINE old == cv[k]
    <3>1. old \in Conv
      BY <1>1
    <3> HIDE DEF old
    <3>2. c = [old EXCEPT !.ctx = m.ctx]
      BY <2>1 DEF old
    <3>3. /\ c \in Conv /\ c.root = old.root /\ c.ctx = m.ctx /\ c.ckr = old.ckr
          /\ c.dhr = old.dhr /\ c.nr = old.nr /\ c.staged = old.staged /\ c.nr \in Nat
      BY <1>1, <3>1, <3>2 DEF Conv
    <3> QED BY <3>3 DEF old
  <2>3. ~NewRatchet(c, m) /\ ChainOf(c, m) = chain
    BY <1>3, <1>8, <2>2 DEF NewRatchet, ChainOf
  <2> QED BY <1>1, <1>3, <1>6, <1>8, <2>2, <2>3
<1> QED BY <1>7, <1>8

-----------------------------------------------------------------------------
(* The invariant.                                                          *)

(* The contexts, as they are once the thread commits.                      *)
Contexts(p) == IF proc[p].pc = "decrypted" THEN proc[p].convs ELSE convs[p]
Primary(p) == Contexts(p)[0]

(* The messages p has decrypted (by their numbers), the one it is about to *)
(* hand over, all it has encrypted, and those of them that the other       *)
(* device has not decrypted.                                               *)
Taken(p) == accepted[p] \union (IF proc[p].pc = "decrypted" THEN {proc[p].in} ELSE {})
Outgoing(p) == IF proc[p].pc = "stored" THEN {proc[p].out} ELSE {}
Written(p) == {sent[p][i] : i \in DOMAIN sent[p]} \union Outgoing(p)
Underway(p) == {sent[p][i] : i \in DOMAIN sent[p] \ Taken(Other(p))} \union Outgoing(p)

HasSetUp(p) == served[Other(p)] > 0
Both == HasSetUp("a") /\ HasSetUp("b")

Calm ==
  /\ crashes = 0 /\ reKeys = 0
  /\ ~reordered \/ ~Both

(* Messages of the conversation that loses.                                *)
Lost(p, m) == p = "b" /\ m.setup /\ HasSetUp("a")
Live(p) == {m \in Underway(p) : ~Lost(p, m)}

Blank(p) == Primary(p) = NewConv /\ Written(p) = {} /\ ~HasSetUp(p)
Alone(p) ==
  /\ HasSetUp(p)
  /\ AloneConv(Primary(p), Other(p))
  /\ \A m \in Written(p) : SetupMessage(Primary(p), m) /\ ~Primary(p).flag

(* What a still can open of the conversation that b set up.                *)
SideNew ==
  LET b == Primary("b")
  IN \/ SideFresh(Contexts("a"), preKeys["a"], b.preKey)
     \/ /\ ~b.flag
        /\ SideUsed(Contexts("a"), preKeys["a"], b.preKey, b.cks, b.dhs)
        /\ Contexts("a")[b.preKey].nr <= b.ns

(* As long as one of these messages is under way, a has not heard from b,  *)
(* which answers only after it sent them.                                  *)
Side ==
  \A m \in Underway("b") : Lost("b", m) =>
    /\ Primary("a").a0 # None
    /\ SideKeys(m) /\ SideOpen(Contexts("a"), preKeys["a"], m)
    /\ \A n \in Underway("b") : Lost("b", n) => Agree(m, n)

(* Before the devices share a context: no device has received a message    *)
(* of the other one but a those of the conversation that loses.            *)
Separated ==
  /\ \A p \in Devices : Blank(p) \/ Alone(p)
  /\ Taken("b") = {} /\ preKeys["b"] = 1 .. MaxPreKeys
  /\ Both => SideNew
  /\ ~Both => \A k \in 1 .. MaxPreKeys : SideFresh(Contexts("a"), preKeys["a"], k)

(* And after: the contexts are linked, whoever set up the conversation.    *)
Joined ==
  /\ Link(Primary("a"), Primary("b"), Live("a"), Live("b"), preKeys["a"], preKeys["b"])
  /\ HasSetUp("a") => Primary("b").a0 = None

(* A device sends set-up messages until it hears from the other one.       *)
SetupsFirst(p) ==
  /\ \A i, j \in DOMAIN sent[p] : i < j /\ sent[p][j].setup => sent[p][i].setup
  /\ Primary(p).a0 # None => HasSetUp(p) /\ \A m \in Written(p) : m.setup
  /\ \A m \in Outgoing(p) : m.setup => Primary(p).a0 # None
  /\ \A m \in Written(p) : m.setup => HasSetUp(p)

Accounts(p) == rejected[p] = {} /\ Taken(p) \subseteq DOMAIN sent[Other(p)]

Flowing ==
  /\ \A p \in Devices : Accounts(p) /\ SetupsFirst(p)
  /\ Separated \/ Joined
  /\ Side

Flow == Calm => Flowing

-----------------------------------------------------------------------------
(* What the invariant of keys says of messages and contexts.               *)

LEMMA ViewTypes ==
  ASSUME Inv, RatchetAssumption, NEW p \in Devices
  PROVE  /\ 0 \in PreKeyIds /\ Contexts(p) \in Tables /\ Primary(p) \in Conv
         /\ Written(p) \in SUBSET Message /\ Underway(p) \in SUBSET Message
         /\ Underway(p) \subseteq Written(p) /\ Live(p) \subseteq Underway(p)
         /\ Outgoing(p) \subseteq Underway(p)
         /\ \A m \in Written(p) : m \in Messages(proc[p], sent[p]) /\ m.key[1] # <<>>
<1>1. 0 \in PreKeyIds
  BY DEF PreKeyIds, RatchetAssumption
<1>2. Contexts(p) \in Tables
  BY Same DEF Contexts
<1>3. Primary(p) \in Conv
  BY <1>1, <1>2 DEF Tables, Primary
<1>4. \A m \in Written(p) : m \in Messages(proc[p], sent[p])
  BY DEF Written, Outgoing, Messages
<1>5. Written(p) \in SUBSET Message
  BY <1>4, DeviceHas, PartTypes
<1>6. Underway(p) \subseteq Written(p) /\ Live(p) \subseteq Underway(p) /\ Outgoing(p) \subseteq Underway(p)
  BY DEF Underway, Written, Live
<1>7. UsedOnce(proc[p], sent[p])
  BY DeviceHas DEF DeviceInv
<1>8. \A m \in Written(p) : m.key[1] # <<>>
  BY <1>7 DEF UsedOnce, Written, Outgoing
<1> QED BY <1>1, <1>2, <1>3, <1>4, <1>5, <1>6, <1>8

(* The primary context is past the messages of its chain.                  *)
LEMMA Past ==
  ASSUME Inv, RatchetAssumption, NEW p \in Devices, NEW m \in Written(p),
         m.key[1] = Primary(p).cks
  PROVE  m.key[2] < Primary(p).ns
<1>1. Primary(p) \in Primaries(convs[p], proc[p])
  BY DEF Primary, Contexts, Primaries
<1>2. m \in Messages(proc[p], sent[p]) /\ m.key[1] # <<>>
  BY ViewTypes
<1> QED BY <1>1, <1>2, DeviceHas DEF DeviceInv, Ahead

(* The thread is at rest.                                                  *)
LEMMA AtRest ==
  ASSUME NEW p \in Devices, proc[p].pc \in {"idle", "setup"}
  PROVE  Contexts(p) = convs[p] /\ Taken(p) = accepted[p] /\ Outgoing(p) = {}
  BY DEF Contexts, Taken, Outgoing

LEMMA OtherStays ==
  ASSUME NEW q \in Devices, convs'[q] = convs[q], proc'[q] = proc[q],
         accepted'[q] = accepted[q], sent'[q] = sent[q]
  PROVE  /\ Contexts(q)' = Contexts(q) /\ Primary(q)' = Primary(q)
         /\ Taken(q)' = Taken(q) /\ Outgoing(q)' = Outgoing(q)
         /\ Written(q)' = Written(q)
         /\ Taken(Other(q))' = Taken(Other(q)) => Underway(q)' = Underway(q)
  BY DEF Contexts, Primary, Taken, Outgoing, Written, Underway

(* A step that only moves between the variables.                           *)
LEMMA NothingMoves ==
  ASSUME \A p \in Devices : /\ Contexts(p)' = Contexts(p) /\ Written(p)' = Written(p)
                            /\ Underway(p)' = Underway(p),
         Taken("b")' = Taken("b"), preKeys' = preKeys, served' = served
  PROVE  /\ Separated \/ Joined => (Separated \/ Joined)'
         /\ Side => Side'
<1>1. \A p \in Devices : /\ Primary(p)' = Primary(p) /\ Live(p)' = Live(p)
                         /\ HasSetUp(p)' <=> HasSetUp(p)
                         /\ Blank(p)' <=> Blank(p)
                         /\ Alone(p)' <=> Alone(p)
  <2>1. ASSUME NEW p \in Devices
        PROVE  Primary(p)' = Primary(p) /\ (HasSetUp(p)' <=> HasSetUp(p))
    BY DEF Primary, HasSetUp
  <2>2. \A p, m : Lost(p, m)' <=> Lost(p, m)
    BY DEF Lost, HasSetUp
  <2>3. ASSUME NEW p \in Devices
        PROVE  Live(p)' = Live(p)
    BY <2>2 DEF Live
  <2>4. ASSUME NEW p \in Devices
        PROVE  (Blank(p)' <=> Blank(p)) /\ (Alone(p)' <=> Alone(p))
    BY <2>1 DEF Blank, Alone
  <2> QED BY <2>1, <2>3, <2>4
<1>2. "a" \in Devices /\ "b" \in Devices
  BY DEF Devices
<1>3. Both' <=> Both
  BY <1>1, <1>2 DEF Both
<1>4. SideNew' <=> SideNew
  BY <1>1, <1>2 DEF SideNew
<1>5. Separated => Separated'
  BY <1>1, <1>2, <1>3, <1>4 DEF Separated
<1>6. Joined => Joined'
  BY <1>1, <1>2 DEF Joined
<1>7. Side => Side'
  BY <1>1, <1>2 DEF Side, Lost
<1> QED BY <1>5, <1>6, <1>7

-----------------------------------------------------------------------------
(* What the actions do to it.                                              *)

LEMMA Encrypt_View ==
  ASSUME Inv, RatchetAssumption, NEW p \in Devices, Encrypt(p)
  PROVE  LET q == Other(p)
             key == <<p, keys[p] + 1>>
             c == Primary(p)
             w == Wire(Turned(c, key))
         IN /\ q \in Devices /\ q # p
            /\ Turned(c, key).root # <<>> /\ key \in Keys /\ ~Known(key, keys)
            /\ Contexts(p)' = [Contexts(p) EXCEPT ![0] = Sends(c, key)]
            /\ Primary(p)' = Sends(c, key)
            /\ Written(p)' = Written(p) \union {w} /\ Underway(p)' = Underway(p) \union {w}
            /\ Outgoing(p)' = {w}
            /\ Contexts(q)' = Contexts(q) /\ Primary(q)' = Primary(q)
            /\ Written(q)' = Written(q) /\ Underway(q)' = Underway(q)
            /\ Outgoing(q)' = Outgoing(q)
            /\ Taken(p)' = Taken(p) /\ Taken(q)' = Taken(q)
            /\ preKeys' = preKeys /\ served' = served /\ sent' = sent /\ rejected' = rejected
<1> DEFINE q == Other(p)
           key == <<p, keys[p] + 1>>
           old == convs[p][0]
           w == Wire(Turned(old, key))
<1>1. /\ q \in Devices /\ q # p /\ 0 \in PreKeyIds
      /\ convs \in [Devices -> Tables] /\ proc \in [Devices -> Command]
      /\ keys \in [Devices -> Nat]
  BY Two, ViewTypes DEF Inv, TypeOK
<1>2. key \in Keys /\ ~Known(key, keys)
  <2>1. keys[p] \in Nat
    BY <1>1
  <2>2. key \in Keys /\ key[1] = p /\ key[2] = keys[p] + 1
    BY <2>1, Pairs
  <2> QED BY <2>1, <2>2 DEF Known
<1>3. /\ proc[p].pc \in {"idle", "setup"} /\ Turned(old, key).root # <<>>
      /\ convs' = [convs EXCEPT ![p][0] = [Turned(old, key) EXCEPT !.ns = @ + 1]]
      /\ proc' = [proc EXCEPT ![p] = [Idle EXCEPT !.pc = "stored", !.out = w]]
      /\ preKeys' = preKeys /\ served' = served /\ sent' = sent /\ rejected' = rejected
      /\ accepted' = accepted
  BY DEF Encrypt
<1>4. Contexts(p) = convs[p] /\ Primary(p) = old /\ Taken(p) = accepted[p] /\ Outgoing(p) = {}
  BY <1>3, AtRest DEF Primary
<1>5. /\ convs'[p] = [convs[p] EXCEPT ![0] = Sends(old, key)] /\ convs'[q] = convs[q]
      /\ proc'[p].pc = "stored" /\ proc'[p].out = w /\ proc'[q] = proc[q]
  <2>1. Sends(old, key) = [Turned(old, key) EXCEPT !.ns = @ + 1]
    BY DEF Sends
  <2> HIDE DEF old, key, w
  <2>2. convs'[p] = [convs[p] EXCEPT ![0] = Sends(old, key)] /\ convs'[q] = convs[q]
    BY <1>1, <1>3, <2>1
  <2>3. proc'[p] = [Idle EXCEPT !.pc = "stored", !.out = w] /\ proc'[q] = proc[q]
    BY <1>1, <1>3
  <2>4. [Idle EXCEPT !.pc = "stored", !.out = w].pc = "stored"
        /\ [Idle EXCEPT !.pc = "stored", !.out = w].out = w
    BY DEF Idle
  <2> QED BY <2>2, <2>3, <2>4
<1>6. /\ Contexts(q)' = Contexts(q) /\ Primary(q)' = Primary(q)
      /\ Taken(q)' = Taken(q) /\ Outgoing(q)' = Outgoing(q) /\ Written(q)' = Written(q)
      /\ Taken(p)' = Taken(p) => Underway(q)' = Underway(q)
  <2>1. Other(q) = p
    BY <1>1, Two
  <2> QED BY <1>1, <1>3, <1>5, <2>1, OtherStays
<1> HIDE DEF w
<1>7. Contexts(p)' = convs'[p] /\ Taken(p)' = accepted[p] /\ Outgoing(p)' = {w}
  BY <1>3, <1>5 DEF Contexts, Taken, Outgoing
<1>8. Primary(p)' = Sends(old, key)
  <2>1. 0 \in DOMAIN convs[p]
    BY <1>1 DEF Tables
  <2> HIDE DEF old, key
  <2> QED BY <1>5, <1>7, <2>1 DEF Primary
<1>9. Written(p)' = Written(p) \union {w} /\ Underway(p)' = Underway(p) \union {w}
  BY <1>3, <1>4, <1>6, <1>7 DEF Written, Underway, q
<1> QED BY <1>1, <1>2, <1>3, <1>4, <1>5, <1>6, <1>7, <1>8, <1>9 DEF w

LEMMA Setup_View ==
  ASSUME Inv, RatchetAssumption, NEW p \in Devices, Setup(p)
  PROVE  LET q == Other(p)
             i == served[q] + 1
             a0 == <<p, keys[p] + 1>>
         IN /\ q \in Devices /\ q # p
            /\ i \in 1 .. MaxPreKeys /\ a0 \in Keys
            /\ Primary(p).root = <<>>
            /\ Contexts(p)' = [Contexts(p) EXCEPT ![0] = AliceConv(Primary(p), a0, q, i)]
            /\ Primary(p)' = AliceConv(Primary(p), a0, q, i)
            /\ Written(p)' = Written(p) /\ Underway(p)' = Underway(p)
            /\ Outgoing(p) = {} /\ Outgoing(p)' = {}
            /\ Contexts(q)' = Contexts(q) /\ Primary(q)' = Primary(q)
            /\ Written(q)' = Written(q) /\ Underway(q)' = Underway(q)
            /\ Outgoing(q)' = Outgoing(q)
            /\ Taken(p)' = Taken(p) /\ Taken(q)' = Taken(q)
            /\ HasSetUp(p)' /\ (HasSetUp(q)' <=> HasSetUp(q))
            /\ preKeys' = preKeys /\ sent' = sent /\ rejected' = rejected
<1> DEFINE q == Other(p)
           i == served[q] + 1
           a0 == <<p, keys[p] + 1>>
           old == convs[p][0]
           g == AliceConv(old, a0, q, i)
<1>1. /\ q \in Devices /\ q # p /\ 0 \in PreKeyIds /\ Other(q) = p
      /\ convs \in [Devices -> Tables] /\ proc \in [Devices -> Command]
      /\ keys \in [Devices -> Nat] /\ served \in [Devices -> PreKeyIds]
      /\ MaxPreKeys \in Nat
  BY Two, ViewTypes DEF Inv, TypeOK, RatchetAssumption
<1>2. /\ proc[p].pc = "idle" /\ old.root = <<>> /\ served[q] < MaxPreKeys
      /\ served' = [served EXCEPT ![q] = @ + 1]
      /\ keys' = [keys EXCEPT ![p] = @ + 1]
      /\ convs' = [convs EXCEPT ![p][0] = AliceConv(@, <<p, keys'[p]>>, q, served'[q])]
      /\ proc' = [proc EXCEPT ![p].pc = "setup"]
      /\ preKeys' = preKeys /\ sent' = sent /\ rejected' = rejected /\ accepted' = accepted
  BY DEF Setup
<1>3. i \in 1 .. MaxPreKeys /\ a0 \in Keys
  <2>1. served[q] \in Nat /\ keys[p] \in Nat
    BY <1>1 DEF PreKeyIds
  <2> QED BY <1>1, <1>2, <2>1, Pairs
<1>4. keys'[p] = keys[p] + 1 /\ served'[q] = i /\ served'[p] = served[p]
  BY <1>1, <1>2
<1>5. /\ convs'[p] = [convs[p] EXCEPT ![0] = g] /\ convs'[q] = convs[q]
      /\ proc'[p].pc = "setup" /\ proc'[q] = proc[q]
  <2>1. convs' = [convs EXCEPT ![p] = [convs[p] EXCEPT ![0] = g]]
    <3>1. convs' = [convs EXCEPT ![p] = [convs[p] EXCEPT ![0] = AliceConv(convs[p][0], <<p, keys'[p]>>, q, served'[q])]]
      BY <1>1, <1>2
    <3> QED BY <1>4, <3>1
  <2> HIDE DEF g
  <2>2. proc'[p] = [proc[p] EXCEPT !.pc = "setup"] /\ proc'[q] = proc[q] /\ proc[p] \in Command
    BY <1>1, <1>2
  <2>3. proc'[p].pc = "setup"
    BY <2>2 DEF Command
  <2> QED BY <1>1, <2>1, <2>2, <2>3
<1>6. /\ Contexts(q)' = Contexts(q) /\ Primary(q)' = Primary(q)
      /\ Taken(q)' = Taken(q) /\ Outgoing(q)' = Outgoing(q) /\ Written(q)' = Written(q)
      /\ Taken(p)' = Taken(p) => Underway(q)' = Underway(q)
  BY <1>1, <1>2, <1>5, OtherStays
<1>7. /\ Contexts(p) = convs[p] /\ Primary(p) = old /\ Taken(p) = accepted[p] /\ Outgoing(p) = {}
      /\ Contexts(p)' = convs'[p] /\ Taken(p)' = accepted[p] /\ Outgoing(p)' = {}
  BY <1>2, <1>5 DEF Contexts, Taken, Outgoing, Primary
<1> HIDE DEF g, old, i
<1>8. Primary(p)' = g
  <2>1. 0 \in DOMAIN convs[p]
    BY <1>1 DEF Tables
  <2> QED BY <1>5, <1>7, <2>1 DEF Primary
<1>9. Written(p)' = Written(p) /\ Underway(p)' = Underway(p)
  BY <1>2, <1>6, <1>7 DEF Written, Underway
<1>10. HasSetUp(p)' /\ (HasSetUp(q)' <=> HasSetUp(q))
  <2>1. i > 0
    BY <1>3
  <2> QED BY <1>1, <1>4, <2>1 DEF HasSetUp
<1> QED BY <1>1, <1>2, <1>3, <1>5, <1>6, <1>7, <1>8, <1>9, <1>10 DEF g, i, old

LEMMA HandOver_View ==
  ASSUME Inv, RatchetAssumption, NEW p \in Devices, HandOver(p),
         Taken(Other(p)) \subseteq DOMAIN sent[p]
  PROVE  /\ \A r \in Devices : /\ Contexts(r)' = Contexts(r) /\ Written(r)' = Written(r)
                               /\ Underway(r)' = Underway(r) /\ Taken(r)' = Taken(r)
         /\ Outgoing(p)' = {} /\ Outgoing(Other(p))' = Outgoing(Other(p))
         /\ sent' = [sent EXCEPT ![p] = Append(@, proc[p].out)]
         /\ Outgoing(p) = {proc[p].out}
         /\ preKeys' = preKeys /\ served' = served /\ rejected' = rejected
<1> DEFINE q == Other(p)
           n == Len(sent[p]) + 1
<1>1. /\ q \in Devices /\ q # p /\ Other(q) = p /\ \A r \in Devices : r = p \/ r = q
      /\ convs \in [Devices -> Tables] /\ proc \in [Devices -> Command]
      /\ sent \in [Devices -> Seq(Message)]
  BY Two DEF Inv, TypeOK
<1>2. /\ proc[p].pc = "stored"
      /\ sent' = [sent EXCEPT ![p] = Append(@, proc[p].out)]
      /\ proc' = [proc EXCEPT ![p] = Idle]
      /\ convs' = convs /\ preKeys' = preKeys /\ served' = served /\ rejected' = rejected
      /\ accepted' = accepted
  BY DEF HandOver
<1>3. /\ sent'[p] = Append(sent[p], proc[p].out) /\ sent'[q] = sent[q]
      /\ proc'[p].pc = "idle" /\ proc'[q] = proc[q]
  BY <1>1, <1>2 DEF Idle
<1>4. /\ DOMAIN sent'[p] = DOMAIN sent[p] \union {n} /\ n \notin DOMAIN sent[p]
      /\ sent'[p][n] = proc[p].out /\ \A i \in DOMAIN sent[p] : sent'[p][i] = sent[p][i]
  <2>1. sent[p] \in Seq(Message)
    BY <1>1
  <2> QED BY <1>3, <2>1
<1>5. /\ Contexts(p)' = Contexts(p) /\ Taken(p)' = Taken(p) /\ Outgoing(p)' = {}
      /\ Outgoing(p) = {proc[p].out}
  BY <1>2, <1>3 DEF Contexts, Taken, Outgoing
<1>6. /\ Contexts(q)' = Contexts(q) /\ Taken(q)' = Taken(q) /\ Outgoing(q)' = Outgoing(q)
      /\ Written(q)' = Written(q) /\ Underway(q)' = Underway(q)
  BY <1>1, <1>2, <1>3, <1>5, OtherStays
<1> HIDE DEF q, n
<1>7. Written(p)' = Written(p)
  BY <1>4, <1>5 DEF Written
<1>8. Underway(p)' = Underway(p)
  <2>1. n \notin Taken(q)
    BY <1>4 DEF q
  <2>2. Taken(Other(p))' = Taken(Other(p))
    BY <1>6 DEF q
  <2>3. {sent'[p][i] : i \in DOMAIN sent'[p] \ Taken(q)} = {sent[p][i] : i \in DOMAIN sent[p] \ Taken(q)} \union {proc[p].out}
    BY <1>4, <2>1
  <2> QED BY <1>5, <2>2, <2>3 DEF Underway, q
<1> QED BY <1>1, <1>2, <1>5, <1>6, <1>7, <1>8 DEF q

LEMMA Commit_View ==
  ASSUME Inv, RatchetAssumption, NEW p \in Devices, Commit(p)
  PROVE  /\ \A r \in Devices : /\ Contexts(r)' = Contexts(r) /\ Written(r)' = Written(r)
                               /\ Underway(r)' = Underway(r) /\ Taken(r)' = Taken(r)
                               /\ Outgoing(r)' = Outgoing(r)
         /\ sent' = sent /\ preKeys' = preKeys /\ served' = served /\ rejected' = rejected
<1> DEFINE q == Other(p)
<1>1. /\ q \in Devices /\ q # p /\ Other(q) = p /\ \A r \in Devices : r = p \/ r = q
      /\ convs \in [Devices -> Tables] /\ proc \in [Devices -> Command]
      /\ accepted \in [Devices -> SUBSET (1 .. MaxSends)]
  BY Two DEF Inv, TypeOK
<1>2. /\ proc[p].pc = "decrypted"
      /\ convs' = [convs EXCEPT ![p] = proc[p].convs]
      /\ accepted' = [accepted EXCEPT ![p] = @ \union {proc[p].in}]
      /\ proc' = [proc EXCEPT ![p] = Idle]
      /\ sent' = sent /\ preKeys' = preKeys /\ served' = served /\ rejected' = rejected
  BY DEF Commit
<1>3. /\ convs'[p] = proc[p].convs /\ convs'[q] = convs[q]
      /\ accepted'[p] = accepted[p] \union {proc[p].in} /\ accepted'[q] = accepted[q]
      /\ proc'[p].pc = "idle" /\ proc'[q] = proc[q]
  BY <1>1, <1>2 DEF Idle
<1>4. Contexts(p)' = Contexts(p) /\ Taken(p)' = Taken(p) /\ Outgoing(p)' = Outgoing(p)
  BY <1>2, <1>3 DEF Contexts, Taken, Outgoing
<1>5. /\ Contexts(q)' = Contexts(q) /\ Taken(q)' = Taken(q) /\ Outgoing(q)' = Outgoing(q)
      /\ Written(q)' = Written(q) /\ Underway(q)' = Underway(q)
  BY <1>1, <1>2, <1>3, <1>4, OtherStays
<1>6. Written(p)' = Written(p) /\ Underway(p)' = Underway(p)
  BY <1>2, <1>4, <1>5 DEF Written, Underway, q
<1> QED BY <1>1, <1>2, <1>4, <1>5, <1>6

(* A message that is taken was under way, and its key is of no other one.  *)
LEMMA Take_View ==
  ASSUME Inv, RatchetAssumption, NEW p \in Devices, NEW i, Take(p, i)
  PROVE  LET q == Other(p)
             m == sent[q][i]
         IN /\ q \in Devices /\ q # p /\ i \in DOMAIN sent[q] /\ Other(q) = p
            /\ m \in Message /\ MsgInv(q, m, keys)
            /\ m \in Underway(q)
            /\ Contexts(p) = convs[p] /\ Taken(p) = accepted[p] /\ Outgoing(p) = {}
            /\ \A j \in DOMAIN sent[q] \ {i} : sent[q][j].key # m.key
            /\ \A n \in Outgoing(q) : n.key # m.key
<1> DEFINE q == Other(p)
           m == sent[q][i]
<1>1. /\ q \in Devices /\ q # p /\ Other(q) = p
      /\ proc[p].pc = "idle" /\ i \in DOMAIN sent[q] \ accepted[p]
  BY Two DEF Take, Waiting
<1>2. Contexts(p) = convs[p] /\ Taken(p) = accepted[p] /\ Outgoing(p) = {}
  BY <1>1, AtRest
<1>3. m \in Underway(q)
  BY <1>1, <1>2 DEF Underway
<1>4. m \in Message /\ MsgInv(q, m, keys)
  BY Received
<1>5. UsedOnce(proc[q], sent[q])
  BY <1>1, DeviceHas DEF DeviceInv
<1>6. /\ \A j \in DOMAIN sent[q] \ {i} : sent[q][j].key # m.key
      /\ \A n \in Outgoing(q) : n.key # m.key
  BY <1>1, <1>5 DEF UsedOnce, Outgoing
<1> QED BY <1>1, <1>2, <1>3, <1>4, <1>6

LEMMA Decrypt_View ==
  ASSUME Inv, RatchetAssumption, NEW p \in Devices, NEW i \in 1 .. MaxSends, Decrypt(p, i)
  PROVE  LET q == Other(p)
             m == sent[q][i]
         IN /\ \E k \in Tried(p, m) :
                 /\ MayOpen(p, k, m)
                 /\ k \in PreKeyIds
                 /\ Contexts(p)' = [Contexts(p) EXCEPT ![k] =
                                      Decrypted(Prepared(Contexts(p)[k], m, p), m)]
                 /\ Contexts(p)'[k] = Decrypted(Prepared(Contexts(p)[k], m, p), m)
                 /\ Primary(p)' = IF k = 0
                                  THEN Decrypted(Prepared(Primary(p), m, p), m)
                                  ELSE Primary(p)
            /\ preKeys' = IF m.setup THEN [preKeys EXCEPT ![p] = @ \ {m.preKey}] ELSE preKeys
            /\ preKeys'[q] = preKeys[q]
            /\ m.setup => preKeys'[p] = preKeys[p] \ {m.preKey}
            /\ Written(p)' = Written(p) /\ Underway(p)' = Underway(p) /\ Outgoing(p)' = {}
            /\ Taken(p)' = Taken(p) \union {i}
            /\ Contexts(q)' = Contexts(q) /\ Primary(q)' = Primary(q)
            /\ Written(q)' = Written(q) /\ Outgoing(q)' = Outgoing(q)
            /\ Taken(q)' = Taken(q)
            /\ Underway(q)' \subseteq Underway(q)
            /\ \A n \in Underway(q)' : n.key # m.key
            /\ served' = served /\ sent' = sent /\ rejected' = rejected
<1> DEFINE q == Other(p)
           m == sent[q][i]
<1>1. /\ q \in Devices /\ q # p /\ i \in DOMAIN sent[q] /\ Other(q) = p
      /\ m \in Message
      /\ Contexts(p) = convs[p] /\ Taken(p) = accepted[p] /\ Outgoing(p) = {}
      /\ \A j \in DOMAIN sent[q] \ {i} : sent[q][j].key # m.key
      /\ \A n \in Outgoing(q) : n.key # m.key
  BY Take_View DEF Decrypt
<1>2. /\ convs \in [Devices -> Tables] /\ proc \in [Devices -> Command]
      /\ preKeys \in [Devices -> SUBSET (1 .. MaxPreKeys)] /\ 0 \in PreKeyIds
  BY ViewTypes DEF Inv, TypeOK
<1>3. PICK k \in Tried(p, m) :
        /\ MayOpen(p, k, m)
        /\ proc' = [proc EXCEPT ![p] =
             [Idle EXCEPT !.pc = "decrypted", !.in = i,
                          !.convs = [convs[p] EXCEPT ![k] =
                            Decrypted(Prepared(convs[p][k], m, p), m)]]]
        /\ convs' = IF m.key \in Prepared(convs[p][k], m, p).staged
                    THEN [convs EXCEPT ![p][k] = WithStaged(@, m)]
                    ELSE convs
  BY DEF Decrypt
<1>4. /\ accepted' = accepted /\ served' = served /\ sent' = sent /\ rejected' = rejected
      /\ preKeys' = IF m.setup THEN [preKeys EXCEPT ![p] = @ \ {m.preKey}] ELSE preKeys
  BY DEF Decrypt, TakePreKey
<1>5. k \in PreKeyIds
  BY <1>1, <1>2 DEF Tried, Message
<1> DEFINE d == Decrypted(Prepared(convs[p][k], m, p), m)
           table == [convs[p] EXCEPT ![k] = d]
<1> HIDE DEF m, d
<1>6. /\ proc'[p].pc = "decrypted" /\ proc'[p].in = i /\ proc'[p].convs = table
      /\ proc'[q] = proc[q] /\ convs'[q] = convs[q]
  <2>1. proc' = [proc EXCEPT ![p] = [Idle EXCEPT !.pc = "decrypted", !.in = i, !.convs = table]]
    BY <1>3 DEF d
  <2> HIDE DEF table
  <2>2. proc'[p] = [Idle EXCEPT !.pc = "decrypted", !.in = i, !.convs = table] /\ proc'[q] = proc[q]
    BY <1>1, <1>2, <2>1
  <2>3. convs'[q] = convs[q]
    BY <1>1, <1>2, <1>3
  <2> QED BY <2>2, <2>3 DEF Idle
<1>7. /\ Contexts(p)' = table /\ Taken(p)' = Taken(p) \union {i} /\ Outgoing(p)' = {}
  BY <1>1, <1>4, <1>6 DEF Contexts, Taken, Outgoing
<1>8. /\ Contexts(p)'[k] = d
      /\ Primary(p)' = IF k = 0 THEN Decrypted(Prepared(Primary(p), m, p), m) ELSE Primary(p)
  <2>1. DOMAIN convs[p] = PreKeyIds
    BY <1>2 DEF Tables
  <2>2. table[k] = d /\ table[0] = IF k = 0 THEN d ELSE convs[p][0]
    BY <1>2, <1>5, <2>1
  <2>3. Primary(p)' = table[0] /\ Primary(p) = convs[p][0]
    BY <1>1, <1>7 DEF Primary
  <2> QED BY <1>7, <2>2, <2>3 DEF d
<1>9. /\ Contexts(q)' = Contexts(q) /\ Primary(q)' = Primary(q)
      /\ Taken(q)' = Taken(q) /\ Outgoing(q)' = Outgoing(q) /\ Written(q)' = Written(q)
  BY <1>1, <1>4, <1>6, OtherStays
<1>10. Written(p)' = Written(p) /\ Underway(p)' = Underway(p)
  BY <1>1, <1>4, <1>7, <1>9 DEF Written, Underway
<1>11. /\ Underway(q)' \subseteq Underway(q)
       /\ \A n \in Underway(q)' : n.key # m.key
  <2>1. Underway(q)' = {sent[q][j] : j \in DOMAIN sent[q] \ (Taken(p) \union {i})} \union Outgoing(q)
    BY <1>1, <1>4, <1>7, <1>9 DEF Underway
  <2>2. Underway(q) = {sent[q][j] : j \in DOMAIN sent[q] \ Taken(p)} \union Outgoing(q)
    BY <1>1 DEF Underway
  <2> QED BY <1>1, <2>1, <2>2
<1>12. preKeys'[q] = preKeys[q] /\ (m.setup => preKeys'[p] = preKeys[p] \ {m.preKey})
  BY <1>1, <1>2, <1>4
<1> QED BY <1>1, <1>3, <1>4, <1>5, <1>7, <1>8, <1>9, <1>10, <1>11, <1>12 DEF m, d

-----------------------------------------------------------------------------
(* Every message under way is opened.                                      *)

(* The live messages of q, and its context, with those of p.               *)
LEMMA JoinedTo ==
  ASSUME NEW p \in Devices
  PROVE  /\ Joined => Link(Primary(Other(p)), Primary(p), Live(Other(p)), Live(p),
                           preKeys[Other(p)], preKeys[p])
         /\ Link(Primary(Other(p)), Primary(p), Live(Other(p)), Live(p),
                 preKeys[Other(p)], preKeys[p]) /\ (HasSetUp("a") => Primary("b").a0 = None)
              => Joined
<1>1. (p = "a" /\ Other(p) = "b") \/ (p = "b" /\ Other(p) = "a")
  BY Two DEF Devices
<1> QED BY <1>1, LinkTurns DEF Joined

(* A message of the conversation that loses.                               *)
LEMMA Opens_Lost ==
  ASSUME Inv, RatchetAssumption, Side, NEW p \in Devices, NEW i, Take(p, i),
         Lost(Other(p), sent[Other(p)][i])
  PROVE  LET m == sent[Other(p)][i]
         IN /\ p = "a" /\ Tried(p, m) = {m.preKey} /\ MayOpen(p, m.preKey, m)
            /\ SideKeys(m) /\ SideOpen(Contexts("a"), preKeys["a"], m)
            /\ Prepared(Contexts(p)[m.preKey], m, p) \in Conv
<1> DEFINE m == sent[Other(p)][i]
<1>1. /\ p = "a" /\ Other(p) = "b" /\ m.setup
  BY Two DEF Lost, Devices
<1>2. /\ m \in Underway("b") /\ m \in Message /\ MsgInv("b", m, keys)
      /\ Contexts("a") = convs["a"]
  BY <1>1, Take_View
<1>3. /\ Primary("a").a0 # None
      /\ SideKeys(m) /\ SideOpen(Contexts("a"), preKeys["a"], m)
  BY <1>1, <1>2 DEF Side
<1> HIDE DEF m
<1>4. Tried(p, m) = {m.preKey}
  BY <1>1, <1>2, <1>3 DEF Tried, Collision, Primary
<1>5. m.preKey \in PreKeyIds
  BY <1>2 DEF Message
<1>6. Prepared(Contexts("a")[m.preKey], m, "a") \in Conv
  <2>1. convs["a"][m.preKey] \in Conv /\ ConvInv("a", convs["a"][m.preKey], keys)
    BY <1>1, <1>5, Same
  <2> QED BY <1>1, <1>2, <2>1, PreparedOk
<1>7. /\ Contexts("a")[m.preKey].root = <<>> => m.preKey \in preKeys["a"]
      /\ Opens(Prepared(Contexts("a")[m.preKey], m, "a"), m)
  <2>1. Contexts("a") \in Tables
    BY <1>1, ViewTypes
  <2> QED BY <1>1, <1>2, <1>3, <1>6, <2>1, Hear_Side
<1>8. MayOpen(p, m.preKey, m)
  BY <1>1, <1>2, <1>7 DEF MayOpen
<1> QED BY <1>1, <1>3, <1>4, <1>6, <1>8 DEF m

(* A message of the shared context.                                        *)
LEMMA Opens_Live ==
  ASSUME Inv, RatchetAssumption, Joined, NEW p \in Devices, NEW i, Take(p, i),
         ~Lost(Other(p), sent[Other(p)][i])
  PROVE  LET m == sent[Other(p)][i]
         IN /\ Tried(p, m) = {0} /\ MayOpen(p, 0, m)
            /\ Prepared(Primary(p), m, p) = Primary(p)
            /\ \A Q : Q \subseteq Live(Other(p)) /\ (\A n \in Q : n.key # m.key) =>
                 Link(Primary(Other(p)), Decrypted(Primary(p), m), Q, Live(p),
                      preKeys[Other(p)], preKeys[p])
<1> DEFINE q == Other(p)
           m == sent[q][i]
           x == Primary(q)
           y == Primary(p)
<1>1. /\ q \in Devices /\ m \in Underway(q) /\ m \in Message /\ Contexts(p) = convs[p]
      /\ y = convs[p][0] /\ y = Contexts(p)[0]
  BY Take_View DEF Primary
<1>2. m \in Live(q) /\ x \in Conv /\ y \in Conv /\ Live(q) \in SUBSET Message
      /\ m \in Written(q)
  BY <1>1, ViewTypes DEF Live
<1>3. Link(x, y, Live(q), Live(p), preKeys[q], preKeys[p])
  BY JoinedTo
<1>4. m.key[1] = x.cks => m.np < x.ns
  <2>1. m.key[2] = m.np
    BY <1>2, <1>3 DEF Link, Way, OpenTo
  <2> QED BY <1>1, <1>2, <2>1, Past
<1> HIDE DEF q, m, x, y
<1>5. \A Q : Q \subseteq Live(q) /\ (\A n \in Q : n.key # m.key) =>
        Link(x, Decrypted(y, m), Q, Live(p), preKeys[q], preKeys[p])
  BY <1>1, <1>2, <1>3, <1>4, Hear_Link
<1>6. Opens(y, m)
  <2> DEFINE Q == {n \in Live(q) : n.key # m.key}
  <2>1. Q \subseteq Live(q) /\ \A n \in Q : n.key # m.key
    OBVIOUS
  <2> HIDE DEF Q
  <2> QED BY <1>1, <1>2, <1>3, <1>4, <2>1, Hear_Link
<1>7. /\ y.root # <<>> /\ m.ctx = y.ctx
      /\ m.setup => m.preKey \notin preKeys[p] /\ y.a0 = None
  BY <1>2, <1>3 DEF Link, End, Way, OpenTo
<1>8. Prepared(y, m, p) = y
  <2>1. [y EXCEPT !.ctx = y.ctx] = y
    BY <1>2 DEF Conv
  <2> QED BY <1>7, <2>1 DEF Prepared
<1>9. Tried(p, m) = {0}
  BY <1>1, <1>6, <1>7 DEF Tried, Collision
<1>10. MayOpen(p, 0, m)
  BY <1>1, <1>6, <1>7, <1>8 DEF MayOpen
<1> QED BY <1>5, <1>8, <1>9, <1>10 DEF q, m, x, y

(* The message that brings the devices together.                           *)
LEMMA Opens_First ==
  ASSUME Inv, RatchetAssumption, Separated, NEW p \in Devices, NEW i, Take(p, i),
         ~Lost(Other(p), sent[Other(p)][i])
  PROVE  LET m == sent[Other(p)][i]
             z == Prepared(Primary(p), m, p)
         IN /\ Tried(p, m) = {0} /\ MayOpen(p, 0, m)
            /\ m.setup /\ z \in Conv /\ z.a0 = None
            /\ p = "b" \/ ~HasSetUp("a")
            /\ Live(p) = {} /\ HasSetUp(Other(p))
            /\ \A Q : Q \subseteq Live(Other(p)) /\ (\A n \in Q : n.key # m.key) =>
                 Link(Primary(Other(p)), Decrypted(z, m), Q, {},
                      preKeys[Other(p)], preKeys[p] \ {m.preKey})
<1> DEFINE q == Other(p)
           m == sent[q][i]
           x == Primary(q)
           y == Primary(p)
           z == Prepared(y, m, p)
<1>1. /\ q \in Devices /\ m \in Underway(q) /\ m \in Message /\ Contexts(p) = convs[p]
      /\ y = convs[p][0] /\ MsgInv(q, m, keys)
      /\ (p = "a" /\ q = "b") \/ (p = "b" /\ q = "a")
      /\ Other(q) = p
  BY Take_View, Two DEF Primary, Devices
<1>2. /\ m \in Live(q) /\ m \in Written(q) /\ x \in Conv /\ y \in Conv
      /\ Live(q) \in SUBSET Message /\ Live(q) \subseteq Written(q)
      /\ Live(p) \subseteq Written(p) /\ ConvInv(p, y, keys)
  <2>1. 0 \in PreKeyIds
    BY ViewTypes
  <2>2. ConvInv(p, y, keys)
    BY <1>1, <2>1, Same
  <2> QED BY <1>1, <2>2, ViewTypes DEF Live
<1>3. Alone(q)
  BY <1>1, <1>2 DEF Separated, Blank
<1>4. /\ AloneConv(x, p) /\ ~x.flag /\ \A n \in Live(q) : SetupMessage(x, n)
      /\ SetupMessage(x, m) /\ HasSetUp(q)
  BY <1>1, <1>2, <1>3 DEF Alone
<1>5. p = "b" \/ (p = "a" /\ ~HasSetUp("a") /\ Blank("a"))
  BY <1>1, <1>4 DEF Lost, SetupMessage, Separated, Alone
<1>6. m.preKey \in preKeys[p]
  <2>1. m.preKey \in 1 .. MaxPreKeys
    BY <1>4 DEF SetupMessage, AloneConv
  <2> QED BY <1>5, <2>1 DEF Separated, Both, SideFresh
<1>7. y.staged = {} /\ (p = "a" => y.a0 = None)
  BY <1>1, <1>5 DEF Separated, Blank, Alone, AloneConv, NewConv
<1>8. Live(p) = {}
  <2>1. CASE Blank(p)
    BY <1>2, <2>1 DEF Blank
  <2>2. CASE Alone(p)
    <3>1. p = "b" /\ HasSetUp("a")
      BY <1>1, <1>4, <1>5, <2>2 DEF Alone
    <3>2. \A n \in Live(p) : n.setup
      BY <1>2, <2>2 DEF Alone, SetupMessage
    <3> QED BY <3>1, <3>2 DEF Live, Lost
  <2> QED BY <2>1, <2>2 DEF Separated
<1> HIDE DEF q, m, x, y
<1>9. m.setup /\ z = BobConv(y, m, p)
  BY <1>4, <1>6 DEF SetupMessage, Prepared
<1>10. z \in Conv
  BY <1>1, <1>2, PreparedOk DEF q
<1> HIDE DEF z
<1>11. Link(x, z, Live(q), {}, preKeys[q], preKeys[p] \ {m.preKey})
  BY <1>2, <1>4, <1>7, <1>9, Join_Link
<1>12. z.a0 = None
  BY <1>9 DEF BobConv, Reset, NewConv
<1>13. m.key[1] = x.cks => m.np < x.ns
  <2>1. m.key[2] = m.np
    BY <1>4 DEF SetupMessage
  <2> QED BY <1>1, <1>2, <2>1, Past DEF x
<1>14. \A Q : Q \subseteq Live(q) /\ (\A n \in Q : n.key # m.key) =>
         Link(x, Decrypted(z, m), Q, {}, preKeys[q], preKeys[p] \ {m.preKey})
  BY <1>1, <1>2, <1>10, <1>11, <1>13, Hear_Link
<1>15. Opens(z, m)
  <2> DEFINE Q == {n \in Live(q) : n.key # m.key}
  <2>1. Q \subseteq Live(q) /\ \A n \in Q : n.key # m.key
    OBVIOUS
  <2> HIDE DEF Q
  <2> QED BY <1>1, <1>2, <1>10, <1>11, <1>13, <2>1, Hear_Link
<1>16. Tried(p, m) = {0}
  BY <1>1, <1>7, <1>9 DEF Tried, Collision
<1>17. MayOpen(p, 0, m)
  BY <1>1, <1>6, <1>15 DEF MayOpen, z
<1> QED BY <1>4, <1>5, <1>8, <1>9, <1>10, <1>12, <1>14, <1>16, <1>17 DEF q, m, x, y, z

LEMMA Reject_Flow ==
  ASSUME Inv, RatchetAssumption, Flowing, NEW p \in Devices, NEW i, Reject(p, i)
  PROVE  FALSE
<1>1. Take(p, i) /\ \A k \in Tried(p, sent[Other(p)][i]) : ~MayOpen(p, k, sent[Other(p)][i])
  BY DEF Reject
<1>2. CASE Lost(Other(p), sent[Other(p)][i])
  BY <1>1, <1>2, Opens_Lost DEF Flowing
<1>3. CASE ~Lost(Other(p), sent[Other(p)][i]) /\ Joined
  BY <1>1, <1>3, Opens_Live
<1>4. CASE ~Lost(Other(p), sent[Other(p)][i]) /\ Separated
  BY <1>1, <1>4, Opens_First
<1> QED BY <1>2, <1>3, <1>4 DEF Flowing

-----------------------------------------------------------------------------
(* Decrypting.                                                             *)

(* What does not depend on the message.                                    *)
LEMMA Decrypt_Rest ==
  ASSUME Inv, RatchetAssumption, Flowing,
         NEW p \in Devices, NEW i \in 1 .. MaxSends, Decrypt(p, i)
  PROVE  \A r \in Devices : Accounts(r)' /\ SetupsFirst(r)'
<1> DEFINE q == Other(p)
           m == sent[q][i]
<1>1. /\ q \in Devices /\ q # p /\ i \in DOMAIN sent[q] /\ Other(q) = p
      /\ m \in Message /\ \A r \in Devices : r = p \/ r = q
      /\ MsgInv(q, m, keys) /\ Contexts(p) = convs[p]
  BY Take_View, Two DEF Decrypt
<1>2. PICK k \in PreKeyIds :
        /\ MayOpen(p, k, m)
        /\ Primary(p)' = IF k = 0 THEN Decrypted(Prepared(Primary(p), m, p), m) ELSE Primary(p)
  BY Decrypt_View
<1>3. /\ Written(p)' = Written(p) /\ Outgoing(p)' = {}
      /\ Taken(p)' = Taken(p) \union {i}
      /\ Primary(q)' = Primary(q)
      /\ Written(q)' = Written(q) /\ Outgoing(q)' = Outgoing(q)
      /\ Taken(q)' = Taken(q)
      /\ served' = served /\ sent' = sent /\ rejected' = rejected
  BY Decrypt_View
<1>4. Primary(p)' # Primary(p) => Primary(p)'.a0 \in {None, Primary(p).a0}
  <2> DEFINE c == Prepared(Primary(p), m, p)
  <2>1. Primary(p) \in Conv /\ ConvInv(p, Primary(p), keys)
    BY <1>1, ViewTypes, Same DEF Primary
  <2>2. c \in Conv
    BY <1>1, <2>1, PreparedOk
  <2>3. c.a0 \in {None, Primary(p).a0}
    <3>1. BobConv(Primary(p), m, p).a0 = None
      BY DEF BobConv, Reset, NewConv
    <3>2. [Primary(p) EXCEPT !.ctx = m.ctx].a0 = Primary(p).a0
      BY <2>1 DEF Conv
    <3> QED BY <3>1, <3>2 DEF Prepared
  <2> HIDE DEF c
  <2>4. Decrypted(c, m).a0 \in {None, c.a0}
    BY <1>1, <2>2, DecryptedFields
  <2> QED BY <1>2, <2>3, <2>4 DEF c
<1>5. Accounts(p) /\ SetupsFirst(p) /\ Accounts(q) /\ SetupsFirst(q)
  BY <1>1 DEF Flowing
<1>6. \A r \in Devices : HasSetUp(r)' <=> HasSetUp(r)
  BY <1>3 DEF HasSetUp
<1>7. Accounts(p)' /\ Accounts(q)'
  BY <1>1, <1>3, <1>5 DEF Accounts
<1>8. SetupsFirst(p)'
  BY <1>3, <1>4, <1>5, <1>6 DEF SetupsFirst
<1>9. SetupsFirst(q)'
  BY <1>1, <1>3, <1>5, <1>6 DEF SetupsFirst
<1> QED BY <1>1, <1>7, <1>8, <1>9

LEMMA Decrypt_Lost ==
  ASSUME Inv, RatchetAssumption, Flowing,
         NEW p \in Devices, NEW i \in 1 .. MaxSends, Decrypt(p, i),
         Lost(Other(p), sent[Other(p)][i])
  PROVE  (Separated \/ Joined)' /\ Side'
<1> DEFINE m == sent["b"][i]
           k == m.preKey
<1>1. /\ p = "a" /\ Other(p) = "b" /\ m \in Message /\ m \in Underway("b") /\ Take(p, i)
      /\ m \in Written("b") /\ "a" \in Devices /\ "b" \in Devices
      /\ Lost("b", m) /\ m.setup /\ HasSetUp("a")
  <2>1. p = "a" /\ Other(p) = "b" /\ Take(p, i) /\ "a" \in Devices /\ "b" \in Devices
    BY Two DEF Lost, Devices, Decrypt
  <2>2. m \in Underway("b") /\ m \in Message
    BY <2>1, Take_View
  <2> QED BY <2>1, <2>2, ViewTypes DEF Lost
<1>2. /\ Tried(p, m) = {k} /\ SideKeys(m) /\ SideOpen(Contexts("a"), preKeys["a"], m)
      /\ Prepared(Contexts("a")[k], m, "a") \in Conv
      /\ Contexts("a") \in Tables
  BY <1>1, Opens_Lost, ViewTypes DEF Flowing
<1> DEFINE d == Decrypted(Prepared(Contexts("a")[k], m, "a"), m)
           nv == [Contexts("a") EXCEPT ![k] = d]
<1>3. /\ k \in PreKeyIds /\ k # 0
      /\ d.nr \in {Contexts("a")[k].nr, m.np + 1}
      /\ \A t : t[k] = d =>
           /\ SideUsed(t, preKeys["a"] \ {k}, k, m.key[1], m.dh)
           /\ \A n \in Message :
                n.key # m.key /\ SideKeys(n) /\ Agree(m, n)
                  /\ SideOpen(Contexts("a"), preKeys["a"], n)
                    => SideOpen(t, preKeys["a"] \ {k}, n)
  BY <1>1, <1>2, Hear_Side
<1>4. /\ Contexts("a")' = nv /\ Contexts("a")'[k] = d
      /\ Primary("a")' = Primary("a")
      /\ preKeys'["a"] = preKeys["a"] \ {k} /\ preKeys'["b"] = preKeys["b"]
      /\ Written("a")' = Written("a") /\ Underway("a")' = Underway("a")
      /\ Primary("b")' = Primary("b") /\ Written("b")' = Written("b")
      /\ Taken("b")' = Taken("b")
      /\ Underway("b")' \subseteq Underway("b")
      /\ \A n \in Underway("b")' : n.key # m.key
      /\ served' = served
  BY <1>1, <1>2, <1>3, Decrypt_View
<1> HIDE DEF m, k, d, nv
<1>5. nv[k] = d
  BY <1>4
<1>6. /\ HasSetUp("a")' <=> HasSetUp("a")
      /\ HasSetUp("b")' <=> HasSetUp("b")
      /\ \A r, n : Lost(r, n)' <=> Lost(r, n)
  BY <1>4 DEF HasSetUp, Lost
<1>7. Side'
  <2> SUFFICES ASSUME NEW n \in Underway("b")', Lost("b", n)
               PROVE  /\ Primary("a")'.a0 # None
                      /\ SideKeys(n) /\ SideOpen(nv, preKeys["a"] \ {k}, n)
                      /\ \A o \in Underway("b")' : Lost("b", o) => Agree(n, o)
    BY <1>4, <1>6 DEF Side
  <2>1. n \in Underway("b") /\ n.key # m.key /\ n \in Message
    BY <1>1, <1>4, ViewTypes
  <2>2. /\ Primary("a").a0 # None /\ SideKeys(n)
        /\ SideOpen(Contexts("a"), preKeys["a"], n)
        /\ \A o \in Underway("b") : Lost("b", o) => Agree(n, o)
        /\ Agree(m, n)
    BY <1>1, <2>1 DEF Flowing, Side
  <2>3. SideOpen(nv, preKeys["a"] \ {k}, n)
    BY <1>3, <1>5, <2>1, <2>2
  <2> QED BY <1>4, <2>2, <2>3
<1>8. CASE Joined
  <2>1. Live("b")' \subseteq Live("b") /\ Live("a")' = Live("a")
    BY <1>4, <1>6 DEF Live
  <2>2. Link(Primary("a"), Primary("b"), Live("a"), Live("b"), preKeys["a"], preKeys["b"])
    BY <1>8 DEF Joined
  <2>3. Link(Primary("a"), Primary("b"), Live("a")', Live("b")', preKeys'["a"], preKeys'["b"])
    BY <1>4, <2>1, <2>2, LinkLess
  <2>4. Joined'
    BY <1>4, <1>6, <1>8, <2>3 DEF Joined
  <2> QED BY <1>7, <2>4
<1>9. CASE Separated
  <2>1. Blank("a") \/ Alone("a")
    BY <1>1, <1>9 DEF Separated
  <2>2. Alone("b") /\ Both
    BY <1>1, <1>9 DEF Separated, Blank, Alone, Both
  <2>3. /\ SetupMessage(Primary("b"), m) /\ ~Primary("b").flag
        /\ Primary("b").preKey = k /\ Primary("b").dhs = m.dh /\ Primary("b").cks = m.key[1]
        /\ m.key[2] = m.np
    BY <1>1, <2>2 DEF Alone, SetupMessage, k
  <2>4. m.np < Primary("b").ns /\ m.np \in Nat /\ Primary("b").ns \in Nat
    BY <1>1, <2>3, Past, ViewTypes, ConvTypes, MessageTypes
  <2>5. Contexts("a")[k].nr <= Primary("b").ns
    <3>1. NewConv.nr = 0
      BY DEF NewConv
    <3> QED BY <1>9, <2>2, <2>3, <2>4, <3>1 DEF Separated, SideNew, SideFresh
  <2>6. d.nr <= Primary("b").ns
    BY <1>3, <2>4, <2>5
  <2>7. SideUsed(nv, preKeys["a"] \ {k}, k, m.key[1], m.dh)
    BY <1>3, <1>5
  <2>8. SideNew'
    BY <1>4, <1>5, <2>3, <2>6, <2>7 DEF SideNew
  <2>9. Both'
    BY <1>6, <2>2 DEF Both
  <2>10. (Blank("a") \/ Alone("a"))' /\ Alone("b")'
    BY <1>4, <1>6, <2>1, <2>2 DEF Blank, Alone
  <2>11. Taken("b")' = {} /\ preKeys'["b"] = 1 .. MaxPreKeys
    BY <1>4, <1>9 DEF Separated
  <2>12. \A r \in Devices : r = "a" \/ r = "b"
    BY DEF Devices
  <2>13. Separated'
    BY <2>8, <2>9, <2>10, <2>11, <2>12 DEF Separated
  <2> QED BY <1>7, <2>13
<1> QED BY <1>8, <1>9 DEF Flowing

(* Side does not concern what b receives.                                  *)
LEMMA SideStays ==
  ASSUME Side, Underway("b")' \subseteq Underway("b"), Contexts("a")' = Contexts("a"),
         preKeys'["a"] = preKeys["a"], served' = served
  PROVE  Side'
<1>1. Primary("a")' = Primary("a") /\ \A r, n : Lost(r, n)' <=> Lost(r, n)
  BY DEF Primary, Lost, HasSetUp
<1> QED BY <1>1 DEF Side

LEMMA Decrypt_First ==
  ASSUME Inv, RatchetAssumption, Flowing, Separated,
         NEW p \in Devices, NEW i \in 1 .. MaxSends, Decrypt(p, i),
         ~Lost(Other(p), sent[Other(p)][i])
  PROVE  Joined' /\ Side'
<1> DEFINE q == Other(p)
           m == sent[q][i]
           z == Prepared(Primary(p), m, p)
           d == Decrypted(z, m)
<1>1. /\ Take(p, i) /\ q \in Devices /\ m \in Message /\ Other(q) = p
      /\ (p = "a" /\ q = "b") \/ (p = "b" /\ q = "a")
  <2>1. Take(p, i)
    BY DEF Decrypt
  <2> QED BY <2>1, Take_View, Two DEF Devices
<1>2. /\ Tried(p, m) = {0} /\ m.setup /\ z \in Conv /\ z.a0 = None
      /\ p = "b" \/ ~HasSetUp("a")
      /\ Live(p) = {} /\ HasSetUp(q)
      /\ \A Q : Q \subseteq Live(q) /\ (\A n \in Q : n.key # m.key) =>
           Link(Primary(q), d, Q, {}, preKeys[q], preKeys[p] \ {m.preKey})
  BY <1>1, Opens_First
<1>3. /\ Primary(p)' = d /\ Primary(q)' = Primary(q) /\ Contexts(q)' = Contexts(q)
      /\ preKeys'[p] = preKeys[p] \ {m.preKey} /\ preKeys'[q] = preKeys[q]
      /\ Underway(p)' = Underway(p)
      /\ Underway(q)' \subseteq Underway(q)
      /\ \A n \in Underway(q)' : n.key # m.key
      /\ served' = served
  BY <1>2, Decrypt_View
<1>4. d.a0 = None
  BY <1>1, <1>2, DecryptedFields
<1>5. /\ HasSetUp("a")' <=> HasSetUp("a")
      /\ \A r, n : Lost(r, n)' <=> Lost(r, n)
  BY <1>3 DEF HasSetUp, Lost
<1> HIDE DEF q, m, z, d
<1>6. /\ Live(q)' \subseteq Live(q) /\ Live(p)' = {} /\ \A n \in Live(q)' : n.key # m.key
  BY <1>2, <1>3, <1>5 DEF Live
<1>7. Link(Primary(q)', Primary(p)', Live(q)', Live(p)', preKeys'[q], preKeys'[p])
  BY <1>2, <1>3, <1>6
<1>8. Joined'
  BY <1>1, <1>2, <1>3, <1>4, <1>5, <1>7, LinkTurns DEF Joined
<1>9. Side'
  <2>1. CASE p = "b"
    BY <1>1, <1>3, <2>1, SideStays DEF Flowing
  <2>2. CASE ~HasSetUp("a")
    BY <1>5, <2>2 DEF Side, Lost
  <2> QED BY <1>2, <2>1, <2>2
<1> QED BY <1>8, <1>9

LEMMA Decrypt_Live ==
  ASSUME Inv, RatchetAssumption, Flowing, Joined, Calm',
         NEW p \in Devices, NEW i \in 1 .. MaxSends, Decrypt(p, i),
         ~Lost(Other(p), sent[Other(p)][i])
  PROVE  Joined' /\ Side'
<1> DEFINE q == Other(p)
           m == sent[q][i]
           d == Decrypted(Primary(p), m)
<1>1. /\ Take(p, i) /\ q \in Devices /\ m \in Message /\ Other(q) = p /\ m \in Underway(q)
      /\ i \in DOMAIN sent[q] /\ Taken(p) = accepted[p]
      /\ (p = "a" /\ q = "b") \/ (p = "b" /\ q = "a")
  <2>1. Take(p, i)
    BY DEF Decrypt
  <2> QED BY <2>1, Take_View, Two DEF Devices
<1>2. /\ Tried(p, m) = {0} /\ Prepared(Primary(p), m, p) = Primary(p)
      /\ \A Q : Q \subseteq Live(q) /\ (\A n \in Q : n.key # m.key) =>
           Link(Primary(q), d, Q, Live(p), preKeys[q], preKeys[p])
      /\ Primary(p) \in Conv
  BY <1>1, Opens_Live, ViewTypes
<1>3. /\ Primary(p)' = d /\ Primary(q)' = Primary(q) /\ Contexts(q)' = Contexts(q)
      /\ preKeys'[p] \subseteq preKeys[p] /\ preKeys'[q] = preKeys[q]
      /\ Underway(p)' = Underway(p)
      /\ Underway(q)' \subseteq Underway(q)
      /\ \A n \in Underway(q)' : n.key # m.key
      /\ served' = served
  BY <1>2, Decrypt_View
<1>4. d.a0 \in {None, Primary(p).a0}
  BY <1>1, <1>2, DecryptedFields
<1>5. /\ HasSetUp("a")' <=> HasSetUp("a")
      /\ HasSetUp("b")' <=> HasSetUp("b")
      /\ \A r, n : Lost(r, n)' <=> Lost(r, n)
  BY <1>3 DEF HasSetUp, Lost
<1> HIDE DEF q, m, d
<1>6. /\ Live(q)' \subseteq Live(q) /\ Live(p)' = Live(p) /\ \A n \in Live(q)' : n.key # m.key
  BY <1>3, <1>5 DEF Live
<1>7. Link(Primary(q), d, Live(q)', Live(p), preKeys[q], preKeys[p])
  BY <1>2, <1>6
<1>8. Link(Primary(q)', Primary(p)', Live(q)', Live(p)', preKeys'[q], preKeys'[p])
  <2>1. /\ Live(q)' \subseteq Live(q)' /\ Live(p) \subseteq Live(p)
        /\ preKeys[q] \subseteq preKeys[q]
    OBVIOUS
  <2>2. Link(Primary(q), d, Live(q)', Live(p), preKeys[q], preKeys'[p])
    BY <1>3, <1>7, <2>1, LinkLess
  <2> QED BY <1>3, <1>6, <2>2
<1>9. Joined'
  BY <1>1, <1>3, <1>4, <1>5, <1>8, LinkTurns DEF Joined
<1>10. CASE p = "b"
  BY <1>1, <1>3, <1>9, <1>10, SideStays DEF Flowing
<1>11. CASE p = "a"
  (* No message of b's own conversation is still under way. *)
  <2> SUFFICES ASSUME NEW n \in Underway("b"), Lost("b", n)
               PROVE  FALSE
    BY <1>1, <1>3, <1>5, <1>9, <1>11 DEF Side
  <2>1. q = "b" /\ n.setup /\ HasSetUp("a") /\ ~m.setup
    BY <1>1, <1>11 DEF Lost, m, q
  <2>2. SetupsFirst("b") /\ Accounts("a")
    BY <1>1, <2>1, <1>11 DEF Flowing
  <2>3. HasSetUp("b")
    BY <1>1, <2>1, <2>2, ViewTypes DEF SetupsFirst
  <2>4. ~reordered'
    BY <1>5, <2>1, <2>3 DEF Calm, Both
  <2>5. n \notin Outgoing("b")
    BY <2>1, <2>2 DEF Joined, SetupsFirst
  <2>6. PICK j \in DOMAIN sent["b"] \ Taken("a") : n = sent["b"][j]
    <3>1. Other("b") = "a"
      BY <1>1, <1>11, <2>1
    <3> QED BY <2>5, <3>1 DEF Underway
  <2>7. j \in Nat /\ i \in Nat
    <3>1. sent["b"] \in Seq(Message)
      BY <1>1, <2>1 DEF Inv, TypeOK
    <3> QED BY <2>6, <3>1
  <2>8. j < i
    <3>1. ~(i < j) /\ i # j
      BY <1>1, <2>1, <2>2, <2>6 DEF SetupsFirst, m
    <3> QED BY <2>7, <3>1
  <2>9. j \in Waiting("a")
    BY <1>1, <1>11, <2>1, <2>2, <2>6 DEF Waiting, Accounts, q
  <2> QED BY <1>1, <1>11, <2>4, <2>8, <2>9 DEF Take
<1> QED BY <1>1, <1>10, <1>11

-----------------------------------------------------------------------------
(* Sending.                                                                *)

LEMMA Encrypt_Rest ==
  ASSUME Inv, RatchetAssumption, Flowing, NEW p \in Devices, Encrypt(p)
  PROVE  \A r \in Devices : Accounts(r)' /\ SetupsFirst(r)'
<1> DEFINE q == Other(p)
           key == <<p, keys[p] + 1>>
           c == Primary(p)
           w == Wire(Turned(c, key))
<1>1. /\ q \in Devices /\ q # p /\ Other(q) = p /\ \A r \in Devices : r = p \/ r = q
      /\ key \in Keys /\ c \in Conv
      /\ Primary(p)' = Sends(c, key)
      /\ Written(p)' = Written(p) \union {w}
      /\ Outgoing(p)' = {w}
      /\ Primary(q)' = Primary(q) /\ Written(q)' = Written(q)
      /\ Outgoing(q)' = Outgoing(q)
      /\ Taken(p)' = Taken(p) /\ Taken(q)' = Taken(q)
      /\ served' = served /\ sent' = sent /\ rejected' = rejected
  BY Two, ViewTypes, Encrypt_View
<1>2. w.setup = (c.a0 # None) /\ Sends(c, key).a0 = c.a0
  BY <1>1, SentFields
<1> HIDE DEF q, key, w
<1>3. Accounts(p) /\ SetupsFirst(p) /\ Accounts(q) /\ SetupsFirst(q)
  BY <1>1 DEF Flowing
<1>4. \A r \in Devices : HasSetUp(r)' <=> HasSetUp(r)
  BY <1>1 DEF HasSetUp
<1>5. Accounts(p)' /\ Accounts(q)'
  BY <1>1, <1>3 DEF Accounts
<1>6. SetupsFirst(p)'
  BY <1>1, <1>2, <1>3, <1>4 DEF SetupsFirst
<1>7. SetupsFirst(q)'
  BY <1>1, <1>3, <1>4 DEF SetupsFirst
<1> QED BY <1>1, <1>5, <1>6, <1>7

LEMMA Encrypt_Separated ==
  ASSUME Inv, RatchetAssumption, Flowing, Separated, NEW p \in Devices, Encrypt(p)
  PROVE  Separated' /\ Side'
<1> DEFINE q == Other(p)
           key == <<p, keys[p] + 1>>
           c == Primary(p)
           z == Sends(c, key)
           w == Wire(Turned(c, key))
<1>1. /\ q \in Devices /\ q # p /\ Other(q) = p
      /\ (p = "a" /\ q = "b") \/ (p = "b" /\ q = "a")
      /\ Turned(c, key).root # <<>> /\ key \in Keys /\ c \in Conv
      /\ Contexts(p)' = [Contexts(p) EXCEPT ![0] = z]
      /\ Primary(p)' = z
      /\ Written(p)' = Written(p) \union {w} /\ Underway(p)' = Underway(p) \union {w}
      /\ Contexts(q)' = Contexts(q) /\ Primary(q)' = Primary(q)
      /\ Written(q)' = Written(q) /\ Underway(q)' = Underway(q)
      /\ Taken(p)' = Taken(p) /\ Taken(q)' = Taken(q)
      /\ preKeys' = preKeys /\ served' = served
      /\ Contexts("a") \in Tables
  BY Two, ViewTypes, Encrypt_View DEF Devices
<1>2. Alone(p)
  <2>1. ASSUME Blank(p)
        PROVE  FALSE
    <3>1. c.flag = FALSE /\ c.root = <<>>
      BY <2>1 DEF Blank, NewConv
    <3>2. Turned(c, key) = c
      BY <3>1 DEF Turned
    <3> QED BY <1>1, <3>1, <3>2
  <2> QED BY <2>1 DEF Separated
<1>3. AloneConv(c, q) /\ HasSetUp(p) /\ \A n \in Written(p) : SetupMessage(c, n) /\ ~c.flag
  BY <1>2 DEF Alone
<1>4. /\ AloneConv(z, q) /\ ~z.flag /\ SetupMessage(z, w)
      /\ z.preKey = c.preKey /\ z.ns = w.np + 1
      /\ ~c.flag => /\ w.np = c.ns /\ z.cks = c.cks /\ z.dhs = c.dhs
                    /\ \A m : SetupMessage(c, m) => SetupMessage(z, m)
  BY <1>1, <1>3, Send_Alone
<1> HIDE DEF q, key, z, w
<1>5. /\ HasSetUp("a")' <=> HasSetUp("a")
      /\ HasSetUp("b")' <=> HasSetUp("b")
      /\ \A r, n : Lost(r, n)' <=> Lost(r, n)
      /\ Both' <=> Both
  BY <1>1 DEF HasSetUp, Lost, Both
<1>6. Alone(p)'
  <2>1. \A n \in Written(p)' : SetupMessage(z, n)
    BY <1>1, <1>3, <1>4
  <2>2. HasSetUp(p)'
    BY <1>1, <1>3, <1>5
  <2> QED BY <1>1, <1>4, <2>1, <2>2 DEF Alone, q
<1>7. (Blank(q) \/ Alone(q))'
  <2>1. Blank(q) \/ Alone(q)
    BY <1>1 DEF Separated
  <2> QED BY <1>1, <1>5, <2>1 DEF Blank, Alone
<1>8. \A k \in 1 .. MaxPreKeys : Contexts("a")'[k] = Contexts("a")[k]
  <2>1. \A k \in 1 .. MaxPreKeys : k # 0
    OBVIOUS
  <2> QED BY <1>1, <2>1 DEF Tables
<1>9. Taken("b")' = {} /\ preKeys'["b"] = 1 .. MaxPreKeys
  BY <1>1 DEF Separated
<1>10. ~Both => \A k \in 1 .. MaxPreKeys : SideFresh(Contexts("a")', preKeys'["a"], k)
  BY <1>1, <1>8 DEF Separated, SideFresh
<1>11. Primary("a")'.a0 # None <=> Primary("a").a0 # None
  <2>1. z.a0 # None /\ c.a0 # None
    BY <1>3, <1>4 DEF AloneConv
  <2> QED BY <1>1, <2>1
<1>12. \A r \in Devices : r = p \/ r = q
  BY <1>1 DEF Devices
<1>13. CASE p = "a"
  <2>1. Both => Alone("b")
    BY <1>1, <1>13 DEF Separated, Blank, Both
  <2>2. Both => Primary("b").preKey \in 1 .. MaxPreKeys
    BY <2>1 DEF Alone, AloneConv
  <2>3. Both' => SideNew'
    BY <1>1, <1>5, <1>8, <1>13, <2>2 DEF Separated, SideNew, SideFresh, SideUsed
  <2>4. Side'
    <3> SUFFICES ASSUME NEW m \in Underway("b"), Lost("b", m)
                 PROVE  /\ Primary("a")'.a0 # None
                        /\ SideKeys(m) /\ SideOpen(Contexts("a")', preKeys["a"], m)
                        /\ \A n \in Underway("b") : Lost("b", n) => Agree(m, n)
      BY <1>1, <1>5, <1>13 DEF Side
    <3>1. /\ Primary("a").a0 # None
          /\ SideKeys(m) /\ SideOpen(Contexts("a"), preKeys["a"], m)
          /\ \A n \in Underway("b") : Lost("b", n) => Agree(m, n)
      BY DEF Flowing, Side
    <3>2. Contexts("a")'[m.preKey] = Contexts("a")[m.preKey]
      BY <1>8, <3>1 DEF SideKeys
    <3>3. SideOpen(Contexts("a")', preKeys["a"], m)
      BY <3>1, <3>2 DEF SideOpen, SideFresh, SideUsed
    <3> QED BY <1>11, <3>1, <3>3
  <2>5. Separated'
    BY <1>5, <1>6, <1>7, <1>9, <1>10, <1>12, <2>3 DEF Separated
  <2> QED BY <2>4, <2>5
<1>14. CASE p = "b"
  <2>1. Contexts("a")' = Contexts("a") /\ q = "a" /\ Primary("a")' = Primary("a")
        /\ Primary("b")' = z /\ Primary("b") = c
    BY <1>1, <1>14
  <2>2. c.preKey \in 1 .. MaxPreKeys /\ c.ns \in Nat /\ w.np \in Nat /\ c.flag \in BOOLEAN
    <3> HIDE DEF c
    <3>1. w.np = IF c.flag THEN 0 ELSE c.ns
      <4>1. key \in Keys /\ c \in Conv
        BY <1>1 DEF c
      <4> QED BY <4>1, SentFields DEF w
    <3> QED BY <1>1, <1>3, <3>1, ConvTypes DEF AloneConv
  <2>3. Both => SideNew'
    <3>1. CASE Both /\ SideFresh(Contexts("a"), preKeys["a"], c.preKey)
      BY <1>1, <1>4, <2>1, <3>1 DEF SideNew
    <3>2. CASE Both /\ ~SideFresh(Contexts("a"), preKeys["a"], c.preKey)
      <4>1. /\ ~c.flag /\ SideUsed(Contexts("a"), preKeys["a"], c.preKey, c.cks, c.dhs)
            /\ Contexts("a")[c.preKey].nr <= c.ns
        BY <2>1, <3>2 DEF Separated, SideNew
      <4>2. Contexts("a")[c.preKey].nr \in Nat
        <5>1. c.preKey \in PreKeyIds
          BY <1>1 DEF Conv
        <5> QED BY <1>1, <5>1, ConvTypes DEF Tables
      <4>3. Contexts("a")[c.preKey].nr <= z.ns
        BY <1>4, <2>2, <4>1, <4>2
      <4> QED BY <1>1, <1>4, <2>1, <4>1, <4>3 DEF SideNew
    <3> QED BY <3>1, <3>2
  <2>4. Separated'
    BY <1>5, <1>6, <1>7, <1>9, <1>10, <1>12, <2>3 DEF Separated
  <2>5. CASE ~HasSetUp("a")
    BY <1>5, <2>4, <2>5 DEF Side, Lost
  <2>6. CASE HasSetUp("a")
    <3>1. Both /\ Alone("a")
      BY <1>1, <1>3, <1>14, <2>1, <2>6 DEF Both, Separated, Blank
    <3>2. Primary("a").a0 # None
      BY <3>1 DEF Alone, AloneConv
    <3>3. \A n \in Underway("b") : SetupMessage(z, n) /\ SetupMessage(c, n) /\ ~c.flag
      BY <1>3, <1>4, <1>14, ViewTypes
    <3>4. \A n : SetupMessage(z, n) => SideKeys(n)
      <4> SUFFICES ASSUME NEW n, SetupMessage(z, n)
                   PROVE  SideKeys(n)
        OBVIOUS
      <4>1. z.cks = Append(<<{z.ctx, <<"a", z.preKey>>}>>, {z.dhs, <<"a", z.preKey>>})
        BY <1>4, <2>1 DEF AloneConv, SecondChain, FirstChain, PreKeyOf
      <4>2. /\ n.preKey = z.preKey /\ n.a0 = z.ctx /\ n.dh = z.dhs /\ n.pn = 0
            /\ n.key = <<z.cks, n.np>>
        BY DEF SetupMessage
      <4> QED BY <1>4, <2>2, <4>1, <4>2 DEF SideKeys
    <3>5. \A m, n : SetupMessage(z, m) /\ SetupMessage(z, n) => Agree(m, n)
      BY DEF SetupMessage, Agree
    <3>6. SideOpen(Contexts("a"), preKeys["a"], w)
      <4>1. w.preKey = c.preKey /\ w.key[1] = z.cks /\ w.dh = z.dhs
        BY <1>4 DEF SetupMessage
      <4>2. CASE SideFresh(Contexts("a"), preKeys["a"], c.preKey)
        BY <4>1, <4>2 DEF SideOpen
      <4>3. CASE ~SideFresh(Contexts("a"), preKeys["a"], c.preKey)
        <5>1. /\ ~c.flag /\ SideUsed(Contexts("a"), preKeys["a"], c.preKey, c.cks, c.dhs)
              /\ Contexts("a")[c.preKey].nr <= c.ns
          BY <2>1, <3>1, <4>3 DEF Separated, SideNew
        <5> QED BY <1>4, <4>1, <5>1 DEF SideOpen
      <4> QED BY <4>2, <4>3
    <3>7. \A n \in Underway("b") : SideOpen(Contexts("a"), preKeys["a"], n)
      BY <2>6, <3>3 DEF Flowing, Side, Lost, SetupMessage
    <3>8. \A n \in Underway("b")' : SetupMessage(z, n) /\ SideOpen(Contexts("a"), preKeys["a"], n)
      BY <1>1, <1>4, <1>14, <3>3, <3>6, <3>7
    <3>9. Side'
      BY <1>1, <2>1, <3>2, <3>4, <3>5, <3>8 DEF Side
    <3> QED BY <2>4, <3>9
  <2> QED BY <2>5, <2>6, <2>4
<1> QED BY <1>1, <1>13, <1>14

LEMMA Encrypt_Joined ==
  ASSUME Inv, RatchetAssumption, Flowing, Joined, NEW p \in Devices, Encrypt(p)
  PROVE  Joined' /\ Side'
<1> DEFINE q == Other(p)
           key == <<p, keys[p] + 1>>
           c == Primary(p)
           z == Sends(c, key)
           w == Wire(Turned(c, key))
<1>1. /\ q \in Devices /\ q # p /\ Other(q) = p
      /\ (p = "a" /\ q = "b") \/ (p = "b" /\ q = "a")
      /\ key \in Keys /\ c \in Conv /\ Primary(q) \in Conv
      /\ Contexts(p)' = [Contexts(p) EXCEPT ![0] = z]
      /\ Primary(p)' = z
      /\ Underway(p)' = Underway(p) \union {w}
      /\ Contexts(q)' = Contexts(q) /\ Primary(q)' = Primary(q)
      /\ Underway(q)' = Underway(q)
      /\ preKeys' = preKeys /\ served' = served
      /\ Contexts("a") \in Tables
      /\ Live(p) \in SUBSET Message /\ Live(p) \subseteq Written(p)
      /\ ~Known(key, keys)
  BY Two, ViewTypes, Encrypt_View DEF Devices
<1>2. Link(c, Primary(q), Live(p), Live(q), preKeys[p], preKeys[q])
  BY <1>1, JoinedTo
<1>3. key # Primary(q).dhr
  <2>1. 0 \in PreKeyIds
    BY ViewTypes
  <2>2. ConvInv(q, Primary(q), keys)
    BY <1>1, <2>1, Same DEF Primary, Contexts
  <2>3. key # None
    BY <1>1, Pairs
  <2> QED BY <1>1, <2>2, <2>3 DEF ConvInv
<1>4. \A n \in Live(p) : n.key[1] = c.cks => n.key[2] < c.ns
  BY <1>1, Past
<1>5. /\ w.setup = (c.a0 # None) /\ z.a0 = c.a0
  <2>1. key \in Keys /\ c \in Conv
    BY <1>1
  <2> HIDE DEF key, c
  <2> QED BY <2>1, SentFields
<1> HIDE DEF q, key, z, w, c
<1>6. Link(z, Primary(q), Live(p) \union {w}, Live(q), preKeys[p], preKeys[q])
  BY <1>1, <1>2, <1>3, <1>4, Send_Link DEF z, w
<1>7. /\ HasSetUp("a")' <=> HasSetUp("a")
      /\ HasSetUp("b")' <=> HasSetUp("b")
      /\ \A r, n : Lost(r, n)' <=> Lost(r, n)
  BY <1>1 DEF HasSetUp, Lost
<1>8. ~Lost(p, w)
  BY <1>5 DEF Joined, Lost, c
<1>9. Live(p)' = Live(p) \union {w} /\ Live(q)' = Live(q)
  BY <1>1, <1>7, <1>8 DEF Live
<1>10. Joined'
  <2>1. Link(Primary(p)', Primary(q)', Live(p)', Live(q)', preKeys'[p], preKeys'[q])
    BY <1>1, <1>6, <1>9
  <2>2. HasSetUp("a")' => Primary("b")'.a0 = None
    BY <1>1, <1>5, <1>7 DEF Joined, c
  <2> QED BY <1>1, <2>1, <2>2, LinkTurns DEF Joined
<1>11. Side'
  <2> SUFFICES ASSUME NEW m \in Underway("b")', Lost("b", m)
               PROVE  /\ Primary("a")'.a0 # None
                      /\ SideKeys(m) /\ SideOpen(Contexts("a")', preKeys["a"], m)
                      /\ \A n \in Underway("b")' : Lost("b", n) => Agree(m, n)
    BY <1>1, <1>7 DEF Side
  <2>1. \A n \in Underway("b")' : Lost("b", n) => n \in Underway("b")
    BY <1>1, <1>8
  <2>2. /\ Primary("a").a0 # None
        /\ SideKeys(m) /\ SideOpen(Contexts("a"), preKeys["a"], m)
        /\ \A n \in Underway("b")' : Lost("b", n) => Agree(m, n)
    BY <2>1 DEF Flowing, Side
  <2>3. Primary("a")'.a0 = Primary("a").a0
    BY <1>1, <1>5 DEF c
  <2>4. Contexts("a")'[m.preKey] = Contexts("a")[m.preKey]
    <3>1. m.preKey # 0
      BY <2>2 DEF SideKeys
    <3>2. m.preKey \in PreKeyIds
      BY <2>2 DEF SideKeys, PreKeyIds
    <3> QED BY <1>1, <3>1, <3>2 DEF Tables
  <2>5. SideOpen(Contexts("a")', preKeys["a"], m)
    BY <2>2, <2>4 DEF SideOpen, SideFresh, SideUsed
  <2> QED BY <2>2, <2>3, <2>5
<1> QED BY <1>10, <1>11

-----------------------------------------------------------------------------
(* The other steps.                                                        *)

LEMMA Setup_Flow ==
  ASSUME Inv, RatchetAssumption, Flowing, NEW p \in Devices, Setup(p)
  PROVE  Flowing'
<1> DEFINE q == Other(p)
           i == served[q] + 1
           a0 == <<p, keys[p] + 1>>
           z == AliceConv(Primary(p), a0, q, i)
<1>1. /\ q \in Devices /\ q # p /\ Other(q) = p /\ (\A r \in Devices : r = p \/ r = q)
      /\ (p = "a" /\ q = "b") \/ (p = "b" /\ q = "a")
      /\ i \in 1 .. MaxPreKeys /\ a0 \in Keys
      /\ Primary(p).root = <<>>
      /\ Contexts(p)' = [Contexts(p) EXCEPT ![0] = z]
      /\ Primary(p)' = z
      /\ Written(p)' = Written(p) /\ Underway(p)' = Underway(p)
      /\ Outgoing(p) = {} /\ Outgoing(p)' = {}
      /\ Contexts(q)' = Contexts(q) /\ Primary(q)' = Primary(q)
      /\ Written(q)' = Written(q) /\ Underway(q)' = Underway(q)
      /\ Outgoing(q)' = Outgoing(q)
      /\ Taken(p)' = Taken(p) /\ Taken(q)' = Taken(q)
      /\ HasSetUp(p)' /\ (HasSetUp(q)' <=> HasSetUp(q))
      /\ preKeys' = preKeys /\ sent' = sent /\ rejected' = rejected
      /\ Contexts("a") \in Tables
  BY Two, ViewTypes, Setup_View DEF Devices
<1>2. ~Joined
  BY <1>1, JoinedTo DEF Link, End
<1>3. Separated
  BY <1>2 DEF Flowing
<1>4. Blank(p)
  <2>1. ASSUME Alone(p)
        PROVE  FALSE
    <3>1. /\ FirstChain(Primary(p), q) # <<>> /\ SecondChain(Primary(p), q) # <<>>
      BY DEF FirstChain, SecondChain
    <3>2. Primary(p).flag \in BOOLEAN
      BY ViewTypes, ConvTypes
    <3> QED BY <1>1, <2>1, <3>1, <3>2 DEF Alone, AloneConv
  <2> QED BY <1>3, <2>1 DEF Separated
<1>5. AloneConv(z, q) /\ z.preKey = i /\ z.flag
  BY <1>1, <1>4, AliceAlone DEF Blank
<1> HIDE DEF q, i, a0, z
<1>6. \A k \in 1 .. MaxPreKeys : Contexts("a")'[k] = Contexts("a")[k]
  <2>1. \A k \in 1 .. MaxPreKeys : k # 0
    OBVIOUS
  <2> QED BY <1>1, <2>1 DEF Tables
<1>7. \A k \in 1 .. MaxPreKeys : SideFresh(Contexts("a")', preKeys'["a"], k)
  <2>1. ~Both
    BY <1>1, <1>4 DEF Blank, Both
  <2> QED BY <1>1, <1>3, <1>6, <2>1 DEF Separated, SideFresh
<1>8. Alone(p)'
  BY <1>1, <1>4, <1>5 DEF Alone, Blank, q
<1>9. (Blank(q) \/ Alone(q))'
  <2>1. Blank(q) \/ Alone(q)
    BY <1>1, <1>3 DEF Separated
  <2> QED BY <1>1, <2>1 DEF Blank, Alone
<1>10. Both' => SideNew'
  <2>1. Both' => Alone("b")'
    BY <1>1, <1>8, <1>9 DEF Blank, Both
  <2>2. Alone("b")' => Primary("b")'.preKey \in 1 .. MaxPreKeys
    BY DEF Alone, AloneConv
  <2> QED BY <1>7, <2>1, <2>2 DEF SideNew
<1>11. Separated'
  <2>1. Taken("b")' = {} /\ preKeys'["b"] = 1 .. MaxPreKeys
    BY <1>1, <1>3 DEF Separated
  <2> QED BY <1>1, <1>7, <1>8, <1>9, <1>10, <2>1 DEF Separated
<1>12. Side'
  <2>1. CASE ~HasSetUp("a")'
    BY <2>1 DEF Side, Lost
  <2>2. CASE HasSetUp("a")' /\ Underway("b")' = {}
    BY <2>2 DEF Side
  <2>3. CASE HasSetUp("a")' /\ Underway("b")' # {}
    <3>1. Underway("b")' \subseteq Written("b")'
      <4>1. Underway("b") \subseteq Written("b")
        BY <1>1, ViewTypes
      <4> QED BY <1>1, <4>1
    <3>2. p = "a" /\ q = "b" /\ Alone("b")'
      BY <1>1, <1>4, <1>9, <2>3, <3>1 DEF Blank
    <3>3. Primary("a")'.a0 # None
      BY <1>1, <1>5, <3>2 DEF AloneConv
    <3> DEFINE x == Primary("b")'
    <3>4. AloneConv(x, "a") /\ \A n \in Underway("b")' : SetupMessage(x, n) /\ ~x.flag
      BY <1>1, <3>1, <3>2 DEF Alone
    <3> HIDE DEF x
    <3>5. \A n \in Underway("b")' : SideKeys(n)
      <4> SUFFICES ASSUME NEW n \in Underway("b")'
                   PROVE  SideKeys(n)
        OBVIOUS
      <4>1. /\ x.cks = Append(<<{x.ctx, <<"a", x.preKey>>}>>, {x.dhs, <<"a", x.preKey>>})
            /\ x.preKey \in 1 .. MaxPreKeys
        BY <3>4 DEF AloneConv, SecondChain, FirstChain, PreKeyOf
      <4>2. /\ n.preKey = x.preKey /\ n.a0 = x.ctx /\ n.dh = x.dhs /\ n.pn = 0
            /\ n.key = <<x.cks, n.np>>
        BY <3>4 DEF SetupMessage
      <4> QED BY <4>1, <4>2 DEF SideKeys
    <3>6. \A m, n \in Underway("b")' : Agree(m, n)
      BY <3>4 DEF SetupMessage, Agree
    <3>7. \A n \in Underway("b")' : SideOpen(Contexts("a")', preKeys'["a"], n)
      BY <1>7, <3>5 DEF SideOpen, SideKeys
    <3> QED BY <3>3, <3>5, <3>6, <3>7 DEF Side
  <2> QED BY <2>1, <2>2, <2>3
<1>13. Accounts(p) /\ SetupsFirst(p) /\ Accounts(q) /\ SetupsFirst(q)
  BY <1>1 DEF Flowing
<1>14. Accounts(p)' /\ Accounts(q)'
  BY <1>1, <1>13 DEF Accounts
<1>15. SetupsFirst(p)'
  BY <1>1, <1>4, <1>13 DEF SetupsFirst, Blank
<1>16. SetupsFirst(q)'
  BY <1>1, <1>13 DEF SetupsFirst
<1> QED BY <1>1, <1>11, <1>12, <1>14, <1>15, <1>16 DEF Flowing

LEMMA HandOver_Flow ==
  ASSUME Inv, RatchetAssumption, Flowing, NEW p \in Devices, HandOver(p)
  PROVE  Flowing'
<1> DEFINE q == Other(p)
           n == Len(sent[p]) + 1
<1>1. /\ q \in Devices /\ q # p /\ Other(q) = p /\ (\A r \in Devices : r = p \/ r = q)
      /\ sent \in [Devices -> Seq(Message)] /\ "b" \in Devices
  BY Two DEF Inv, TypeOK, Devices
<1>2. Taken(q) \subseteq DOMAIN sent[p]
  BY <1>1 DEF Flowing, Accounts
<1>3. /\ \A r \in Devices : /\ Contexts(r)' = Contexts(r) /\ Written(r)' = Written(r)
                            /\ Underway(r)' = Underway(r) /\ Taken(r)' = Taken(r)
      /\ Outgoing(p)' = {} /\ Outgoing(q)' = Outgoing(q)
      /\ sent' = [sent EXCEPT ![p] = Append(@, proc[p].out)]
      /\ Outgoing(p) = {proc[p].out}
      /\ preKeys' = preKeys /\ served' = served /\ rejected' = rejected
  BY <1>2, HandOver_View
<1>4. (Separated \/ Joined)' /\ Side'
  BY <1>1, <1>3, NothingMoves DEF Flowing
<1>5. /\ DOMAIN sent'[p] = DOMAIN sent[p] \union {n} /\ DOMAIN sent[p] = 1 .. Len(sent[p])
      /\ n \notin DOMAIN sent[p] /\ Len(sent[p]) \in Nat
      /\ sent'[p][n] = proc[p].out /\ (\A i \in DOMAIN sent[p] : sent'[p][i] = sent[p][i])
      /\ sent'[q] = sent[q]
  <2>1. sent[p] \in Seq(Message)
    BY <1>1
  <2>2. sent'[p] = Append(sent[p], proc[p].out) /\ sent'[q] = sent[q]
    BY <1>1, <1>3
  <2> QED BY <2>1, <2>2
<1>6. \A r \in Devices : Primary(r)' = Primary(r) /\ (HasSetUp(r)' <=> HasSetUp(r))
  BY <1>3 DEF Primary, HasSetUp
<1>7. Accounts(p) /\ SetupsFirst(p) /\ Accounts(q) /\ SetupsFirst(q)
  BY <1>1 DEF Flowing
<1> HIDE DEF q, n
<1>8. Accounts(p)' /\ Accounts(q)'
  BY <1>1, <1>3, <1>5, <1>7 DEF Accounts, q
<1>9. SetupsFirst(q)'
  BY <1>1, <1>3, <1>5, <1>6, <1>7 DEF SetupsFirst
<1>10. SetupsFirst(p)'
  <2>1. ASSUME NEW i \in DOMAIN sent'[p], NEW j \in DOMAIN sent'[p], i < j, sent'[p][j].setup
        PROVE  sent'[p][i].setup
    <3>1. i \in DOMAIN sent[p]
      BY <1>5, <2>1 DEF n
    <3>2. CASE j \in DOMAIN sent[p]
      BY <1>5, <1>7, <2>1, <3>1, <3>2 DEF SetupsFirst
    <3>3. CASE j = n
      <4>1. Primary(p).a0 # None
        BY <1>3, <1>5, <1>7, <2>1, <3>3 DEF SetupsFirst
      <4>2. sent[p][i] \in Written(p)
        BY <3>1 DEF Written
      <4> QED BY <1>5, <1>7, <3>1, <4>1, <4>2 DEF SetupsFirst
    <3> QED BY <1>5, <2>1, <3>2, <3>3
  <2> QED BY <1>3, <1>6, <1>7, <2>1 DEF SetupsFirst
<1> QED BY <1>1, <1>4, <1>8, <1>9, <1>10 DEF Flowing

LEMMA Commit_Flow ==
  ASSUME Inv, RatchetAssumption, Flowing, NEW p \in Devices, Commit(p)
  PROVE  Flowing'
<1>1. /\ \A r \in Devices : /\ Contexts(r)' = Contexts(r) /\ Written(r)' = Written(r)
                            /\ Underway(r)' = Underway(r) /\ Taken(r)' = Taken(r)
                            /\ Outgoing(r)' = Outgoing(r)
      /\ sent' = sent /\ preKeys' = preKeys /\ served' = served /\ rejected' = rejected
      /\ "b" \in Devices
  BY Commit_View DEF Devices
<1>2. (Separated \/ Joined)' /\ Side'
  BY <1>1, NothingMoves DEF Flowing
<1>3. \A r \in Devices : Primary(r)' = Primary(r) /\ (HasSetUp(r)' <=> HasSetUp(r))
  BY <1>1 DEF Primary, HasSetUp
<1>4. \A r \in Devices : Accounts(r)' /\ SetupsFirst(r)'
  BY <1>1, <1>3 DEF Flowing, Accounts, SetupsFirst
<1> QED BY <1>2, <1>4 DEF Flowing

LEMMA Init_Flow ==
  ASSUME Init, RatchetAssumption
  PROVE  Flowing
<1>1. /\ "a" \in Devices /\ "b" \in Devices
      /\ \A p \in Devices : /\ convs[p] = Empty /\ preKeys[p] = 1 .. MaxPreKeys
                            /\ served[p] = 0 /\ proc[p] = Idle /\ sent[p] = <<>>
                            /\ accepted[p] = {} /\ rejected[p] = {}
      /\ \A p \in Devices : Other(p) \in Devices
  BY Two DEF Init, Devices
<1>2. \A k \in PreKeyIds : Empty[k] = NewConv
  BY DEF Empty
<1>3. 0 \in PreKeyIds /\ \A k \in 1 .. MaxPreKeys : k \in PreKeyIds
  BY DEF PreKeyIds, RatchetAssumption
<1>4. \A p \in Devices : /\ Contexts(p) = Empty /\ Primary(p) = NewConv /\ Taken(p) = {}
                         /\ Outgoing(p) = {} /\ Written(p) = {} /\ Underway(p) = {}
                         /\ ~HasSetUp(p)
  <2>1. ASSUME NEW p \in Devices
        PROVE  /\ Contexts(p) = Empty /\ Taken(p) = {} /\ Outgoing(p) = {} /\ ~HasSetUp(p)
    BY <1>1 DEF Idle, Contexts, Taken, Outgoing, HasSetUp
  <2>2. ASSUME NEW p \in Devices
        PROVE  Written(p) = {} /\ Underway(p) = {}
    BY <1>1, <2>1 DEF Written, Underway
  <2>3. \A p \in Devices : Primary(p) = NewConv
    BY <1>2, <1>3, <2>1 DEF Primary
  <2> QED BY <2>1, <2>2, <2>3
<1>5. \A p \in Devices : Accounts(p) /\ SetupsFirst(p)
  <2>1. NewConv.a0 = None
    BY DEF NewConv
  <2> QED BY <1>1, <1>4, <2>1 DEF Accounts, SetupsFirst
<1>6. Separated
  BY <1>1, <1>2, <1>3, <1>4 DEF Separated, Blank, Both, SideFresh
<1>7. Side
  BY <1>1, <1>4 DEF Side
<1> QED BY <1>5, <1>6, <1>7 DEF Flowing

-----------------------------------------------------------------------------
(* Calm states have calm predecessors.                                     *)
LEMMA CalmBefore ==
  ASSUME Inv, RatchetAssumption, [Next]_vars, Calm'
  PROVE  Calm /\ (\A p \in Devices : ~Crash(p) /\ ~ReKey(p))
<1>1. /\ crashes \in Nat /\ reKeys \in Nat /\ served \in [Devices -> PreKeyIds]
      /\ \A p \in Devices : served[p] \in Nat
  BY DEF Inv, TypeOK, PreKeyIds
<1>2. /\ crashes' = 0 /\ reKeys' = 0 /\ (~reordered' \/ ~Both')
  BY DEF Calm
<1>3. \A p \in Devices : ~Crash(p) /\ ~ReKey(p)
  BY <1>1, <1>2 DEF Crash, ReKey
<1>4. /\ crashes' = crashes /\ reKeys' = reKeys /\ (reordered => reordered')
      /\ \A p \in Devices : served[p] > 0 => served'[p] > 0
  <2>1. CASE UNCHANGED vars
    BY <2>1 DEF vars
  <2>2. ASSUME NEW p \in Devices, Setup(p)
        PROVE  /\ crashes' = crashes /\ reKeys' = reKeys /\ reordered' = reordered
               /\ \A r \in Devices : served[r] > 0 => served'[r] > 0
    BY <1>1, <2>2, Two DEF Setup
  <2>3. ASSUME NEW p \in Devices, Encrypt(p) \/ HandOver(p) \/ Commit(p)
        PROVE  /\ crashes' = crashes /\ reKeys' = reKeys /\ reordered' = reordered
               /\ served' = served
    BY <2>3 DEF Encrypt, HandOver, Commit
  <2>4. ASSUME NEW p \in Devices, NEW i, Decrypt(p, i) \/ Reject(p, i)
        PROVE  /\ crashes' = crashes /\ reKeys' = reKeys /\ (reordered => reordered')
               /\ served' = served
    BY <2>4 DEF Decrypt, Reject, Take
  <2> QED BY <1>3, <2>1, <2>2, <2>3, <2>4 DEF Next
<1>5. Both => Both'
  <2>1. Other("a") \in Devices /\ Other("b") \in Devices
    BY Two DEF Devices
  <2> QED BY <1>4, <2>1 DEF Both, HasSetUp
<1> QED BY <1>2, <1>3, <1>4, <1>5 DEF Calm

LEMMA Next_Flow ==
  ASSUME Inv, RatchetAssumption, Flow, [Next]_vars
  PROVE  Flow'
<1> SUFFICES ASSUME Calm'
             PROVE  Flowing'
  BY DEF Flow
<1>1. Flowing /\ \A p \in Devices : ~Crash(p) /\ ~ReKey(p)
  BY CalmBefore DEF Flow
<1>2. CASE UNCHANGED vars
  <2>1. /\ convs' = convs /\ preKeys' = preKeys /\ served' = served
        /\ proc' = proc /\ sent' = sent /\ accepted' = accepted /\ rejected' = rejected
    BY <1>2 DEF vars
  <2>2. \A p \in Devices : /\ Contexts(p)' = Contexts(p) /\ Written(p)' = Written(p)
                           /\ Underway(p)' = Underway(p) /\ Taken(p)' = Taken(p)
                           /\ Outgoing(p)' = Outgoing(p) /\ Primary(p)' = Primary(p)
                           /\ (HasSetUp(p)' <=> HasSetUp(p))
    BY <2>1 DEF Contexts, Written, Underway, Taken, Outgoing, Primary, HasSetUp
  <2>3. (Separated \/ Joined)' /\ Side'
    BY <1>1, <2>1, <2>2, NothingMoves DEF Flowing, Devices
  <2>4. \A p \in Devices : Accounts(p)' /\ SetupsFirst(p)'
    BY <1>1, <2>1, <2>2 DEF Flowing, Accounts, SetupsFirst
  <2> QED BY <2>3, <2>4 DEF Flowing
<1>3. ASSUME NEW p \in Devices, Encrypt(p)
      PROVE  Flowing'
  BY <1>1, <1>3, Encrypt_Rest, Encrypt_Separated, Encrypt_Joined DEF Flowing
<1>4. ASSUME NEW p \in Devices, NEW i \in 1 .. MaxSends, Decrypt(p, i)
      PROVE  Flowing'
  <2>1. \A r \in Devices : Accounts(r)' /\ SetupsFirst(r)'
    BY <1>1, <1>4, Decrypt_Rest
  <2>2. (Separated \/ Joined)' /\ Side'
    BY <1>1, <1>4, Decrypt_Lost, Decrypt_First, Decrypt_Live DEF Flowing
  <2> QED BY <2>1, <2>2 DEF Flowing
<1>5. CASE Next
  BY <1>1, <1>3, <1>4, <1>5, Setup_Flow, HandOver_Flow, Commit_Flow, Reject_Flow DEF Next
<1> QED BY <1>2, <1>5

LEMMA SpecFlow == Spec => [](Inv /\ Flow)
<1>1. Init => Flow
  BY RatchetAssumption, Init_Flow DEF Flow
<1>2. Inv /\ InRange /\ Flow /\ [Next]_vars => Flow'
  BY RatchetAssumption, Next_Flow
<1> QED BY <1>1, <1>2, SpecInv, PTL DEF Spec

(* Without deaths and re-keys no message is lost to the ratchet, for any   *)
(* numbers of pre-keys and messages: each one is decrypted, in whatever    *)
(* order it arrives when one device set up the conversation, and in the    *)
(* order they were sent when both did.                                     *)
THEOREM NoneRejected == Spec => []NothingRejected
<1>1. Inv /\ Flow => NothingRejected
  <2> SUFFICES ASSUME Inv, Flow, crashes = 0, reKeys = 0,
                      ~reordered \/ \E p \in Devices : served[p] = 0
               PROVE  \A p \in Devices : rejected[p] = {}
    BY DEF NothingRejected
  <2>1. \A p \in Devices : p = Other("a") \/ p = Other("b")
    BY Two DEF Devices
  <2>2. Calm
    BY <2>1 DEF Calm, Both, HasSetUp
  <2> QED BY <2>2 DEF Flow, Flowing, Accounts
<1> QED BY <1>1, SpecFlow, PTL

(* When every message has arrived, in order, and both devices have sent,   *)
(* they use the same context.                                              *)
THEOREM Converge == Spec => []Converged
<1>1. Inv /\ Flow => Converged
  <2> SUFFICES ASSUME Inv, Flow, crashes = 0, reKeys = 0, ~reordered,
                      \A p \in Devices : proc[p].pc = "idle" /\ Waiting(p) = {} /\ sent[p] # <<>>
               PROVE  convs["a"][0].ctx = convs["b"][0].ctx
    BY DEF Converged
  <2>1. Calm /\ "a" \in Devices /\ "b" \in Devices /\ Other("b") = "a"
    BY Two DEF Calm, Devices
  <2>2. Contexts("a") = convs["a"] /\ Contexts("b") = convs["b"] /\ Taken("b") = accepted["b"]
    BY <2>1, AtRest
  <2>3. ~Separated
    <3>1. DOMAIN sent["a"] # {}
      <4>1. sent["a"] \in Seq(Message) /\ sent["a"] # <<>>
        BY <2>1 DEF Inv, TypeOK
      <4>2. /\ Len(sent["a"]) \in Nat /\ DOMAIN sent["a"] = 1 .. Len(sent["a"])
            /\ Len(sent["a"]) >= 1
        BY <4>1
      <4>3. 1 \in 1 .. Len(sent["a"])
        BY <4>2
      <4> QED BY <4>2, <4>3
    <3>2. rejected["b"] = {} /\ Waiting("b") = {}
      BY <2>1 DEF Flow, Flowing, Accounts
    <3> QED BY <2>1, <2>2, <3>1, <3>2 DEF Separated, Waiting
  <2> QED BY <2>1, <2>2, <2>3 DEF Flow, Flowing, Joined, Link, Primary
<1> QED BY <1>1, SpecFlow, PTL
=============================================================================
