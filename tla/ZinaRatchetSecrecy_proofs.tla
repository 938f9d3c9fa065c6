--------------------- MODULE ZinaRatchetSecrecy_proofs ---------------------
(***************************************************************************)
(* Forward secrecy of the double ratchet: the key of a committed message   *)
(* is gone from every context of its receiver, for any numbers of          *)
(* pre-keys, messages, deaths and re-keys.                                 *)
(***************************************************************************)
EXTENDS ZinaRatchet_proofs

-----------------------------------------------------------------------------
(* The invariant of the receiving side.                                    *)

(* A first agreement that the device can not set up once more: its keys    *)
(* were generated, and it is not the one of a stored pre-key.              *)
Old(p, s, pk, ks) ==
  /\ \A k \in s : Known(k, ks)
  /\ \A i \in pk, a0 \in Keys : OwnKey(Other(p), a0) => s # {a0, <<p, i>>}

(* The receiving chain is the root chain or one it came from.              *)
Receives(c) ==
  c.ckr # <<>> => c.root # <<>> /\ c.ckr[1] = c.root[1] /\ Len(c.ckr) <= Len(c.root)

(* The context does not derive the key any more.                           *)
Behind(K, c) ==
  /\ K[1] = c.ckr => K[2] < c.nr
  /\ c.root # <<>> /\ K[1][1] = c.root[1] => Len(K[1]) <= Len(c.root)

(* The keys of a chain; the key of no chain is used by nobody.             *)
Derived(S) == {K \in S : K[1] # <<>>}
AllStaged(cv) == UNION {cv[k].staged : k \in PreKeyIds}
Separate(S, T) == \A K \in Derived(S) : K \notin T

(* The contexts of device p, which has consumed the keys in spent.         *)
RootsInv(p, cv, pk, ks) ==
  /\ \A k \in PreKeyIds :
       Receives(cv[k]) /\ (cv[k].root # <<>> => Old(p, cv[k].root[1], pk, ks))
  /\ \A k, l \in PreKeyIds :
       k # l /\ cv[k].root # <<>> /\ cv[l].root # <<>> => cv[k].root[1] # cv[l].root[1]

TableInv(p, cv, spent, pk, ks) ==
  /\ RootsInv(p, cv, pk, ks)
  /\ \A K \in Derived(spent \union AllStaged(cv)) :
       Old(p, K[1][1], pk, ks) /\ \A k \in PreKeyIds : Behind(K, cv[k])
  /\ \A k, l \in PreKeyIds : k # l => Separate(cv[k].staged, cv[l].staged)
  /\ Separate(spent, AllStaged(cv))

Spent(acc, st) == {st[i].key : i \in acc}

(* Device p, which receives the messages st.                               *)
PartInv(p, cv, pr, acc, st, pk, ks) ==
  /\ acc \subseteq DOMAIN st
  /\ TableInv(p, cv, Spent(acc, st), pk, ks)
  /\ pr.pc = "decrypted" =>
       /\ pr.in \in DOMAIN st
       /\ TableInv(p, pr.convs, Spent(acc \union {pr.in}, st), pk, ks)

SecrecyInv ==
  \A p \in Devices :
    PartInv(p, convs[p], proc[p], accepted[p], sent[Other(p)], preKeys[p], keys)

-----------------------------------------------------------------------------
(* First agreements.                                                       *)

LEMMA FirstOf ==
  ASSUME NEW c \in Chains, c # <<>>
  PROVE  c[1] \in SUBSET Keys
  BY ChainLen

LEMMA OldStays ==
  ASSUME NEW p \in Devices, NEW s \in SUBSET Keys, NEW pk, NEW nk, nk \subseteq pk,
         NEW ks \in [Devices -> Nat], NEW ns \in [Devices -> Nat],
         \A q \in Devices : ks[q] <= ns[q], Old(p, s, pk, ks)
  PROVE  Old(p, s, nk, ns)
  BY KnownStays DEF Old

LEMMA KeyType ==
  ASSUME NEW K \in MsgKeys
  PROVE  /\ K[1] \in Chains /\ K[2] \in Nat /\ K = <<K[1], K[2]>>
         /\ K[1] # <<>> => K[1][1] \in SUBSET Keys
  BY FirstOf DEF MsgKeys

LEMMA TableTypes ==
  ASSUME NEW cv \in Tables, NEW k \in PreKeyIds
  PROVE  /\ cv[k] \in Conv /\ cv[k].root \in Chains /\ cv[k].ckr \in Chains
         /\ cv[k].staged \in SUBSET MsgKeys /\ cv[k].nr \in Nat
         /\ cv[k].staged \subseteq AllStaged(cv)
         /\ cv[k].root # <<>> => cv[k].root[1] \in SUBSET Keys
<1>1. cv[k] \in Conv /\ cv[k].staged \subseteq AllStaged(cv)
  BY DEF Tables, AllStaged
<1>2. /\ cv[k].root \in Chains /\ cv[k].ckr \in Chains
      /\ cv[k].staged \in SUBSET MsgKeys /\ cv[k].nr \in Nat
  BY <1>1 DEF Conv
<1> QED BY <1>1, <1>2, FirstOf

LEMMA StagedType ==
  ASSUME NEW cv \in Tables
  PROVE  AllStaged(cv) \in SUBSET MsgKeys
  BY TableTypes DEF AllStaged

(* Pre-keys become fewer and keys more.                                    *)
LEMMA TableStays ==
  ASSUME NEW p \in Devices, NEW cv \in Tables, NEW spent \in SUBSET MsgKeys,
         NEW pk, NEW nk, nk \subseteq pk,
         NEW ks \in [Devices -> Nat], NEW ns \in [Devices -> Nat],
         \A q \in Devices : ks[q] <= ns[q], TableInv(p, cv, spent, pk, ks)
  PROVE  TableInv(p, cv, spent, nk, ns)
<1>1. RootsInv(p, cv, nk, ns)
  BY TableTypes, OldStays DEF TableInv, RootsInv
<1>2. ASSUME NEW K \in Derived(spent \union AllStaged(cv))
      PROVE  Old(p, K[1][1], nk, ns)
  <2>1. K \in MsgKeys /\ K[1] # <<>>
    BY StagedType DEF Derived
  <2>2. K[1][1] \in SUBSET Keys
    BY <2>1, KeyType
  <2>3. Old(p, K[1][1], pk, ks)
    BY DEF TableInv
  <2> QED BY <2>2, <2>3, OldStays
<1> QED BY <1>1, <1>2 DEF TableInv

(* One context is replaced by g, and the keys in spent by those in next.   *)
LEMMA Put ==
  ASSUME NEW p \in Devices, NEW cv \in Tables, NEW spent, NEW next, NEW pk, NEW ks,
         NEW k \in PreKeyIds, NEW g,
         TableInv(p, cv, spent, pk, ks),
         Receives(g), g.root # <<>> => Old(p, g.root[1], pk, ks),
         \A l \in PreKeyIds : l # k /\ g.root # <<>> /\ cv[l].root # <<>>
                                => g.root[1] # cv[l].root[1],
         \A K \in Derived(next \union g.staged) :
           /\ Old(p, K[1][1], pk, ks)
           /\ \A l \in PreKeyIds : l # k => Behind(K, cv[l]),
         \A K \in Derived(next \union g.staged \union AllStaged(cv)) : Behind(K, g),
         \A l \in PreKeyIds : l # k => /\ Separate(g.staged, cv[l].staged)
                                       /\ Separate(next, cv[l].staged),
         Separate(next, g.staged)
  PROVE  TableInv(p, [cv EXCEPT ![k] = g], next, pk, ks)
<1> DEFINE nv == [cv EXCEPT ![k] = g]
<1>1. /\ nv[k] = g /\ \A l \in PreKeyIds : l # k => nv[l] = cv[l]
  BY DEF Tables
<1> HIDE DEF nv
<1>2. RootsInv(p, nv, pk, ks)
  <2>1. \A l \in PreKeyIds :
          Receives(nv[l]) /\ (nv[l].root # <<>> => Old(p, nv[l].root[1], pk, ks))
    BY <1>1 DEF TableInv, RootsInv
  <2>2. ASSUME NEW l \in PreKeyIds, NEW j \in PreKeyIds, l # j,
               nv[l].root # <<>>, nv[j].root # <<>>
        PROVE  nv[l].root[1] # nv[j].root[1]
    <3>1. CASE l = k
      BY <1>1, <2>2, <3>1
    <3>2. CASE j = k
      BY <1>1, <2>2, <3>2
    <3>3. CASE l # k /\ j # k
      BY <1>1, <2>2, <3>3 DEF TableInv, RootsInv
    <3> QED BY <3>1, <3>2, <3>3
  <2> QED BY <2>1, <2>2 DEF RootsInv
<1>3. \A K \in AllStaged(nv) :
        K \in g.staged \/ \E l \in PreKeyIds : l # k /\ K \in cv[l].staged
  BY <1>1 DEF AllStaged
<1>4. \A K \in AllStaged(nv) : K \in g.staged \/ K \in AllStaged(cv)
  BY <1>3 DEF AllStaged
<1>5. ASSUME NEW K \in Derived(next \union AllStaged(nv))
      PROVE  Old(p, K[1][1], pk, ks) /\ \A l \in PreKeyIds : Behind(K, nv[l])
  <2>1. K[1] # <<>> /\ (K \in next \/ K \in g.staged \/ K \in AllStaged(cv))
    BY <1>4 DEF Derived
  <2>2. Behind(K, g)
    BY <2>1 DEF Derived
  <2>3. CASE K \in next \union g.staged
    <3>1. K \in Derived(next \union g.staged)
      BY <2>1, <2>3 DEF Derived
    <3> QED BY <1>1, <2>2, <3>1
  <2>4. CASE K \in AllStaged(cv)
    <3>1. K \in Derived(spent \union AllStaged(cv))
      BY <2>1, <2>4 DEF Derived
    <3>2. Old(p, K[1][1], pk, ks) /\ \A l \in PreKeyIds : Behind(K, cv[l])
      BY <3>1 DEF TableInv
    <3> QED BY <1>1, <2>2, <3>2
  <2> QED BY <2>1, <2>3, <2>4
<1>6. ASSUME NEW l \in PreKeyIds, NEW j \in PreKeyIds, l # j
      PROVE  Separate(nv[l].staged, nv[j].staged)
  <2>1. CASE l = k
    BY <1>1, <1>6, <2>1
  <2>2. CASE j = k
    <3>1. Separate(g.staged, cv[l].staged)
      BY <1>6, <2>2
    <3> QED BY <1>1, <1>6, <2>2, <3>1 DEF Separate, Derived
  <2>3. CASE l # k /\ j # k
    BY <1>1, <1>6, <2>3 DEF TableInv
  <2> QED BY <2>1, <2>2, <2>3
<1>7. Separate(next, AllStaged(nv))
  BY <1>3 DEF Separate
<1> QED BY <1>2, <1>5, <1>6, <1>7 DEF TableInv, nv

(* The replaced context stages no more keys.                               *)
LEMMA PutFewer ==
  ASSUME NEW p \in Devices, NEW cv \in Tables, NEW spent, NEW next, NEW pk, NEW ks,
         NEW k \in PreKeyIds, NEW g,
         TableInv(p, cv, spent, pk, ks),
         g.staged \subseteq cv[k].staged, next \subseteq spent \union (cv[k].staged \ g.staged),
         Receives(g), g.root # <<>> => Old(p, g.root[1], pk, ks),
         \A l \in PreKeyIds : l # k /\ g.root # <<>> /\ cv[l].root # <<>>
                                => g.root[1] # cv[l].root[1],
         \A K \in Derived(spent \union AllStaged(cv)) : Behind(K, g)
  PROVE  TableInv(p, [cv EXCEPT ![k] = g], next, pk, ks)
<1>1. cv[k].staged \subseteq AllStaged(cv)
  BY TableTypes
<1>2. /\ Derived(next \union g.staged) \subseteq Derived(spent \union AllStaged(cv))
      /\ Derived(next \union g.staged \union AllStaged(cv))
           \subseteq Derived(spent \union AllStaged(cv))
  BY <1>1 DEF Derived
<1>3. \A K \in Derived(next \union g.staged) :
        /\ Old(p, K[1][1], pk, ks)
        /\ \A l \in PreKeyIds : l # k => Behind(K, cv[l])
  BY <1>2 DEF TableInv
<1>4. \A K \in Derived(next \union g.staged \union AllStaged(cv)) : Behind(K, g)
  BY <1>2
<1>5. ASSUME NEW l \in PreKeyIds, l # k
      PROVE  Separate(g.staged, cv[l].staged) /\ Separate(next, cv[l].staged)
  <2>1. Separate(cv[k].staged, cv[l].staged) /\ Separate(spent, AllStaged(cv))
    BY <1>5 DEF TableInv
  <2>2. cv[l].staged \subseteq AllStaged(cv)
    BY TableTypes
  <2> QED BY <2>1, <2>2 DEF Separate, Derived
<1>6. Separate(next, g.staged)
  <2>1. Separate(spent, AllStaged(cv))
    BY DEF TableInv
  <2> QED BY <1>1, <2>1 DEF Separate, Derived
<1> QED BY <1>3, <1>4, <1>5, <1>6, Put

(* A context is set up.                                                    *)
LEMMA SetUp ==
  ASSUME NEW p \in Devices, NEW cv \in Tables, NEW spent \in SUBSET MsgKeys,
         NEW pk, NEW nk, nk \subseteq pk,
         NEW ks \in [Devices -> Nat], NEW ns \in [Devices -> Nat],
         \A q \in Devices : ks[q] <= ns[q], TableInv(p, cv, spent, pk, ks),
         NEW k \in PreKeyIds, NEW g, NEW s \in SUBSET Keys,
         ~Old(p, s, pk, ks), Old(p, s, nk, ns),
         g.root = <<s>>, g.ckr = <<>> \/ g.ckr = <<s>>, g.staged = cv[k].staged
  PROVE  TableInv(p, [cv EXCEPT ![k] = g], spent, nk, ns)
<1>1. TableInv(p, cv, spent, nk, ns)
  BY TableStays
<1>2. /\ \A K \in Derived(spent \union AllStaged(cv)) : K[1][1] # s
      /\ \A l \in PreKeyIds : cv[l].root # <<>> => cv[l].root[1] # s
  <2>1. \A K \in Derived(spent \union AllStaged(cv)) : K[1][1] # s
    BY DEF TableInv
  <2>2. \A l \in PreKeyIds : cv[l].root # <<>> => cv[l].root[1] # s
    BY DEF TableInv, RootsInv
  <2> QED BY <2>1, <2>2
<1>3. <<s>>[1] = s /\ Len(<<s>>) = 1 /\ <<s>> # <<>>
  BY OneLong
<1>4. Receives(g) /\ g.root[1] = s
  <2>1. g.root[1] = s /\ Len(g.root) = 1 /\ g.root # <<>>
    BY <1>3
  <2>2. g.ckr # <<>> => g.ckr[1] = s /\ Len(g.ckr) = 1
    BY <1>3
  <2>3. g.ckr # <<>> => g.root # <<>> /\ g.ckr[1] = g.root[1]
    BY <2>1, <2>2
  <2>4. g.ckr # <<>> => Len(g.ckr) <= Len(g.root)
    <3> DEFINE i == Len(g.ckr)
               j == Len(g.root)
    <3>1. j = 1 /\ (g.ckr # <<>> => i = 1)
      BY <2>1, <2>2
    <3> HIDE DEF i, j
    <3>2. g.ckr # <<>> => i <= j
      BY <3>1
    <3> QED BY <3>2 DEF i, j
  <2> QED BY <2>1, <2>3, <2>4 DEF Receives
<1>5. \A K \in Derived(spent \union AllStaged(cv)) : Behind(K, g)
  <2> SUFFICES ASSUME NEW K \in Derived(spent \union AllStaged(cv))
               PROVE  Behind(K, g)
    OBVIOUS
  <2>1. K[1][1] # s /\ K[1] # <<>>
    BY <1>2 DEF Derived
  <2>2. K[1] # g.ckr
    BY <1>3, <2>1
  <2> QED BY <1>4, <2>1, <2>2 DEF Behind
<1> QED BY <1>1, <1>2, <1>4, <1>5, PutFewer

(* A context is reset.                                                     *)
LEMMA Forget ==
  ASSUME NEW p \in Devices, NEW cv \in Tables, NEW spent, NEW pk, NEW ks,
         TableInv(p, cv, spent, pk, ks), NEW k \in PreKeyIds, NEW g,
         g.root = <<>>, g.ckr = <<>>, g.staged = cv[k].staged
  PROVE  TableInv(p, [cv EXCEPT ![k] = g], spent, pk, ks)
<1>1. Receives(g)
  BY DEF Receives
<1>2. \A K \in Derived(spent \union AllStaged(cv)) : Behind(K, g)
  BY DEF Behind, Derived
<1> QED BY <1>1, <1>2, PutFewer

(* The root of a context gets longer, or stays; staged keys may go.        *)
LEMMA Lengthen ==
  ASSUME NEW p \in Devices, NEW cv \in Tables, NEW spent \in SUBSET MsgKeys, NEW next,
         NEW pk, NEW ks, TableInv(p, cv, spent, pk, ks), NEW k \in PreKeyIds, NEW g,
         g.root \in Chains, g.root = <<>> <=> cv[k].root = <<>>,
         g.root # <<>> => g.root[1] = cv[k].root[1], Len(g.root) >= Len(cv[k].root),
         g.ckr = cv[k].ckr, g.nr = cv[k].nr,
         g.staged \subseteq cv[k].staged, next \subseteq spent \union (cv[k].staged \ g.staged)
  PROVE  TableInv(p, [cv EXCEPT ![k] = g], next, pk, ks)
<1> DEFINE c == cv[k]
<1>1. /\ c.root \in Chains /\ c.ckr \in Chains
      /\ Len(c.root) \in Nat /\ Len(g.root) \in Nat /\ Len(c.ckr) \in Nat
  BY TableTypes, ChainLen
<1>2. Receives(c) /\ (c.root # <<>> => Old(p, c.root[1], pk, ks))
  BY DEF TableInv, RootsInv
<1>3. Receives(g)
  <2> SUFFICES ASSUME g.ckr # <<>>
               PROVE  g.root # <<>> /\ g.ckr[1] = g.root[1] /\ Len(g.ckr) <= Len(g.root)
    BY DEF Receives
  <2>1. c.root # <<>> /\ c.ckr[1] = c.root[1] /\ Len(c.ckr) <= Len(c.root)
    BY <1>2 DEF Receives
  <2> QED BY <1>1, <2>1
<1>4. g.root # <<>> => Old(p, g.root[1], pk, ks)
  BY <1>2
<1>5. \A l \in PreKeyIds : l # k /\ g.root # <<>> /\ cv[l].root # <<>>
                             => g.root[1] # cv[l].root[1]
  BY DEF TableInv, RootsInv
<1>6. \A K \in Derived(spent \union AllStaged(cv)) : Behind(K, g)
  <2> SUFFICES ASSUME NEW K \in Derived(spent \union AllStaged(cv))
               PROVE  Behind(K, g)
    OBVIOUS
  <2>1. Behind(K, c)
    BY DEF TableInv
  <2>2. K \in MsgKeys
    BY StagedType DEF Derived
  <2>3. Len(K[1]) \in Nat
    BY <2>2, KeyType, ChainLen
  <2>4. K[1] = g.ckr => K[2] < g.nr
    BY <2>1 DEF Behind
  <2>5. ASSUME g.root # <<>>, K[1][1] = g.root[1]
        PROVE  Len(K[1]) <= Len(g.root)
    <3>1. Len(K[1]) <= Len(c.root)
      BY <2>1, <2>5 DEF Behind
    <3> QED BY <1>1, <2>3, <3>1
  <2> QED BY <2>4, <2>5 DEF Behind
<1> QED BY <1>3, <1>4, <1>5, <1>6, PutFewer

-----------------------------------------------------------------------------
(* A message is decrypted by the receiving chain.                          *)

LEMMA ChainKeyOf ==
  ASSUME NEW chain, NEW from, NEW to, NEW J \in ChainKeys(chain, from, to),
         from \in Nat, to \in Nat
  PROVE  J[1] = chain /\ J[2] \in Nat /\ J[2] >= from /\ J[2] < to
<1>1. PICK i \in from .. (to - 1) : J = <<chain, i>>
  BY DEF ChainKeys
<1>2. i \in Nat /\ i >= from /\ i < to
  OBVIOUS
<1> QED BY <1>1, <1>2

LEMMA SkippedKeys ==
  ASSUME NEW c \in Conv, NEW m \in Message, NEW J \in Skipped(c, m)
  PROVE  /\ J[2] \in Nat
         /\ \/ J[1] = c.ckr /\ J[2] >= c.nr /\ (NewRatchet(c, m) \/ J[2] < m.np)
            \/ NewRatchet(c, m) /\ J[1] = ChainOf(c, m) /\ J[2] < m.np
<1>1. c.nr \in Nat /\ m.pn \in Nat /\ m.np \in Nat /\ 0 \in Nat
  BY DEF Conv, Message
<1>2. CASE ~NewRatchet(c, m)
  <2>1. J \in ChainKeys(c.ckr, c.nr, m.np)
    BY <1>2 DEF Skipped
  <2> QED BY <1>1, <2>1, ChainKeyOf
<1>3. CASE NewRatchet(c, m) /\ J \in ChainKeys(c.ckr, c.nr, m.pn)
  BY <1>1, <1>3, ChainKeyOf
<1>4. CASE NewRatchet(c, m) /\ J \in ChainKeys(ChainOf(c, m), 0, m.np)
  BY <1>1, <1>4, ChainKeyOf
<1> QED BY <1>2, <1>3, <1>4 DEF Skipped

(* Where the chain of the message stands to the context.                   *)
LEMMA ChainPlace ==
  ASSUME NEW c \in Conv, NEW m \in Message, Receives(c), OpensWithChain(c, m),
         m.key[1] # <<>>, ChainOf(c, m) \in Chains
  PROVE  LET C == ChainOf(c, m)
         IN /\ m.key = <<C, m.np>> /\ m.key[1] = C /\ m.key[2] = m.np /\ C # <<>>
            /\ c.root # <<>> /\ C[1] = c.root[1]
            /\ NewRatchet(c, m) => Len(C) = Len(c.root) + 1 /\ C # c.ckr
            /\ ~NewRatchet(c, m) => C = c.ckr /\ m.np >= c.nr /\ Len(C) <= Len(c.root)
<1> DEFINE C == ChainOf(c, m)
<1>1. m.key = <<C, m.np>> /\ m.key[1] = C /\ m.key[2] = m.np /\ C # <<>>
  BY DEF OpensWithChain
<1>2. c.root \in Chains /\ Len(c.root) \in Nat /\ (c.root # <<>> => Len(c.root) >= 1)
      /\ Len(C) \in Nat
  BY ChainLen DEF Conv
<1>3. CASE NewRatchet(c, m)
  <2>1. c.root # <<>> /\ c.dhs \in Keys /\ m.dh \in Keys
    BY <1>3 DEF OpensWithChain, Conv, Message
  <2>2. C = Append(c.root, {m.dh, c.dhs})
    BY <1>3 DEF ChainOf
  <2> DEFINE s == {m.dh, c.dhs}
  <2>3. s \in SUBSET Keys
    BY <2>1
  <2> HIDE DEF s
  <2>4. /\ Len(Append(c.root, s)) = Len(c.root) + 1
        /\ \A i \in 1 .. Len(c.root) : Append(c.root, s)[i] = c.root[i]
    BY <1>2, <2>3, Longer
  <2>5. Len(C) = Len(c.root) + 1 /\ C[1] = c.root[1]
    BY <1>2, <2>1, <2>2, <2>4 DEF s
  <2> HIDE DEF C
  <2>6. C # c.ckr
    BY <1>1, <1>2, <2>5 DEF Receives
  <2> QED BY <1>1, <1>3, <2>1, <2>5, <2>6 DEF C
<1>4. CASE ~NewRatchet(c, m)
  <2>1. C = c.ckr /\ m.np >= c.nr
    BY <1>4 DEF ChainOf, OpensWithChain
  <2>2. c.root # <<>> /\ C[1] = c.root[1] /\ Len(C) <= Len(c.root)
    BY <1>1, <2>1 DEF Receives
  <2> QED BY <1>1, <1>4, <2>1, <2>2
<1> QED BY <1>3, <1>4

LEMMA ChainStep ==
  ASSUME NEW p \in Devices, NEW cv \in Tables, NEW spent \in SUBSET MsgKeys,
         NEW pk, NEW ks, TableInv(p, cv, spent, pk, ks), NEW k \in PreKeyIds,
         NEW m \in Message, OpensWithChain(cv[k], m), ChainOf(cv[k], m) \in Chains,
         m.key \notin cv[k].staged, m.key[1] # <<>>, RatchetAssumption
  PROVE  TableInv(p, [cv EXCEPT ![k] = WithChain(cv[k], m)], spent \union {m.key}, pk, ks)
<1> DEFINE c == cv[k]
           C == ChainOf(c, m)
           K == m.key
           new == NewRatchet(c, m)
           S == Skipped(c, m)
           g == WithChain(c, m)
<1>1. /\ c \in Conv /\ c.root \in Chains /\ c.ckr \in Chains /\ c.nr \in Nat
      /\ m.np \in Nat /\ C \in Chains /\ S \in SUBSET MsgKeys /\ K \in MsgKeys
      /\ Len(C) \in Nat /\ Len(c.root) \in Nat
  BY TableTypes, ChainLen, SkippedType DEF Message
<1>2. Receives(c) /\ (c.root # <<>> => Old(p, c.root[1], pk, ks))
  BY DEF TableInv, RootsInv
<1>3. /\ K = <<C, m.np>> /\ K[1] = C /\ K[2] = m.np /\ C # <<>>
      /\ c.root # <<>> /\ C[1] = c.root[1]
      /\ new => Len(C) = Len(c.root) + 1 /\ C # c.ckr
      /\ ~new => C = c.ckr /\ m.np >= c.nr /\ Len(C) <= Len(c.root)
  BY <1>1, <1>2, ChainPlace
<1>4. /\ g.root = (IF new THEN C ELSE c.root) /\ g.ckr = C /\ g.nr = m.np + 1
      /\ g.staged = c.staged \union S
  BY <1>1 DEF WithChain, Conv
<1>5. \A J \in S : /\ J[2] \in Nat
                   /\ \/ J[1] = c.ckr /\ J[2] >= c.nr /\ (new \/ J[2] < m.np)
                      \/ new /\ J[1] = C /\ J[2] < m.np
  BY <1>1, SkippedKeys
<1> HIDE DEF c, C, K, new, S, g
<1>6. /\ g.root # <<>> /\ g.root[1] = c.root[1] /\ Len(g.root) \in Nat
      /\ Len(g.root) >= Len(c.root) /\ Len(C) <= Len(g.root)
  BY <1>1, <1>3, <1>4
<1>7. Receives(g)
  BY <1>3, <1>4, <1>6 DEF Receives
<1>8. ASSUME NEW J \in Derived(S \union {K})
      PROVE  /\ J \in MsgKeys /\ J[1] # <<>> /\ J[1][1] = c.root[1]
             /\ Len(J[1]) <= Len(g.root) /\ (J[1] = C => J[2] < m.np + 1)
             /\ ~Behind(J, c)
  <2>1. J \in MsgKeys /\ J[1] # <<>> /\ J[2] \in Nat
    BY <1>1, KeyType DEF Derived
  <2>2. CASE J[1] = c.ckr /\ J[2] >= c.nr
    <3>1. J[1][1] = c.root[1] /\ Len(J[1]) <= Len(c.root) /\ Len(J[1]) \in Nat
      BY <1>1, <1>2, <2>1, <2>2, ChainLen DEF Receives
    <3>2. Len(J[1]) <= Len(g.root)
      BY <1>1, <1>6, <3>1
    <3>3. ~Behind(J, c)
      BY <1>1, <2>1, <2>2 DEF Behind
    <3>4. J[1] = C => J[2] < m.np + 1
      <4> SUFFICES ASSUME J[1] = C PROVE J[2] < m.np + 1
        OBVIOUS
      <4>1. ~new
        BY <1>3, <2>2
      <4>2. J = K \/ J[2] < m.np
        BY <1>5, <4>1 DEF Derived
      <4> QED BY <1>1, <1>3, <2>1, <4>2
    <3> QED BY <2>1, <3>1, <3>2, <3>3, <3>4
  <2>3. CASE new /\ J[1] = C
    <3>1. J[2] < m.np \/ J = K
      BY <1>3, <1>5, <2>3 DEF Derived
    <3>2. J[2] < m.np + 1
      BY <1>1, <1>3, <2>1, <3>1
    <3>3. ~Behind(J, c)
      BY <1>1, <1>3, <2>3 DEF Behind
    <3> QED BY <1>3, <1>6, <2>1, <2>3, <3>2, <3>3
  <2>4. (J[1] = c.ckr /\ J[2] >= c.nr) \/ (new /\ J[1] = C)
    BY <1>3, <1>5 DEF Derived
  <2> QED BY <2>2, <2>3, <2>4
<1>9. \A J \in Derived(S \union {K}) : J \notin spent /\ J \notin AllStaged(cv)
  BY <1>8 DEF TableInv, Derived, c
<1>10. \A J \in Derived(spent \union AllStaged(cv)) :
         Old(p, J[1][1], pk, ks) /\ \A l \in PreKeyIds : Behind(J, cv[l])
  BY DEF TableInv
<1>11. ASSUME NEW J \in Derived(S \union {K}), NEW l \in PreKeyIds, l # k
       PROVE  Behind(J, cv[l])
  <2>1. J[1] # <<>> /\ J[1][1] = c.root[1]
    BY <1>8
  <2>2. cv[l].root # <<>> => cv[l].root[1] # c.root[1]
    BY <1>3, <1>11 DEF TableInv, RootsInv, c
  <2>3. Receives(cv[l])
    BY DEF TableInv, RootsInv
  <2>4. J[1] # cv[l].ckr
    BY <2>1, <2>2, <2>3 DEF Receives
  <2> QED BY <2>1, <2>2, <2>4 DEF Behind
<1>12. ASSUME NEW J \in Derived(spent \union AllStaged(cv))
       PROVE  Behind(J, g)
  <2>1. Behind(J, c)
    BY <1>10 DEF c
  <2>2. J \in MsgKeys
    BY StagedType DEF Derived
  <2>3. J[1] \in Chains /\ Len(J[1]) \in Nat /\ J[2] \in Nat
    BY <2>2, KeyType, ChainLen
  <2>4. ASSUME J[1] = C
        PROVE  J[2] < g.nr
    <3>1. ~new
      BY <1>1, <1>3, <2>1, <2>4 DEF Behind
    <3>2. J[2] < c.nr
      BY <1>3, <2>1, <2>4, <3>1 DEF Behind
    <3>3. m.np >= c.nr
      BY <1>3, <3>1
    <3>4. g.nr = m.np + 1 /\ m.np \in Nat /\ c.nr \in Nat
      BY <1>1, <1>4
    <3> QED BY <2>3, <3>2, <3>3, <3>4
  <2>5. ASSUME J[1][1] = g.root[1]
        PROVE  Len(J[1]) <= Len(g.root)
    <3>1. Len(J[1]) <= Len(c.root)
      BY <1>3, <1>6, <2>1, <2>5 DEF Behind
    <3> QED BY <1>1, <1>6, <2>3, <3>1
  <2> QED BY <1>4, <2>4, <2>5 DEF Behind
<1>13. \A J \in Derived(S \union {K}) : Behind(J, g)
  BY <1>4, <1>8 DEF Behind
<1> DEFINE next == spent \union {K}
<1>14. \A J \in Derived(next \union g.staged) :
         J \in Derived(S \union {K}) \/ J \in Derived(spent \union AllStaged(cv))
  BY <1>4, TableTypes DEF Derived, c
<1>15. \A J \in Derived(next \union g.staged) :
         /\ Old(p, J[1][1], pk, ks)
         /\ \A l \in PreKeyIds : l # k => Behind(J, cv[l])
  BY <1>2, <1>3, <1>8, <1>10, <1>11, <1>14
<1>16. \A J \in Derived(next \union g.staged \union AllStaged(cv)) : Behind(J, g)
  <2>1. \A J \in Derived(next \union g.staged \union AllStaged(cv)) :
          J \in Derived(S \union {K}) \/ J \in Derived(spent \union AllStaged(cv))
    BY <1>14 DEF Derived
  <2> QED BY <1>12, <1>13, <2>1
<1>17. ASSUME NEW l \in PreKeyIds, l # k
       PROVE  Separate(g.staged, cv[l].staged) /\ Separate(next, cv[l].staged)
  <2>1. Separate(c.staged, cv[l].staged) /\ Separate(spent, AllStaged(cv))
    BY <1>17 DEF TableInv, c
  <2>2. cv[l].staged \subseteq AllStaged(cv)
    BY TableTypes
  <2> QED BY <1>4, <1>9, <2>1, <2>2 DEF Separate, Derived
<1>18. Separate(next, g.staged)
  <2>1. Separate(spent, AllStaged(cv)) /\ c.staged \subseteq AllStaged(cv)
    BY TableTypes DEF TableInv, c
  <2>2. K \notin c.staged
    BY DEF c, K
  <2>3. K \notin S
    <3> SUFFICES ASSUME K \in S PROVE FALSE
      OBVIOUS
    <3>1. (new /\ m.np < m.np) \/ (K[1] = c.ckr /\ (new \/ m.np < m.np))
      BY <1>3, <1>5
    <3> QED BY <1>1, <1>3, <3>1
  <2> QED BY <1>4, <1>9, <2>1, <2>2, <2>3 DEF Separate, Derived
<1>19. g.root # <<>> => Old(p, g.root[1], pk, ks)
  BY <1>2, <1>3, <1>6
<1>20. \A l \in PreKeyIds : l # k /\ g.root # <<>> /\ cv[l].root # <<>>
                              => g.root[1] # cv[l].root[1]
  BY <1>3, <1>6 DEF TableInv, RootsInv, c
<1> HIDE DEF next
<1>21. TableInv(p, [cv EXCEPT ![k] = g], next, pk, ks)
  BY <1>7, <1>15, <1>16, <1>17, <1>18, <1>19, <1>20, Put
<1> QED BY <1>21 DEF g, next, c, K

-----------------------------------------------------------------------------
(* The steps.                                                              *)

LEMMA SpentType ==
  ASSUME NEW st \in Seq(Message), NEW acc, acc \subseteq DOMAIN st
  PROVE  Spent(acc, st) \in SUBSET MsgKeys
<1>1. \A i \in DOMAIN st : st[i] \in Message
  OBVIOUS
<1>2. \A i \in DOMAIN st : st[i].key \in MsgKeys
  BY <1>1 DEF Message
<1> QED BY <1>2 DEF Spent

LEMMA SameSpent ==
  ASSUME NEW st, NEW nt, \A i \in DOMAIN st : nt[i] = st[i], NEW acc, acc \subseteq DOMAIN st
  PROVE  Spent(acc, nt) = Spent(acc, st)
  BY DEF Spent

(* Pre-keys become fewer, keys and messages more; a command ends.          *)
LEMMA PartStays ==
  ASSUME NEW p \in Devices, NEW cv \in Tables, NEW pr \in Command, NEW nr, NEW acc,
         NEW st \in Seq(Message), NEW nt, DOMAIN st \subseteq DOMAIN nt,
         \A i \in DOMAIN st : nt[i] = st[i],
         NEW pk, NEW nk, nk \subseteq pk,
         NEW ks \in [Devices -> Nat], NEW ns \in [Devices -> Nat],
         \A q \in Devices : ks[q] <= ns[q], PartInv(p, cv, pr, acc, st, pk, ks),
         nr = pr \/ nr.pc # "decrypted"
  PROVE  PartInv(p, cv, nr, acc, nt, nk, ns)
<1>1. acc \subseteq DOMAIN nt
  BY DEF PartInv
<1>2. TableInv(p, cv, Spent(acc, nt), nk, ns)
  <2>1. acc \subseteq DOMAIN st /\ TableInv(p, cv, Spent(acc, st), pk, ks)
    BY DEF PartInv
  <2>2. Spent(acc, nt) = Spent(acc, st) /\ Spent(acc, st) \in SUBSET MsgKeys
    BY <2>1, SameSpent, SpentType
  <2> QED BY <2>1, <2>2, TableStays
<1>3. ASSUME nr.pc = "decrypted"
      PROVE  nr.in \in DOMAIN nt /\ TableInv(p, nr.convs, Spent(acc \union {nr.in}, nt), nk, ns)
  <2> DEFINE more == acc \union {pr.in}
  <2>1. nr = pr
    BY <1>3
  <2>2. /\ pr.in \in DOMAIN st /\ TableInv(p, pr.convs, Spent(more, st), pk, ks)
        /\ more \subseteq DOMAIN st
    BY <1>3, <2>1 DEF PartInv
  <2> HIDE DEF more
  <2>3. Spent(more, nt) = Spent(more, st) /\ Spent(more, st) \in SUBSET MsgKeys
    BY <2>2, SameSpent, SpentType
  <2>4. pr.convs \in Tables
    BY DEF Command
  <2>5. TableInv(p, pr.convs, Spent(more, nt), nk, ns)
    BY <2>2, <2>3, <2>4, TableStays
  <2> QED BY <2>1, <2>2, <2>5 DEF more
<1> QED BY <1>1, <1>2, <1>3 DEF PartInv

LEMMA PeerStays ==
  ASSUME NEW p \in Devices, NEW cv \in Tables, NEW pr \in Command, NEW acc,
         NEW st \in Seq(Message), NEW nt, DOMAIN st \subseteq DOMAIN nt,
         \A i \in DOMAIN st : nt[i] = st[i], NEW pk,
         NEW ks \in [Devices -> Nat], NEW ns \in [Devices -> Nat],
         \A q \in Devices : ks[q] <= ns[q], PartInv(p, cv, pr, acc, st, pk, ks)
  PROVE  PartInv(p, cv, pr, acc, nt, pk, ns)
<1>1. pk \subseteq pk /\ (pr = pr \/ pr.pc # "decrypted")
  OBVIOUS
<1> QED BY <1>1, PartStays

LEMMA Parts ==
  ASSUME Inv, SecrecyInv, NEW p \in Devices
  PROVE  /\ Other(p) \in Devices /\ Other(p) # p /\ Other(Other(p)) = p
         /\ convs[p] \in Tables /\ proc[p] \in Command /\ proc[p].convs \in Tables
         /\ sent[Other(p)] \in Seq(Message) /\ sent[p] \in Seq(Message)
         /\ keys \in [Devices -> Nat] /\ \A q \in Devices : keys[q] <= keys[q]
         /\ PartInv(p, convs[p], proc[p], accepted[p], sent[Other(p)], preKeys[p], keys)
<1>1. Other(p) \in Devices /\ Other(p) # p /\ Other(Other(p)) = p
  BY Two
<1>2. sent[Other(p)] \in Seq(Message) /\ sent[p] \in Seq(Message)
  BY <1>1 DEF Inv, TypeOK
<1> QED BY <1>1, <1>2, Same DEF SecrecyInv

LEMMA StepSecret ==
  ASSUME Inv, Inv', SecrecyInv, NEW p \in Devices,
         convs'[Other(p)] = convs[Other(p)], proc'[Other(p)] = proc[Other(p)],
         preKeys'[Other(p)] = preKeys[Other(p)], accepted'[Other(p)] = accepted[Other(p)],
         DOMAIN sent[p] \subseteq DOMAIN sent'[p],
         \A i \in DOMAIN sent[p] : sent'[p][i] = sent[p][i],
         \A q \in Devices : keys[q] <= keys'[q],
         PartInv(p, convs'[p], proc'[p], accepted'[p], sent'[Other(p)], preKeys'[p], keys')
  PROVE  SecrecyInv'
<1> DEFINE q == Other(p)
<1>1. /\ q \in Devices /\ q # p /\ Other(q) = p /\ \A r \in Devices : r = p \/ r = q
      /\ keys' \in [Devices -> Nat]
  BY Two DEF Inv, TypeOK
<1>2. /\ convs[q] \in Tables /\ proc[q] \in Command /\ sent[p] \in Seq(Message)
      /\ keys \in [Devices -> Nat]
      /\ PartInv(q, convs[q], proc[q], accepted[q], sent[p], preKeys[q], keys)
  BY <1>1, Parts
<1> HIDE DEF q
<1>3. PartInv(q, convs[q], proc[q], accepted[q], sent'[p], preKeys[q], keys')
  <2> DEFINE nt == sent'[p]
             st == sent[p]
             pk == preKeys[q]
             ns == keys'
  <2>1. /\ DOMAIN st \subseteq DOMAIN nt /\ \A i \in DOMAIN st : nt[i] = st[i]
        /\ \A r \in Devices : keys[r] <= ns[r]
        /\ ns \in [Devices -> Nat] /\ st \in Seq(Message)
        /\ PartInv(q, convs[q], proc[q], accepted[q], st, pk, keys)
    BY <1>1, <1>2
  <2> HIDE DEF nt, st, pk, ns
  <2>2. PartInv(q, convs[q], proc[q], accepted[q], nt, pk, ns)
    BY <1>1, <1>2, <2>1, PeerStays
  <2> QED BY <2>2 DEF nt, pk, ns
<1>4. PartInv(q, convs'[q], proc'[q], accepted'[q], sent'[p], preKeys'[q], keys')
  BY <1>3 DEF q
<1> QED BY <1>1, <1>4 DEF SecrecyInv, q

(* Steps that store no context and commit nothing.                         *)
LEMMA Idle_Secret ==
  ASSUME Inv, Inv', SecrecyInv, NEW p \in Devices,
         convs' = convs, accepted' = accepted, keys' = keys,
         preKeys'[Other(p)] = preKeys[Other(p)], preKeys'[p] \subseteq preKeys[p],
         proc'[Other(p)] = proc[Other(p)], proc'[p].pc # "decrypted",
         sent'[Other(p)] = sent[Other(p)],
         DOMAIN sent[p] \subseteq DOMAIN sent'[p],
         \A i \in DOMAIN sent[p] : sent'[p][i] = sent[p][i]
  PROVE  SecrecyInv'
<1> DEFINE q == Other(p)
           pr == proc'[p]
           nk == preKeys'[p]
<1>1. /\ q \in Devices /\ convs[p] \in Tables /\ proc[p] \in Command
      /\ sent[q] \in Seq(Message) /\ keys \in [Devices -> Nat]
      /\ \A r \in Devices : keys[r] <= keys[r]
      /\ PartInv(p, convs[p], proc[p], accepted[p], sent[q], preKeys[p], keys)
  BY Parts
<1>2. nk \subseteq preKeys[p] /\ pr.pc # "decrypted"
  OBVIOUS
<1> HIDE DEF q, pr, nk
<1>3. PartInv(p, convs[p], pr, accepted[p], sent[q], nk, keys)
  BY <1>1, <1>2, PartStays
<1>4. PartInv(p, convs'[p], proc'[p], accepted'[p], sent'[Other(p)], preKeys'[p], keys')
  BY <1>3 DEF q, pr, nk
<1>5. \A r \in Devices : keys[r] <= keys'[r]
  BY <1>1
<1> QED BY <1>4, <1>5, StepSecret

LEMMA Nothing_Secret ==
  ASSUME Inv, Inv', SecrecyInv, UNCHANGED vars
  PROVE  SecrecyInv'
<1>1. /\ convs' = convs /\ preKeys' = preKeys /\ keys' = keys /\ proc' = proc
      /\ sent' = sent /\ accepted' = accepted
  BY DEF vars
<1> QED BY <1>1 DEF SecrecyInv

LEMMA HandOver_Secret ==
  ASSUME Inv, Inv', SecrecyInv, NEW p \in Devices, HandOver(p)
  PROVE  SecrecyInv'
<1>1. /\ convs' = convs /\ accepted' = accepted /\ keys' = keys /\ preKeys' = preKeys
      /\ proc' = [proc EXCEPT ![p] = Idle]
      /\ sent' = [sent EXCEPT ![p] = Append(sent[p], proc[p].out)]
  BY DEF HandOver
<1>2. /\ Other(p) \in Devices /\ Other(p) # p /\ sent[p] \in Seq(Message)
      /\ proc[p].out \in Message
      /\ proc \in [Devices -> Command] /\ sent \in [Devices -> Seq(Message)]
  BY Parts, Same DEF Inv, TypeOK
<1>3. proc'[Other(p)] = proc[Other(p)] /\ proc'[p].pc # "decrypted"
  BY <1>1, <1>2 DEF Idle
<1>4. sent'[Other(p)] = sent[Other(p)] /\ sent'[p] = Append(sent[p], proc[p].out)
  BY <1>1, <1>2
<1>5. DOMAIN sent[p] \subseteq DOMAIN sent'[p] /\ \A i \in DOMAIN sent[p] : sent'[p][i] = sent[p][i]
  BY <1>2, <1>4
<1> QED BY <1>1, <1>3, <1>4, <1>5, Idle_Secret

LEMMA Crash_Secret ==
  ASSUME Inv, Inv', SecrecyInv, NEW p \in Devices, Crash(p)
  PROVE  SecrecyInv'
<1>1. /\ convs' = convs /\ accepted' = accepted /\ keys' = keys /\ preKeys' = preKeys
      /\ proc' = [proc EXCEPT ![p] = Idle] /\ sent' = sent
  BY DEF Crash
<1>2. Other(p) \in Devices /\ Other(p) # p /\ proc \in [Devices -> Command]
  BY Parts DEF Inv, TypeOK
<1>3. proc'[Other(p)] = proc[Other(p)] /\ proc'[p].pc # "decrypted"
  BY <1>1, <1>2 DEF Idle
<1> QED BY <1>1, <1>3, Idle_Secret

LEMMA Reject_Secret ==
  ASSUME Inv, Inv', SecrecyInv, NEW p \in Devices, NEW i \in 1 .. MaxSends, Reject(p, i)
  PROVE  SecrecyInv'
<1>1. /\ convs' = convs /\ accepted' = accepted /\ keys' = keys /\ proc' = proc
      /\ sent' = sent /\ proc[p].pc = "idle"
      /\ preKeys' \in {preKeys, [preKeys EXCEPT ![p] = @ \ {sent[Other(p)][i].preKey}]}
  BY DEF Reject, Take, TakePreKey
<1>2. /\ Other(p) \in Devices /\ Other(p) # p
      /\ preKeys \in [Devices -> SUBSET (1 .. MaxPreKeys)]
  BY Parts DEF Inv, TypeOK
<1>3. preKeys'[Other(p)] = preKeys[Other(p)] /\ preKeys'[p] \subseteq preKeys[p]
  BY <1>1, <1>2
<1> QED BY <1>1, <1>3, Idle_Secret

LEMMA Commit_Secret ==
  ASSUME Inv, Inv', SecrecyInv, NEW p \in Devices, Commit(p)
  PROVE  SecrecyInv'
<1>1. /\ keys' = keys /\ sent' = sent /\ preKeys' = preKeys /\ proc[p].pc = "decrypted"
      /\ convs' = [convs EXCEPT ![p] = proc[p].convs]
      /\ accepted' = [accepted EXCEPT ![p] = @ \union {proc[p].in}]
      /\ proc' = [proc EXCEPT ![p] = Idle]
  BY DEF Commit
<1>2. /\ Other(p) \in Devices /\ Other(p) # p /\ TypeOK
      /\ PartInv(p, convs[p], proc[p], accepted[p], sent[Other(p)], preKeys[p], keys)
      /\ \A q \in Devices : keys[q] <= keys[q]
  BY Parts DEF Inv
<1>3. /\ convs'[Other(p)] = convs[Other(p)] /\ proc'[Other(p)] = proc[Other(p)]
      /\ accepted'[Other(p)] = accepted[Other(p)]
      /\ convs'[p] = proc[p].convs /\ proc'[p] = Idle
      /\ accepted'[p] = accepted[p] \union {proc[p].in}
  BY <1>1, <1>2 DEF TypeOK
<1>4. Idle.pc # "decrypted"
  BY DEF Idle
<1>5. PartInv(p, convs'[p], proc'[p], accepted'[p], sent'[Other(p)], preKeys'[p], keys')
  BY <1>1, <1>2, <1>3, <1>4 DEF PartInv
<1> QED BY <1>1, <1>2, <1>3, <1>5, StepSecret

(* Steps that store a context when no message is decrypted.                *)
LEMMA Store_Secret ==
  ASSUME Inv, Inv', SecrecyInv, NEW p \in Devices, accepted' = accepted, preKeys' = preKeys,
         sent' = sent, convs'[Other(p)] = convs[Other(p)], proc'[Other(p)] = proc[Other(p)],
         proc'[p].pc # "decrypted", \A q \in Devices : keys[q] <= keys'[q],
         TableInv(p, convs'[p], Spent(accepted[p], sent[Other(p)]), preKeys[p], keys')
  PROVE  SecrecyInv'
<1>1. accepted[p] \subseteq DOMAIN sent[Other(p)]
  BY Parts DEF PartInv
<1>2. PartInv(p, convs'[p], proc'[p], accepted'[p], sent'[Other(p)], preKeys'[p], keys')
  BY <1>1 DEF PartInv
<1> QED BY <1>2, StepSecret

LEMMA ReKey_Secret ==
  ASSUME Inv, Inv', SecrecyInv, RatchetAssumption, NEW p \in Devices, ReKey(p)
  PROVE  SecrecyInv'
<1> DEFINE spent == Spent(accepted[p], sent[Other(p)])
           g == Reset(convs[p][0])
           table == [convs[p] EXCEPT ![0] = g]
<1>1. /\ keys' = keys /\ sent' = sent /\ preKeys' = preKeys /\ proc' = proc
      /\ accepted' = accepted /\ proc[p].pc = "idle"
      /\ convs' = [convs EXCEPT ![p] = table]
  BY DEF ReKey
<1>2. /\ Other(p) \in Devices /\ Other(p) # p /\ convs[p] \in Tables /\ 0 \in PreKeyIds
      /\ convs \in [Devices -> Tables] /\ \A q \in Devices : keys[q] <= keys[q]
      /\ TableInv(p, convs[p], spent, preKeys[p], keys)
  BY Parts, IdleOk DEF Inv, TypeOK, PartInv
<1>3. convs[p][0] \in Conv
  BY <1>2, TableTypes
<1>4. g.root = <<>> /\ g.ckr = <<>> /\ g.staged = convs[p][0].staged
  BY <1>3, ResetOk
<1> HIDE DEF g, spent
<1>5. TableInv(p, table, spent, preKeys[p], keys)
  BY <1>2, <1>4, Forget
<1>6. convs'[p] = table /\ convs'[Other(p)] = convs[Other(p)]
  BY <1>1, <1>2
<1> HIDE DEF table
<1> QED BY <1>1, <1>2, <1>5, <1>6, Store_Secret DEF spent

(* An agreement with a fresh key.                                          *)
LEMMA AliceFirst ==
  ASSUME RatchetAssumption, NEW p \in Devices, NEW key \in Keys, OwnKey(p, key),
         NEW ks \in [Devices -> Nat], ~Known(key, ks),
         NEW ns \in [Devices -> Nat], Known(key, ns),
         NEW l \in Keys, Known(l, ns), NEW pk \in SUBSET (1 .. MaxPreKeys)
  PROVE  /\ {key, l} \in SUBSET Keys /\ ~Old(p, {key, l}, pk, ks) /\ Old(p, {key, l}, pk, ns)
<1>1. ~Old(p, {key, l}, pk, ks)
  BY DEF Old
<1>2. ASSUME NEW i \in pk, NEW a0 \in Keys, OwnKey(Other(p), a0)
      PROVE  {key, l} # {a0, <<p, i>>}
  <2>1. i \in Nat /\ i <= MaxPreKeys /\ MaxPreKeys \in Nat /\ Other(p) # p
    BY Two DEF RatchetAssumption
  <2>2. <<p, i>>[2] = i
    BY <2>1, Pairs
  <2>3. key[2] \in Nat
    BY Pairs
  <2>4. key # a0
    BY <1>2, <2>1 DEF OwnKey
  <2>5. key # <<p, i>>
    BY <2>1, <2>2, <2>3 DEF OwnKey
  <2> QED BY <2>4, <2>5
<1>3. \A k \in {key, l} : Known(k, ns)
  OBVIOUS
<1> QED BY <1>1, <1>2, <1>3 DEF Old

LEMMA Setup_Secret ==
  ASSUME Inv, Inv', SecrecyInv, RatchetAssumption, NEW p \in Devices, Setup(p)
  PROVE  SecrecyInv'
<1> DEFINE q == Other(p)
           key == <<p, keys[p] + 1>>
           i == served[q] + 1
           l == <<q, i>>
           s == {key, l}
           old == convs[p][0]
           g == AliceConv(old, key, q, i)
           table == [convs[p] EXCEPT ![0] = g]
           spent == Spent(accepted[p], sent[q])
           ns == keys'
           pk == preKeys[p]
<1>1. /\ TypeOK /\ q \in Devices /\ q # p /\ 0 \in PreKeyIds
      /\ keys[p] \in Nat /\ keys[q] \in Nat /\ keys \in [Devices -> Nat]
      /\ keys[p] >= MaxPreKeys /\ keys[q] >= MaxPreKeys /\ MaxPreKeys \in Nat
      /\ pk \in SUBSET (1 .. MaxPreKeys)
  BY Two, IdleOk, Same DEF Inv, TypeOK, RatchetAssumption
<1>2. served[q] \in PreKeyIds /\ served[q] < MaxPreKeys
  BY <1>1 DEF Setup, TypeOK
<1>3. i \in PreKeyIds /\ i \in Nat /\ i <= MaxPreKeys
  BY <1>1, <1>2 DEF PreKeyIds
<1>4. /\ served' = [served EXCEPT ![q] = i]
      /\ keys' = [keys EXCEPT ![p] = keys[p] + 1]
      /\ proc' = [proc EXCEPT ![p].pc = "setup"]
      /\ accepted' = accepted /\ preKeys' = preKeys /\ sent' = sent
  BY DEF Setup
<1>5. /\ ns \in [Devices -> Nat] /\ ns[p] = keys[p] + 1 /\ ns[q] = keys[q]
      /\ served'[q] = i
  BY <1>1, <1>3, <1>4 DEF TypeOK
<1>6. \A r \in Devices : keys[r] <= ns[r]
  BY <1>1, <1>5, Two
<1>7. convs' = [convs EXCEPT ![p] = table]
  BY <1>1, <1>5 DEF Setup, TypeOK
<1>8. convs'[p] = table /\ convs'[q] = convs[q]
  BY <1>1, <1>7 DEF TypeOK
<1>9. proc'[q] = proc[q] /\ proc'[p].pc # "decrypted"
  BY <1>1, <1>4 DEF TypeOK, Command
<1>10. key \in Keys /\ key[1] = p /\ key[2] = keys[p] + 1 /\ l \in Keys /\ l[1] = q /\ l[2] = i
  BY <1>1, <1>3, Pairs
<1>11. /\ convs[p] \in Tables /\ old \in Conv /\ spent \in SUBSET MsgKeys
       /\ TableInv(p, convs[p], spent, pk, keys)
  <2>1. /\ convs[p] \in Tables /\ sent[q] \in Seq(Message)
        /\ PartInv(p, convs[p], proc[p], accepted[p], sent[q], pk, keys)
    BY Parts
  <2> QED BY <1>1, <2>1, TableTypes, SpentType DEF PartInv
<1> HIDE DEF spent, ns, pk
<1>12. g.root = <<s>> /\ g.ckr = <<s>> /\ g.staged = old.staged
  <2> DEFINE r == Reset(old)
  <2>1. r \in Conv /\ r.staged = old.staged
    BY <1>11, ResetOk
  <2>2. g = [r EXCEPT !.root = <<s>>, !.ckr = <<s>>, !.ctx = key, !.dhr = l, !.a0 = key,
                      !.preKey = i, !.flag = TRUE]
    BY DEF AliceConv
  <2> HIDE DEF r, s, g
  <2> QED BY <2>1, <2>2 DEF Conv
<1> HIDE DEF q, key, i, l, g
<1>13. OwnKey(p, key) /\ ~Known(key, keys) /\ Known(key, ns) /\ Known(l, ns)
  <2>1. /\ keys[p] + 1 > MaxPreKeys /\ keys[p] + 1 <= keys[p] + 1 /\ i <= keys[q]
        /\ ~(keys[p] + 1 <= keys[p])
    BY <1>1, <1>3
  <2> QED BY <1>5, <1>10, <2>1 DEF OwnKey, Known
<1>14. s \in SUBSET Keys /\ ~Old(p, s, pk, keys) /\ Old(p, s, pk, ns)
  BY <1>1, <1>5, <1>10, <1>13, AliceFirst
<1> HIDE DEF s
<1>15. TableInv(p, table, spent, pk, ns)
  <2>1. pk \subseteq pk /\ (g.ckr = <<>> \/ g.ckr = <<s>>) /\ g.staged = convs[p][0].staged
    BY <1>12
  <2>2. \A r \in Devices : keys[r] <= ns[r]
    BY <1>6
  <2> DEFINE cv == convs[p]
  <2>3. cv \in Tables /\ TableInv(p, cv, spent, pk, keys) /\ g.staged = cv[0].staged
    BY <1>11, <2>1
  <2> HIDE DEF cv
  <2>4. TableInv(p, [cv EXCEPT ![0] = g], spent, pk, ns)
    BY <1>1, <1>5, <1>11, <1>12, <1>14, <2>1, <2>2, <2>3, SetUp
  <2> QED BY <2>4 DEF cv
<1> HIDE DEF table
<1>16. TableInv(p, convs'[p], Spent(accepted[p], sent[Other(p)]), preKeys[p], keys')
  BY <1>8, <1>15 DEF spent, pk, ns, q
<1>17. \A r \in Devices : keys[r] <= keys'[r]
  BY <1>6 DEF ns
<1> QED BY <1>4, <1>8, <1>9, <1>16, <1>17, Store_Secret DEF q

LEMMA Encrypt_Secret ==
  ASSUME Inv, Inv', SecrecyInv, RatchetAssumption, NEW p \in Devices, Encrypt(p)
  PROVE  SecrecyInv'
<1> DEFINE q == Other(p)
           cv == convs[p]
           old == cv[0]
           key == <<p, keys[p] + 1>>
           t == Turned(old, key)
           g == [t EXCEPT !.ns = t.ns + 1]
           table == [cv EXCEPT ![0] = g]
           spent == Spent(accepted[p], sent[q])
           ns == keys'
           pk == preKeys[p]
<1>1. /\ TypeOK /\ q \in Devices /\ q # p /\ 0 \in PreKeyIds
      /\ keys[p] \in Nat /\ keys \in [Devices -> Nat]
      /\ old \in Conv /\ ConvInv(p, old, keys)
  BY Two, IdleOk, Same DEF Inv, TypeOK
<1>2. /\ accepted' = accepted /\ sent' = sent /\ preKeys' = preKeys
      /\ keys' = IF old.flag THEN [keys EXCEPT ![p] = @ + 1] ELSE keys
      /\ proc' = [proc EXCEPT ![p] = [Idle EXCEPT !.pc = "stored", !.out = Wire(t)]]
  BY DEF Encrypt, Generated
<1>3. convs' = [convs EXCEPT ![p] = table]
  BY <1>1 DEF Encrypt, TypeOK
<1>4. convs'[p] = table /\ convs'[q] = convs[q]
  BY <1>1, <1>3 DEF TypeOK
<1>5. ns \in [Devices -> Nat] /\ \A r \in Devices : keys[r] <= ns[r]
  BY <1>1, <1>2
<1>6. proc'[q] = proc[q] /\ proc'[p].pc # "decrypted"
  BY <1>1, <1>2 DEF TypeOK, Idle
<1>7. key \in Keys
  BY <1>1, Pairs
<1>8. cv \in Tables /\ spent \in SUBSET MsgKeys /\ TableInv(p, cv, spent, pk, keys)
  <2>1. /\ cv \in Tables /\ sent[q] \in Seq(Message)
        /\ PartInv(p, cv, proc[p], accepted[p], sent[q], pk, keys)
    BY Parts
  <2> QED BY <2>1, SpentType DEF PartInv
<1> HIDE DEF q, key, spent, ns, pk
<1>9. /\ g.root \in Chains /\ (g.root = <<>> <=> old.root = <<>>)
      /\ g.root # <<>> => g.root[1] = old.root[1]
      /\ Len(g.root) >= Len(old.root)
      /\ g.ckr = old.ckr /\ g.nr = old.nr /\ g.staged = old.staged
  <2>1. old.root \in Chains /\ Len(old.root) \in Nat /\ (old.root # <<>> => Len(old.root) >= 1)
    BY <1>1, ChainLen DEF Conv
  <2>2. CASE ~old.flag
    <3>1. t = old
      BY <2>2 DEF Turned
    <3>2. /\ g.root = old.root /\ g.ckr = old.ckr /\ g.nr = old.nr /\ g.staged = old.staged
      BY <1>1, <3>1 DEF Conv
    <3> QED BY <2>1, <3>2
  <2>3. CASE old.flag
    <3> DEFINE s == {key, old.dhr}
               longer == Append(old.root, s)
    <3>1. t = [old EXCEPT !.dhs = key, !.root = longer, !.cks = longer, !.pns = old.ns,
                          !.ns = 0, !.flag = FALSE]
      BY <1>1, <2>3 DEF Turned, Conv
    <3>2. old.dhr \in Keys /\ old.root # <<>>
      BY <1>1, <2>3 DEF ConvInv, Conv
    <3>3. s \in SUBSET Keys
      BY <1>7, <3>2
    <3> HIDE DEF s
    <3>4. /\ longer \in Chains /\ longer # <<>> /\ Len(longer) = Len(old.root) + 1
          /\ \A j \in 1 .. Len(old.root) : longer[j] = old.root[j]
      BY <2>1, <3>3, Longer
    <3>5. longer[1] = old.root[1] /\ Len(longer) >= Len(old.root)
      <4> DEFINE n == Len(old.root)
      <4>1. n \in Nat /\ n >= 1
        BY <2>1, <3>2
      <4>2. Len(longer) = n + 1 /\ \A j \in 1 .. n : longer[j] = old.root[j]
        BY <3>4
      <4> HIDE DEF longer, n
      <4>3. 1 \in 1 .. n /\ n + 1 >= n
        BY <4>1
      <4>4. longer[1] = old.root[1]
        BY <4>2, <4>3
      <4>5. Len(longer) >= n
        BY <4>2, <4>3
      <4> QED BY <4>4, <4>5 DEF n
    <3> HIDE DEF longer
    <3>6. /\ g.root = longer /\ g.ckr = old.ckr /\ g.nr = old.nr /\ g.staged = old.staged
      BY <1>1, <3>1 DEF Conv
    <3> QED BY <3>2, <3>4, <3>5, <3>6
  <2> QED BY <2>2, <2>3
<1> HIDE DEF g
<1>10. TableInv(p, table, spent, pk, keys)
  <2>1. g.staged \subseteq cv[0].staged /\ spent \subseteq spent \union (cv[0].staged \ g.staged)
    BY <1>9
  <2> HIDE DEF cv
  <2> QED BY <1>1, <1>8, <1>9, <2>1, Lengthen
<1>11. table \in Tables
  <2>1. convs'[p] \in Tables
    BY DEF Inv, TypeOK
  <2> QED BY <1>4, <2>1
<1> HIDE DEF table
<1>12. TableInv(p, table, spent, pk, ns)
  <2>1. pk \subseteq pk
    OBVIOUS
  <2>2. \A r \in Devices : keys[r] <= ns[r]
    BY <1>5
  <2> QED BY <1>1, <1>5, <1>8, <1>10, <1>11, <2>1, <2>2, TableStays
<1>13. TableInv(p, convs'[p], Spent(accepted[p], sent[Other(p)]), preKeys[p], keys')
  BY <1>4, <1>12 DEF spent, pk, ns, q
<1>14. \A r \in Devices : keys[r] <= keys'[r]
  BY <1>5 DEF ns
<1> QED BY <1>2, <1>4, <1>6, <1>13, <1>14, Store_Secret DEF q

(* An agreement with a pre-key that was stored before the step.            *)
LEMMA BobFirst ==
  ASSUME RatchetAssumption, NEW p \in Devices, NEW pk \in SUBSET (1 .. MaxPreKeys),
         NEW nk, nk \subseteq pk, NEW i \in pk, i \notin nk,
         NEW ks \in [Devices -> Nat], ks[p] >= MaxPreKeys,
         NEW a0 \in Keys, OwnKey(Other(p), a0), Known(a0, ks)
  PROVE  LET s == {a0, <<p, i>>}
         IN s \in SUBSET Keys /\ ~Old(p, s, pk, ks) /\ Old(p, s, nk, ks)
<1> DEFINE l == <<p, i>>
           s == {a0, l}
<1>1. i \in Nat /\ i <= MaxPreKeys /\ MaxPreKeys \in Nat /\ Other(p) # p /\ ks[p] \in Nat
  BY Two DEF RatchetAssumption
<1>2. l \in Keys /\ l[1] = p /\ l[2] = i /\ i <= ks[p]
  BY <1>1, Pairs
<1>3. Known(l, ks)
  BY <1>2 DEF Known
<1>4. ~Old(p, s, pk, ks)
  BY DEF Old
<1> HIDE DEF l
<1>5. ASSUME NEW j \in nk, NEW b0 \in Keys, OwnKey(Other(p), b0)
      PROVE  s # {b0, <<p, j>>}
  <2>1. <<p, j>>[2] = j
    OBVIOUS
  <2>2. l # <<p, j>>
    BY <1>2, <2>1
  <2>3. l # b0
    BY <1>1, <1>2, <1>5 DEF OwnKey
  <2> QED BY <2>2, <2>3
<1>6. \A x \in s : Known(x, ks)
  BY <1>3
<1> QED BY <1>2, <1>4, <1>5, <1>6 DEF Old, l

(* The context decrypt prepares is the stored one, or Bob's.               *)
LEMMA PreparedForms ==
  ASSUME RatchetAssumption, NEW p \in Devices, NEW c \in Conv, NEW m \in Message
  PROVE  LET g == Prepared(c, m, p)
         IN \/ /\ g.root = c.root /\ g.ckr = c.ckr /\ g.nr = c.nr /\ g.staged = c.staged
            \/ /\ m.setup /\ m.preKey \in preKeys[p]
               /\ g.root = <<{m.a0, <<p, m.preKey>>}>> /\ g.ckr = <<>> /\ g.staged = c.staged
<1> DEFINE g == Prepared(c, m, p)
<1>1. CASE ~m.setup
  BY <1>1 DEF Prepared
<1>2. CASE m.setup /\ m.preKey \in preKeys[p]
  <2> DEFINE r == Reset(c)
             chain == <<{m.a0, <<p, m.preKey>>}>>
             first == <<p, m.preKey>>
  <2>1. r \in Conv /\ r.ckr = <<>> /\ r.staged = c.staged
    BY ResetOk
  <2>2. g = [r EXCEPT !.root = chain, !.cks = chain, !.ctx = m.ctx, !.dhs = first]
    BY <1>2 DEF Prepared, BobConv
  <2> HIDE DEF r, chain, first, g
  <2>3. g.root = chain /\ g.ckr = <<>> /\ g.staged = c.staged
    BY <2>1, <2>2 DEF Conv
  <2> QED BY <1>2, <2>3 DEF g, chain
<1>3. CASE m.setup /\ m.preKey \notin preKeys[p]
  <2>1. g = [c EXCEPT !.ctx = m.ctx]
    BY <1>3 DEF Prepared
  <2> HIDE DEF g
  <2>2. g.root = c.root /\ g.ckr = c.ckr /\ g.nr = c.nr /\ g.staged = c.staged
    BY <2>1 DEF Conv
  <2> QED BY <2>2 DEF g
<1> QED BY <1>1, <1>2, <1>3

LEMMA WithStagedFields ==
  ASSUME NEW c \in Conv, NEW m
  PROVE  LET g == WithStaged(c, m)
         IN /\ g.root = c.root /\ g.ckr = c.ckr /\ g.nr = c.nr
            /\ g.staged = c.staged \ {m.key}
  BY DEF WithStaged, Conv

(* A staged key is deleted, whether it is then spent or not.               *)
LEMMA Unstage ==
  ASSUME NEW p \in Devices, NEW cv \in Tables, NEW spent \in SUBSET MsgKeys, NEW next,
         NEW pk, NEW ks, TableInv(p, cv, spent, pk, ks), NEW k \in PreKeyIds,
         NEW m, m.key \in cv[k].staged, next = spent \/ next = spent \union {m.key}
  PROVE  TableInv(p, [cv EXCEPT ![k] = WithStaged(cv[k], m)], next, pk, ks)
<1> DEFINE c == cv[k]
           g == WithStaged(c, m)
<1>1. c \in Conv /\ c.root \in Chains /\ Len(c.root) \in Nat
  BY TableTypes, ChainLen
<1>2. /\ g.root = c.root /\ g.ckr = c.ckr /\ g.nr = c.nr
      /\ g.staged = c.staged \ {m.key}
  BY <1>1, WithStagedFields
<1> HIDE DEF g
<1>3. g.staged \subseteq c.staged /\ next \subseteq spent \union (c.staged \ g.staged)
  BY <1>2
<1>4. Len(g.root) >= Len(c.root) /\ (g.root = <<>> <=> c.root = <<>>)
  BY <1>1, <1>2
<1>5. TableInv(p, [cv EXCEPT ![k] = g], next, pk, ks)
  BY <1>1, <1>2, <1>3, <1>4, Lengthen
<1> QED BY <1>5 DEF g

(* The table with the prepared context.                                    *)
LEMMA PreparedTable ==
  ASSUME RatchetAssumption, Inv, NEW p \in Devices, NEW cv \in Tables,
         NEW spent \in SUBSET MsgKeys, NEW nk, nk \subseteq preKeys[p], NEW k \in PreKeyIds,
         TableInv(p, cv, spent, preKeys[p], keys),
         NEW m \in Message, MsgInv(Other(p), m, keys), m.setup => m.preKey \notin nk
  PROVE  TableInv(p, [cv EXCEPT ![k] = Prepared(cv[k], m, p)], spent, nk, keys)
<1> DEFINE c == cv[k]
           pk == preKeys[p]
           g == Prepared(c, m, p)
           s == {m.a0, <<p, m.preKey>>}
<1>1. /\ c \in Conv /\ c.root \in Chains /\ Len(c.root) \in Nat
      /\ keys \in [Devices -> Nat] /\ keys[p] >= MaxPreKeys
      /\ pk \in SUBSET (1 .. MaxPreKeys)
      /\ \A r \in Devices : keys[r] <= keys[r]
  BY TableTypes, ChainLen, Same DEF Inv, TypeOK
<1>2. \/ /\ g.root = c.root /\ g.ckr = c.ckr /\ g.nr = c.nr /\ g.staged = c.staged
      \/ /\ m.setup /\ m.preKey \in pk
         /\ g.root = <<s>> /\ g.ckr = <<>> /\ g.staged = c.staged
  BY <1>1, PreparedForms
<1> HIDE DEF g
<1>3. CASE g.root = c.root /\ g.ckr = c.ckr /\ g.nr = c.nr /\ g.staged = c.staged
  <2>1. TableInv(p, cv, spent, nk, keys)
    BY <1>1, TableStays
  <2>2. /\ Len(g.root) >= Len(c.root) /\ (g.root = <<>> <=> c.root = <<>>)
        /\ g.staged \subseteq c.staged /\ spent \subseteq spent \union (c.staged \ g.staged)
    BY <1>1, <1>3
  <2>3. TableInv(p, [cv EXCEPT ![k] = g], spent, nk, keys)
    BY <1>1, <1>3, <2>1, <2>2, Lengthen
  <2> QED BY <2>3 DEF g
<1>4. CASE /\ m.setup /\ m.preKey \in pk
           /\ g.root = <<s>> /\ g.ckr = <<>> /\ g.staged = c.staged
  <2>1. m.a0 \in Keys /\ OwnKey(Other(p), m.a0) /\ Known(m.a0, keys)
    BY <1>4, Pairs DEF MsgInv, Message
  <2>2. s \in SUBSET Keys /\ ~Old(p, s, pk, keys) /\ Old(p, s, nk, keys)
    <3> DEFINE i == m.preKey
               a0 == m.a0
    <3>1. /\ i \in pk /\ i \notin nk /\ nk \subseteq pk /\ pk \in SUBSET (1 .. MaxPreKeys)
          /\ a0 \in Keys /\ OwnKey(Other(p), a0) /\ Known(a0, keys)
      BY <1>1, <1>4, <2>1
    <3> HIDE DEF i, a0, pk
    <3>2. LET x == {a0, <<p, i>>}
          IN x \in SUBSET Keys /\ ~Old(p, x, pk, keys) /\ Old(p, x, nk, keys)
      BY <1>1, <3>1, BobFirst
    <3> QED BY <3>2 DEF i, a0
  <2> HIDE DEF s
  <2>3. TableInv(p, [cv EXCEPT ![k] = g], spent, nk, keys)
    BY <1>1, <1>4, <2>2, SetUp
  <2> QED BY <2>3 DEF g
<1> QED BY <1>2, <1>3, <1>4

(* The table with the message decrypted.                                   *)
LEMMA DecryptedTable ==
  ASSUME RatchetAssumption, NEW p \in Devices, NEW cv \in Tables,
         NEW spent \in SUBSET MsgKeys, NEW pk, NEW ks, NEW k \in PreKeyIds, NEW c \in Conv,
         TableInv(p, [cv EXCEPT ![k] = c], spent, pk, ks), ConvInv(p, c, ks),
         NEW m \in Message, Known(m.dh, ks), Opens(c, m), m.key[1] # <<>>
  PROVE  TableInv(p, [cv EXCEPT ![k] = Decrypted(c, m)], spent \union {m.key}, pk, ks)
<1> DEFINE mid == [cv EXCEPT ![k] = c]
<1>1. mid \in Tables /\ mid[k] = c
  BY DEF Tables
<1>2. \A g : [mid EXCEPT ![k] = g] = [cv EXCEPT ![k] = g]
  BY DEF Tables
<1>3. TableInv(p, mid, spent, pk, ks)
  OBVIOUS
<1> HIDE DEF mid
<1>4. CASE m.key \in c.staged
  <2>1. TableInv(p, [mid EXCEPT ![k] = WithStaged(c, m)], spent \union {m.key}, pk, ks)
    BY <1>1, <1>3, <1>4, Unstage
  <2> QED BY <1>2, <1>4, <2>1 DEF Decrypted
<1>5. CASE m.key \notin c.staged
  <2>1. OpensWithChain(c, m)
    BY <1>5 DEF Opens
  <2>2. ChainOf(c, m) \in Chains
    BY <2>1, ChainOfOk
  <2>3. TableInv(p, [mid EXCEPT ![k] = WithChain(c, m)], spent \union {m.key}, pk, ks)
    BY <1>1, <1>3, <1>5, <2>1, <2>2, ChainStep
  <2> QED BY <1>2, <1>5, <2>3 DEF Decrypted
<1> QED BY <1>4, <1>5

LEMMA Decrypt_Secret ==
  ASSUME Inv, Inv', SecrecyInv, RatchetAssumption, NEW p \in Devices,
         NEW i \in 1 .. MaxSends, Decrypt(p, i)
  PROVE  SecrecyInv'
<1> DEFINE q == Other(p)
           st == sent[q]
           m == st[i]
           cv == convs[p]
           pk == preKeys[p]
           nk == preKeys'[p]
           acc == accepted[p]
           spent == Spent(acc, st)
<1>1. /\ TypeOK /\ q \in Devices /\ q # p /\ 0 \in PreKeyIds
      /\ keys \in [Devices -> Nat] /\ \A r \in Devices : keys[r] <= keys[r]
      /\ cv \in Tables /\ st \in Seq(Message) /\ acc \subseteq DOMAIN st
      /\ TableInv(p, cv, spent, pk, keys)
  BY Two, IdleOk, Same, Parts DEF Inv, PartInv
<1>2. m \in Message /\ MsgInv(q, m, keys) /\ Known(m.dh, keys) /\ i \in DOMAIN st
  BY Received DEF Decrypt, MsgInv, Take, Waiting
<1>3. m.key[1] # <<>>
  <2>1. UsedOnce(proc[q], st)
    BY <1>1 DEF Inv, DeviceInv
  <2> QED BY <1>2, <2>1 DEF UsedOnce
<1>4. PICK k \in Tried(p, m) :
        /\ MayOpen(p, k, m)
        /\ proc' = [proc EXCEPT ![p] =
             [Idle EXCEPT !.pc = "decrypted", !.in = i,
                          !.convs = [convs[p] EXCEPT ![k] =
                            Decrypted(Prepared(convs[p][k], m, p), m)]]]
        /\ convs' = IF m.key \in Prepared(convs[p][k], m, p).staged
                    THEN [convs EXCEPT ![p][k] = WithStaged(@, m)]
                    ELSE convs
  BY DEF Decrypt
<1>5. /\ accepted' = accepted /\ keys' = keys /\ sent' = sent
      /\ preKeys' \in {preKeys, [preKeys EXCEPT ![p] = @ \ {m.preKey}]}
      /\ m.setup => preKeys' = [preKeys EXCEPT ![p] = @ \ {m.preKey}]
  BY DEF Decrypt, TakePreKey
<1>6. k \in PreKeyIds
  BY <1>1, <1>2 DEF Tried, Message
<1>7. preKeys'[q] = preKeys[q] /\ nk \subseteq pk /\ (m.setup => m.preKey \notin nk)
  BY <1>1, <1>5 DEF TypeOK
<1> DEFINE old == cv[k]
           c == Prepared(old, m, p)
           g == Decrypted(c, m)
           table == [cv EXCEPT ![k] = g]
           left == WithStaged(old, m)
<1>8. old \in Conv /\ ConvInv(p, old, keys) /\ spent \in SUBSET MsgKeys
  BY <1>1, <1>6, Same, SpentType
<1>9. c \in Conv /\ ConvInv(p, c, keys)
  BY <1>2, <1>8, PreparedOk
<1>10. Opens(c, m)
  BY <1>4 DEF MayOpen
<1>11. /\ proc' = [proc EXCEPT ![p] = [Idle EXCEPT !.pc = "decrypted", !.in = i, !.convs = table]]
       /\ convs' = IF m.key \in c.staged
                   THEN [convs EXCEPT ![p] = [cv EXCEPT ![k] = left]] ELSE convs
  BY <1>1, <1>4 DEF TypeOK
<1>12. c.staged = old.staged
  BY <1>2, <1>8, PreparedForms
<1> HIDE DEF m, nk, spent
<1>13. TableInv(p, [cv EXCEPT ![k] = c], spent, nk, keys)
  BY <1>1, <1>2, <1>6, <1>7, <1>8, PreparedTable
<1>14. TableInv(p, table, spent \union {m.key}, nk, keys)
  <2> HIDE DEF c
  <2> QED BY <1>1, <1>2, <1>3, <1>6, <1>8, <1>9, <1>10, <1>13, DecryptedTable
<1> HIDE DEF c, g
<1>15. TableInv(p, convs'[p], spent, nk, keys) /\ convs'[q] = convs[q]
  <2>1. CASE m.key \in c.staged
    <3>1. convs'[p] = [cv EXCEPT ![k] = left] /\ convs'[q] = convs[q]
      BY <1>1, <1>11, <2>1 DEF TypeOK
    <3>2. TableInv(p, cv, spent, nk, keys)
      BY <1>1, <1>7, <1>8, TableStays
    <3>3. TableInv(p, [cv EXCEPT ![k] = left], spent, nk, keys)
      BY <1>1, <1>6, <1>8, <1>12, <2>1, <3>2, Unstage
    <3> QED BY <3>1, <3>3
  <2>2. CASE m.key \notin c.staged
    <3>1. convs' = convs
      BY <1>11, <2>2
    <3> QED BY <1>1, <1>7, <1>8, <3>1, TableStays
  <2> QED BY <2>1, <2>2
<1> HIDE DEF table
<1>16. /\ proc'[q] = proc[q] /\ proc'[p].in = i /\ proc'[p].convs = table
  BY <1>1, <1>11 DEF TypeOK, Idle
<1>17. Spent(acc \union {i}, st) = spent \union {m.key}
  BY DEF Spent, spent, m
<1>18. TableInv(p, convs'[p], Spent(accepted'[p], sent'[q]), preKeys'[p], keys')
  BY <1>5, <1>15 DEF spent, nk
<1>19. /\ accepted'[p] \subseteq DOMAIN sent'[q] /\ proc'[p].in \in DOMAIN sent'[q]
       /\ TableInv(p, proc'[p].convs, Spent(accepted'[p] \union {proc'[p].in}, sent'[q]),
                   preKeys'[p], keys')
  BY <1>1, <1>2, <1>5, <1>14, <1>16, <1>17 DEF nk
<1>20. PartInv(p, convs'[p], proc'[p], accepted'[p], sent'[q], preKeys'[p], keys')
  BY <1>18, <1>19 DEF PartInv
<1>21. \A r \in Devices : keys[r] <= keys'[r]
  BY <1>1, <1>5
<1> QED BY <1>5, <1>7, <1>15, <1>16, <1>20, <1>21, StepSecret DEF q

-----------------------------------------------------------------------------
(* The theorem.                                                            *)

LEMMA Init_Secret ==
  ASSUME RatchetAssumption, Init
  PROVE  SecrecyInv
<1>1. Empty \in Tables
  BY Init_Inv DEF Init, Inv, TypeOK, Devices
<1>2. \A k \in PreKeyIds : Empty[k].root = <<>> /\ Empty[k].ckr = <<>> /\ Empty[k].staged = {}
  BY DEF Empty, NewConv
<1>3. AllStaged(Empty) = {}
  BY <1>2 DEF AllStaged
<1>4. ASSUME NEW p \in Devices
      PROVE  PartInv(p, convs[p], proc[p], accepted[p], sent[Other(p)], preKeys[p], keys)
  <2>1. /\ convs[p] = Empty /\ proc[p] = Idle /\ accepted[p] = {}
        /\ sent[Other(p)] = <<>>
    BY Two DEF Init
  <2>2. Spent({}, <<>>) = {}
    BY DEF Spent
  <2>3. TableInv(p, Empty, {}, preKeys[p], keys)
    BY <1>2, <1>3 DEF TableInv, RootsInv, Receives, Derived, Separate
  <2>4. Idle.pc # "decrypted"
    BY DEF Idle
  <2>5. PartInv(p, Empty, Idle, {}, <<>>, preKeys[p], keys)
    BY <2>2, <2>3, <2>4 DEF PartInv
  <2> QED BY <2>1, <2>5
<1> QED BY <1>4 DEF SecrecyInv

LEMMA Next_Secret ==
  ASSUME Inv, Inv', SecrecyInv, RatchetAssumption, [Next]_vars
  PROVE  SecrecyInv'
<1>1. CASE UNCHANGED vars
  BY <1>1, Nothing_Secret
<1>2. CASE Next
  BY <1>2, Setup_Secret, Encrypt_Secret, HandOver_Secret, ReKey_Secret, Decrypt_Secret,
     Reject_Secret, Commit_Secret, Crash_Secret DEF Next
<1> QED BY <1>1, <1>2

(* Forward secrecy: the key of a committed message is gone from every      *)
(* context of its receiver, for any numbers of pre-keys, messages, deaths  *)
(* and re-keys.                                                            *)
THEOREM ConsumedKeysGone == Spec => []ConsumedKeyGone
<1>1. Init => SecrecyInv
  BY RatchetAssumption, Init_Secret
<1>2. Inv /\ Inv' /\ SecrecyInv /\ [Next]_vars => SecrecyInv'
  BY RatchetAssumption, Next_Secret
<1>3. Inv /\ SecrecyInv => ConsumedKeyGone
  <2> SUFFICES ASSUME Inv, SecrecyInv, NEW p \in Devices, NEW i \in accepted[p],
                      NEW k \in PreKeyIds
               PROVE  ~Holds(convs[p][k], sent[Other(p)][i].key)
    BY DEF ConsumedKeyGone
  <2> DEFINE q == Other(p)
             K == sent[q][i].key
             c == convs[p][k]
             spent == Spent(accepted[p], sent[q])
  <2>1. /\ q \in Devices /\ convs[p] \in Tables /\ sent[q] \in Seq(Message)
        /\ i \in DOMAIN sent[q] /\ accepted[p] \subseteq DOMAIN sent[q]
        /\ TableInv(p, convs[p], spent, preKeys[p], keys)
    BY Parts DEF PartInv
  <2>2. K \in spent /\ spent \in SUBSET MsgKeys
    BY <2>1, SpentType DEF Spent
  <2>3. K[1] # <<>>
    BY <2>1 DEF Inv, DeviceInv, UsedOnce
  <2>4. K[2] \in Nat /\ c.nr \in Nat /\ c.staged \subseteq AllStaged(convs[p])
    BY <2>1, <2>2, KeyType, TableTypes
  <2> HIDE DEF K, spent, c, q
  <2>5. K \notin c.staged
    BY <2>1, <2>2, <2>3, <2>4 DEF TableInv, Separate, Derived
  <2>6. K \in Derived(spent \union AllStaged(convs[p]))
    BY <2>2, <2>3 DEF Derived
  <2>7. K[1] = c.ckr => K[2] < c.nr
    BY <2>1, <2>6 DEF TableInv, Behind, c
  <2>8. ~Holds(c, K)
    BY <2>4, <2>5, <2>7 DEF Holds
  <2> QED BY <2>8 DEF c, K, q
<1> QED BY <1>1, <1>2, <1>3, SpecInv, PTL DEF Spec
=============================================================================
