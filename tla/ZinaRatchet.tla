---------------------------- MODULE ZinaRatchet ----------------------------
(***************************************************************************)
(* The double ratchet between two devices: the set-up with a pre-key       *)
(* (ZinaPreKeyConnector), ZinaRatchet::encrypt and decrypt, the staged     *)
(* keys of skipped messages, the secondary contexts that resolve two       *)
(* conflicting set-ups, the re-key command, and the death of a process     *)
(* between the steps of a command.  Device "a" has the greater identity    *)
(* key.                                                                    *)
(*                                                                         *)
(* Keys are symbolic.  A DH key is its owner and a number; the pre-keys    *)
(* have the first numbers.  A root key is the sequence of the agreements   *)
(* it was derived from, each a set of two public keys; the chain derived   *)
(* with it has the same name, and a message key is a chain and a position. *)
(* The chain keys CKs and CKr always stand at the positions Ns and Nr.     *)
(***************************************************************************)
EXTENDS Integers, Sequences, FiniteSets

CONSTANTS
  Starters,    \* devices that set up a conversation to send in
  MaxPreKeys,  \* pre-keys 1 .. MaxPreKeys of each device
  MaxSends,    \* bound: messages sent by each device
  MaxCrashes,  \* bound: process deaths
  MaxReKeys    \* bound: re-key commands

Devices == {"a", "b"}
Other(p) == CHOOSE q \in Devices : q # p

ASSUME RatchetAssumption ==
  /\ Starters \subseteq Devices
  /\ {MaxPreKeys, MaxSends, MaxCrashes, MaxReKeys} \subseteq Nat

VARIABLES
  convs,     \* the stored contexts: 0 is the primary, the others are the
             \* secondary ones, by the pre-key of their set-up; a context
             \* that is not stored is NewConv
  preKeys,   \* the stored own pre-keys
  served,    \* pre-keys the server has handed out
  keys,      \* number of the last key generated
  proc,      \* the command thread
  sent,      \* messages in the order they were handed to the transport
  accepted,  \* messages of the other device that were decrypted, committed
  rejected,  \* messages of the other device that could not be decrypted
  reordered, \* a message was processed before an earlier one
  crashes, reKeys

vars == <<convs, preKeys, served, keys, proc, sent, accepted, rejected,
          reordered, crashes, reKeys>>

PreKeyIds == 0 .. MaxPreKeys   \* 0: none
Keys == Devices \X Nat
None == <<>>
Chains == Seq(SUBSET Keys)
MsgKeys == Chains \X Nat

Conv == [root : Chains, ctx : Keys \union {None}, dhs : Keys \union {None},
         dhr : Keys \union {None}, a0 : Keys \union {None}, preKey : PreKeyIds,
         ns : Nat, nr : Nat, pns : Nat, flag : BOOLEAN,
         cks : Chains, ckr : Chains, staged : SUBSET MsgKeys]

Message == [setup : BOOLEAN, ctx : Keys, dh : Keys, np : Nat, pn : Nat,
            preKey : PreKeyIds, a0 : Keys \union {None}, key : MsgKeys]

NewConv == [root |-> <<>>, ctx |-> None, dhs |-> None, dhr |-> None,
            a0 |-> None, preKey |-> 0, ns |-> 0, nr |-> 0, pns |-> 0,
            flag |-> FALSE, cks |-> <<>>, ckr |-> <<>>, staged |-> {}]

Tables == [PreKeyIds -> Conv]
Empty == [k \in PreKeyIds |-> NewConv]

NoMessage == [setup |-> FALSE, ctx |-> <<"a", 0>>, dh |-> <<"a", 0>>, np |-> 0,
              pn |-> 0, preKey |-> 0, a0 |-> None, key |-> <<<<>>, 0>>]

(* The command thread: the message it is about to hand over, or the one it *)
(* decrypted and the contexts it will store.                               *)
Command == [pc : {"idle", "setup", "stored", "decrypted"},
            out : Message, in : Nat, convs : Tables]
Idle == [pc |-> "idle", out |-> NoMessage, in |-> 0, convs |-> Empty]

TypeOK ==
  /\ convs \in [Devices -> Tables]
  /\ preKeys \in [Devices -> SUBSET (1 .. MaxPreKeys)]
  /\ served \in [Devices -> PreKeyIds]
  /\ keys \in [Devices -> Nat]
  /\ proc \in [Devices -> Command]
  /\ sent \in [Devices -> Seq(Message)]
  /\ accepted \in [Devices -> SUBSET (1 .. MaxSends)]
  /\ rejected \in [Devices -> SUBSET (1 .. MaxSends)]
  /\ reordered \in BOOLEAN /\ crashes \in Nat /\ reKeys \in Nat

Init ==
  /\ convs = [p \in Devices |-> Empty]
  /\ preKeys = [p \in Devices |-> 1 .. MaxPreKeys]
  /\ served = [p \in Devices |-> 0]
  /\ keys = [p \in Devices |-> MaxPreKeys]
  /\ proc = [p \in Devices |-> Idle]
  /\ sent = [p \in Devices |-> <<>>]
  /\ accepted = [p \in Devices |-> {}]
  /\ rejected = [p \in Devices |-> {}]
  /\ reordered = FALSE /\ crashes = 0 /\ reKeys = 0

-----------------------------------------------------------------------------
(* Contexts.                                                               *)

(* reset keeps the context id; staged keys are rows of another table.      *)
Reset(c) == [NewConv EXCEPT !.ctx = c.ctx, !.staged = c.staged]

(* A mutant of AliceConv: the first message does not turn the ratchet.     *)
AliceConvKeepsRatchet(c, a0, q, i) ==
  [Reset(c) EXCEPT !.root = <<{a0, <<q, i>>}>>, !.ckr = <<{a0, <<q, i>>}>>,
                   !.ctx = a0, !.dhr = <<q, i>>, !.a0 = a0, !.preKey = i]

(* setupConversationAlice, with pre-key i of device q and a fresh key.     *)
AliceConv(c, a0, q, i) ==
  [Reset(c) EXCEPT !.root = <<{a0, <<q, i>>}>>, !.ckr = <<{a0, <<q, i>>}>>,
                   !.ctx = a0, !.dhr = <<q, i>>, !.a0 = a0, !.preKey = i,
                   !.flag = TRUE]

(* setupConversationBob on device p: the pre-key is its first ratchet key. *)
BobConv(c, m, p) ==
  [Reset(c) EXCEPT !.root = <<{m.a0, <<p, m.preKey>>}>>,
                   !.cks = <<{m.a0, <<p, m.preKey>>}>>,
                   !.ctx = m.ctx, !.dhs = <<p, m.preKey>>]

(* The context a message is decrypted with.  A set-up message whose        *)
(* pre-key is gone is one of several, and goes on in the existing context. *)
Prepared(c, m, p) ==
  IF ~m.setup THEN c
  ELSE IF m.preKey \in preKeys[p] THEN BobConv(c, m, p)
  ELSE [c EXCEPT !.ctx = m.ctx]

NewRatchet(c, m) == c.dhr # m.dh

(* The chain the message belongs to, if the message is genuine.            *)
ChainOf(c, m) ==
  IF NewRatchet(c, m) THEN Append(c.root, {m.dh, c.dhs}) ELSE c.ckr

ChainKeys(chain, from, to) == {<<chain, i>> : i \in from .. (to - 1)}

(* A mutant of Skipped: the rest of the old chain is not staged.           *)
SkippedNewOnly(c, m) ==
  ChainKeys(ChainOf(c, m), IF NewRatchet(c, m) THEN 0 ELSE c.nr, m.np)

(* stageSkippedMessageKeys: what is left of the old chain, and the new     *)
(* chain up to the message.                                                *)
Skipped(c, m) ==
  IF NewRatchet(c, m)
  THEN ChainKeys(c.ckr, c.nr, m.pn) \union ChainKeys(ChainOf(c, m), 0, m.np)
  ELSE ChainKeys(c.ckr, c.nr, m.np)

(* The message authentication code fits.                                   *)
OpensWithChain(c, m) ==
  /\ IF NewRatchet(c, m) THEN c.root # <<>> /\ c.dhs # None ELSE m.np >= c.nr
  /\ m.key = <<ChainOf(c, m), m.np>>

Opens(c, m) ==
  /\ c.ctx = m.ctx \/ c.ctx = None
  /\ m.key \in c.staged \/ OpensWithChain(c, m)

(* A mutant of WithStaged: the key stays with the staged ones.             *)
WithStagedKept(c, m) == c

(* The message was decrypted with a staged key: its row is deleted.        *)
WithStaged(c, m) == [c EXCEPT !.staged = @ \ {m.key}]

WithChain(c, m) ==
  [c EXCEPT !.root = IF NewRatchet(c, m) THEN ChainOf(c, m) ELSE @,
            !.ckr = ChainOf(c, m),
            !.dhr = m.dh,
            !.flag = @ \/ NewRatchet(c, m),
            !.nr = m.np + 1,
            !.a0 = None,
            !.staged = @ \union Skipped(c, m)]

Decrypted(c, m) ==
  IF m.key \in c.staged THEN WithStaged(c, m) ELSE WithChain(c, m)

(* A new ratchet key before the first message after a received one.        *)
Turned(c, key) ==
  IF c.flag
  THEN [c EXCEPT !.dhs = key, !.root = Append(@, {key, c.dhr}),
                 !.cks = Append(c.root, {key, c.dhr}),
                 !.pns = c.ns, !.ns = 0, !.flag = FALSE]
  ELSE c

Generated(p) ==
  IF convs[p][0].flag THEN [keys EXCEPT ![p] = @ + 1] ELSE keys

Wire(c) == [setup |-> c.a0 # None, ctx |-> c.ctx, dh |-> c.dhs, np |-> c.ns,
            pn |-> c.pns, preKey |-> c.preKey, a0 |-> c.a0,
            key |-> <<c.cks, c.ns>>]

-----------------------------------------------------------------------------
(* Sending: sendMessageNewUser and sendMessageExisting.                    *)

MaySend(p) == Len(sent[p]) < MaxSends

(* The first message of a conversation: get a pre-key from the server and  *)
(* store the new context.                                                  *)
Setup(p) ==
  /\ proc[p].pc = "idle" /\ MaySend(p)
  /\ p \in Starters
  /\ convs[p][0].root = <<>>
  /\ served[Other(p)] < MaxPreKeys
  /\ served' = [served EXCEPT ![Other(p)] = @ + 1]
  /\ keys' = [keys EXCEPT ![p] = @ + 1]
  /\ convs' = [convs EXCEPT ![p][0] =
       AliceConv(@, <<p, keys'[p]>>, Other(p), served'[Other(p)])]
  /\ proc' = [proc EXCEPT ![p].pc = "setup"]
  /\ UNCHANGED <<preKeys, sent, accepted, rejected, reordered, crashes, reKeys>>

(* A mutant of Encrypt: the chain does not move on.                        *)
EncryptKeepsChain(p) ==
  LET c == Turned(convs[p][0], <<p, keys[p] + 1>>)
  IN /\ proc[p].pc \in {"idle", "setup"} /\ MaySend(p)
     /\ c.root # <<>>
     /\ keys' = Generated(p)
     /\ convs' = [convs EXCEPT ![p][0] = c]
     /\ proc' = [proc EXCEPT ![p] = [Idle EXCEPT !.pc = "stored", !.out = Wire(c)]]
     /\ UNCHANGED <<preKeys, served, sent, accepted, rejected, reordered, crashes, reKeys>>

(* Encrypt and store the context ...                                       *)
Encrypt(p) ==
  LET c == Turned(convs[p][0], <<p, keys[p] + 1>>)
  IN /\ proc[p].pc \in {"idle", "setup"} /\ MaySend(p)
     /\ c.root # <<>>
     /\ keys' = Generated(p)
     /\ convs' = [convs EXCEPT ![p][0] = [c EXCEPT !.ns = @ + 1]]
     /\ proc' = [proc EXCEPT ![p] = [Idle EXCEPT !.pc = "stored", !.out = Wire(c)]]
     /\ UNCHANGED <<preKeys, served, sent, accepted, rejected, reordered, crashes, reKeys>>

(* ... then hand the message to the transport.                             *)
HandOver(p) ==
  /\ proc[p].pc = "stored"
  /\ sent' = [sent EXCEPT ![p] = Append(@, proc[p].out)]
  /\ proc' = [proc EXCEPT ![p] = Idle]
  /\ UNCHANGED <<convs, preKeys, served, keys, accepted, rejected,
                 reordered, crashes, reKeys>>

(* reKeyDeviceCommand resets the context; the ping it queues is a message  *)
(* to a new device.                                                        *)
ReKey(p) ==
  /\ proc[p].pc = "idle"
  /\ reKeys < MaxReKeys
  /\ convs[p][0].root # <<>>
  /\ reKeys' = reKeys + 1
  /\ convs' = [convs EXCEPT ![p][0] = Reset(@)]
  /\ UNCHANGED <<preKeys, served, keys, proc, sent, accepted, rejected, reordered, crashes>>

-----------------------------------------------------------------------------
(* Receiving: ZinaRatchet::decrypt.                                        *)

Waiting(p) == DOMAIN sent[Other(p)] \ (accepted[p] \union rejected[p])

Take(p, i) ==
  /\ proc[p].pc = "idle"
  /\ i \in Waiting(p)
  /\ reordered' = (reordered \/ \E j \in Waiting(p) : j < i)

(* A mutant of Collision: both devices take themselves for the winner.     *)
CollisionAlways(p, m) == m.setup /\ convs[p][0].a0 # None

(* Both devices have set up a conversation, and this one is the winner.    *)
Collision(p, m) == m.setup /\ convs[p][0].a0 # None /\ p = "a"

(* The contexts decrypt tries.  The primary and a secondary context of a   *)
(* device differ in their context id, so a message that opens a secondary  *)
(* one leaves nothing staged in the primary.                               *)
Tried(p, m) ==
  IF Collision(p, m) THEN {m.preKey}
  ELSE IF m.setup THEN {0}
  ELSE IF Opens(convs[p][0], m) THEN {0} ELSE PreKeyIds

MayOpen(p, k, m) ==
  /\ m.setup /\ convs[p][k].root = <<>> => m.preKey \in preKeys[p]
  /\ Opens(Prepared(convs[p][k], m, p), m)

(* Every set-up message takes its pre-key out of the store at once.        *)
TakePreKey(p, m) ==
  preKeys' = IF m.setup THEN [preKeys EXCEPT ![p] = @ \ {m.preKey}]
             ELSE preKeys

(* The staged key is deleted at once, the context is stored later.         *)
Decrypt(p, i) ==
  LET m == sent[Other(p)][i]
  IN /\ Take(p, i)
     /\ \E k \in Tried(p, m) :
          LET c == Prepared(convs[p][k], m, p)
          IN /\ MayOpen(p, k, m)
             /\ proc' = [proc EXCEPT ![p] =
                  [Idle EXCEPT !.pc = "decrypted", !.in = i,
                               !.convs = [convs[p] EXCEPT ![k] = Decrypted(c, m)]]]
             /\ convs' = IF m.key \in c.staged
                         THEN [convs EXCEPT ![p][k] = WithStaged(@, m)]
                         ELSE convs
     /\ TakePreKey(p, m)
     /\ UNCHANGED <<served, keys, sent, accepted, rejected, crashes, reKeys>>

(* The raw row of a message that does not open is deleted.                 *)
Reject(p, i) ==
  LET m == sent[Other(p)][i]
  IN /\ Take(p, i)
     /\ \A k \in Tried(p, m) : ~MayOpen(p, k, m)
     /\ rejected' = [rejected EXCEPT ![p] = @ \union {i}]
     /\ TakePreKey(p, m)
     /\ UNCHANGED <<convs, served, keys, proc, sent, accepted, crashes, reKeys>>

(* The transaction of processMessageRaw.                                   *)
Commit(p) ==
  /\ proc[p].pc = "decrypted"
  /\ convs' = [convs EXCEPT ![p] = proc[p].convs]
  /\ accepted' = [accepted EXCEPT ![p] = @ \union {proc[p].in}]
  /\ proc' = [proc EXCEPT ![p] = Idle]
  /\ UNCHANGED <<preKeys, served, keys, sent, rejected, reordered, crashes, reKeys>>

(* The process dies within a command.  An envelope stays in receivedRaw    *)
(* and is retried.                                                         *)
Crash(p) ==
  /\ proc[p].pc # "idle"
  /\ crashes < MaxCrashes
  /\ crashes' = crashes + 1
  /\ proc' = [proc EXCEPT ![p] = Idle]
  /\ UNCHANGED <<convs, preKeys, served, keys, sent, accepted, rejected, reordered, reKeys>>

Next ==
  \E p \in Devices :
    \/ Setup(p) \/ Encrypt(p) \/ HandOver(p) \/ ReKey(p)
    \/ (\E i \in 1 .. MaxSends : Decrypt(p, i) \/ Reject(p, i))
    \/ Commit(p) \/ Crash(p)

Spec == Init /\ [][Next]_vars

-----------------------------------------------------------------------------
(* Properties.                                                             *)

(* No two messages are encrypted with the same key (and so the same IV),   *)
(* whichever device sent them, however the ratchets turned, were set up    *)
(* again or died in between.                                               *)
KeyUsedOnce ==
  \A p, q \in Devices : \A i \in DOMAIN sent[p], j \in DOMAIN sent[q] :
    sent[p][i].key = sent[q][j].key => p = q /\ i = j

(* What a context can decrypt: with a staged key or by its chain.          *)
Holds(c, key) ==
  key \in c.staged \/ (c.ckr # <<>> /\ key[1] = c.ckr /\ key[2] >= c.nr)

(* Forward secrecy: once a message is committed, its key is gone from all  *)
(* contexts of the receiver.  A copy of the message opens nothing.         *)
ConsumedKeyGone ==
  \A p \in Devices : \A i \in accepted[p], k \in PreKeyIds :
    ~Holds(convs[p][k], sent[Other(p)][i].key)

(* No message is lost to the ratchet: each one is decrypted, in whatever   *)
(* order it arrives, when one device set up the conversation, and in the   *)
(* order they were sent when both did.                                     *)
NothingRejected ==
  /\ crashes = 0 /\ reKeys = 0
  /\ ~reordered \/ \E p \in Devices : served[p] = 0
  => \A p \in Devices : rejected[p] = {}

(* When every message has arrived and both devices have sent, they use     *)
(* the same context.                                                       *)
Converged ==
  /\ crashes = 0 /\ reKeys = 0 /\ ~reordered
  /\ \A p \in Devices : proc[p].pc = "idle" /\ Waiting(p) = {} /\ sent[p] # <<>>
  => convs["a"][0].ctx = convs["b"][0].ctx

(* Whichever devices set up the conversation, and in whatever order the    *)
(* messages arrive, each one is decrypted.                                 *)
NothingLost ==
  crashes = 0 /\ reKeys = 0 => \A p \in Devices : rejected[p] = {}
=============================================================================
