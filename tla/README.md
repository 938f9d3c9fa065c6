# Silent Phone for Android: models and proofs

TLA+ models of the concurrent and crash-prone parts of Silent Phone's native
code, the TLC configurations that check them on small instances, and TLAPS
proofs of what holds for every instance. Paths below are relative to
`src/silentphone2/`; `axolotl/` stands for `support/axolotl/` (libzina) and
`tivi/` for `support/silentphone/` (the SIP engine), `zrtp/` for `support/zrtpcpp/`.

To repeat a check: `tlc -config RUN.cfg MODULE` with the run's name and module
from `PROJECT.json`; to repeat a proof: `tlapm M.tla` with M one of the modules
named `..._proofs`.

## 1. The system

Silent Phone carries end-to-end encrypted calls and messages. An envelope goes

    sender's app -> run queue -> ratchet -> SIP transport -> SIP engine -> server
    server -> SIP engine -> receiveMessage -> receivedRaw + run queue
           -> ratchet -> TempMsg -> receive callback of the app

| component | state it keeps | operations | correct when |
|---|---|---|---|
| receive pipeline (`axolotl/interfaceApp/ReceiveMessage.cpp`, `QueueHandling.cpp`, `storage/sqlite/InternalMessageQueues.cpp`) | `commandQueue`, tables `receivedRaw`, `TempMsg`, `MsgHash` | `receiveMessage`, `commandQueueHandler`, `processMessageRaw`, `processMessagePlain`, `retryReceivedMessages` | every acknowledged envelope is delivered or reported; a copy is dropped only if the first was handled; redelivery only through recovery |
| SQLite store (`axolotl/storage/sqlite`) | one connection for all threads, its open transaction and savepoints | `BEGIN`, `COMMIT`, `ROLLBACK`, statements | what the code calls "one DB transaction" is one |
| SIP transport (`axolotl/interfaceTransport/sip/SipTransport.cpp`) | `sendMessageList`, `runSend` | `sendAxoMessage`, `runSendQueue`, `stateReportAxo` | each queued message is handed over once, in order; each has one state report |
| session table (`tivi/tiviengine/CSessions.*`, `CPhone.cpp`) | one entry per running SIP request | `getNewSes`, `sendSipMsg`, `setStopReason`, `freeSes` | an entry is freed when its request ends, a request is reported once |
| double ratchet (`axolotl/ratchet`) | per device: root, chain and ratchet keys, staged keys, pre-keys, secondary contexts | `setupConversationAlice/Bob`, `encrypt`, `decrypt`, re-key | no key used twice, consumed keys gone, both ends derive the same keys in whatever order messages come |
| send pipeline (`axolotl/interfaceApp/SendMessage.cpp`) | `preparedMessages`, retention information | prepare, do-send, remove | every prepared message is sent once or removed |
| group updates (`axolotl/interfaceApp/GroupUpdateImpl.cpp`, `GroupInterfaceImpl.cpp`, vector clocks, wait-for-ack) | current and pending change sets, `updateInProgress`, clocks | collect, prepare, send, process, resolve | members converge; no update is stuck |
| pre-keys and provisioning | stored pre-keys, server's stock | generate, hand out, refill | one use per pre-key |
| data retention, application repository, name lookup, message capture | own tables, one cache | CRUD and HTTP | little control of their own |
| JNI glue, Java services | life cycle of the process | start, retry after start, callbacks | left-over rows are retried |
| SIP engine calls, media, TMR | call sessions, jitter buffers, relay sockets | signalling, codecs | signalling agrees with media |
| ZRTP engine and client glue (`support/zrtpcpp`) | state machine of 16 states, timers | packets, timeouts | both ends reach the same keys or both fail |
| user interface, contacts, vendored libraries | | | not this project's subject |

How they interact: the network thread of the SIP engine calls `receiveMessage`;
it and the application's threads append to `commandQueue` under
`commandQueueLock`; one command thread takes the entries and calls the ratchet,
the store, the transport and the application's callbacks. All of them share one
SQLite connection (`SQLiteStoreConv::getStore`). The command thread hands
messages to the send thread of `SipTransport`, which counts the free entries of
the session table before it hands a message to the engine; the engine's thread
reports the final response.

What is hard: statements of several threads in one another's transactions; the
process, which Android ends at will, dying between any two steps; retry of rows
that are queued already; failing statements whose error paths differ; messages
that arrive twice, late or out of order, with both sides setting up a
conversation at once; a condition variable tested under another lock than it is
notified under; few session entries shared with calls; change sets of a group that
are lost on the way to some devices and made at once on others; a key agreement
over UDP in which either side may take either role, with timers that fire late,
get lost or are called after they were cancelled. `PROJECT.json` lists each
such hazard at its line with the properties that watch it.

## 2. Modules

| module | models | built on |
|---|---|---|
| `SqliteConnection` | one connection: committed tables `disk`, tables as the connection sees them `db`, `tx` when a transaction or a savepoint is open | |
| `ZinaReceive` | the receive side of libzina | `SqliteConnection` |
| `ReceiveSharedStore` | the same with an application thread that runs group transactions on the connection | `ZinaReceive` |
| `ZinaReceive_proofs` | types, no silent drop, true receipts, paid redeliveries, the hand-over of raw rows; no acknowledged envelope lost | `ReceiveSharedStore` |
| `SipSessions` | the session table of the engine | |
| `SipTransport` | send queue, command thread and send thread on that table | `SipSessions` |
| `SipTransport_proofs` | inductive invariant, refinement and theorems | `SipTransport` |
| `Outbox` | abstract: queued messages are handed over once and in order | implemented by `SipTransport` |
| `ZinaRatchet` | two devices, the ratchet between them, crashes and re-keys | |
| `ZinaRatchet_proofs` | types, that no key is used twice, that no message is lost, that the devices come to use one context | `ZinaRatchet` |
| `ZinaRatchetSecrecy_proofs` | that the keys of consumed messages are gone | `ZinaRatchet_proofs` |
| `GroupUpdate` | how one device sends the updates of a group to the devices of its members | |
| `GroupUpdate_proofs` | types, that an update ends, that no device is forgotten when the name changes | `GroupUpdate` |
| `GroupAdd_proofs` | that no device is forgotten when members are added, and what collapsing tells it | `GroupUpdate_proofs` |
| `GroupAttribute` | one attribute of a group on all devices: vector clocks and the tie-break | |
| `GroupAttribute_proofs` | types, that no device goes back, and that all end with the same value | `GroupAttribute` |
| `MCZinaReceive`, `MCGroupUpdate`, `MCGroupAttribute` | the symmetry sets of the runs, and the part of the behaviours that a run looks at: `TrafficOrTroubles` for `ReceiveCrash`, `FailuresOrAge` for `GroupUpdate`, `FewOverlap` for `GroupAttribute`, `FewIds` for `GroupAttributeEqualClocks` | |
| `ZrtpState` | two ZRTP engines, the network, their timers and SRTP | |
| `ZrtpState_proofs` | types, that the keys agree and a sender is heard, why a negotiation fails, that never both wait | `ZrtpState` |

### ZinaReceive

Three threads and the operating system. The network thread runs
`receiveMessage`: `ReceiveInsert` (the INSERT), `ReceiveGetSequence` (the SELECT
on `sqlite_sequence`), `ReceiveEnqueue`. The command thread takes the head of
the queue, and `pc` says how far it is: the duplicate check and the decryption
are one step (no other thread changes what they read), then one step for each
statement of the transaction of `processMessageRaw` in its order (hash, staged
keys, conversation, `TempMsg`, raw row, COMMIT), the delivery receipt, the
callback and the deletion of the `TempMsg` row. Each statement may fail
(`StoreFails`, `CommitFails`, ...), and the error paths do what the code does:
errors before the transaction delete the raw row, errors in it keep it, and the
result of COMMIT is not looked at. An envelope that is rejected is deleted by a
statement that commits itself (`RejectEnvelope`), and the application is told in a
later step (`ReportRejected`, `ReportUndecryptable`): a death in between loses it
untold. The application thread runs
`retryReceivedMessages` in two reads. `Crash` loses queue, threads and open
transaction and keeps `disk`.

An envelope is its number in the sender's chain: the ratchet is reduced to the
receiving chain position `nr` and the staged keys, which is what decides whether
a left-over envelope can still be decrypted. Contents, addresses, time and the
wording of reports are left out. `acked`, `delivered`, `reported` and
`receipted` record what the outside has seen.

### ReceiveSharedStore

`insertMember`, `deleteMember` and `deleteAllMembers` run on application threads
and bracket their statements with BEGIN and COMMIT on the shared connection.
SQLite has one transaction per connection: an inner BEGIN fails, and the inner
COMMIT ends the outer transaction. The module adds that thread to every step of
`ZinaReceive`.

### SipSessions, SipTransport, Outbox

`sendAxoMessage` is four steps of the command thread (push, flag, notify,
unlock); `runSendQueue` is the send thread with the test of `runSend` and the
wait on the condition variable as separate steps, because they are not under the
lock the command thread holds. The session table gives out the first free entry
except the last one given out; an entry remembers whether its stop reason was
told. `Outbox` is what the caller of `sendAxoMessage` may rely on; the
refinement maps `waiting` to the list without the head that is already handed
over but not yet popped.

### ZinaRatchet

Keys are symbolic: a DH key is its owner and a number, a root or chain key is
the sequence of agreements it was derived from, a message key is a chain and a
position. So equality of keys in the model is equality of derivations in the
code, under the usual assumption that key derivation has no collisions.
`Setup`, `Encrypt`, `HandOver`, `Decrypt`, `Reject`, `Commit`, `ReKey` and
`Crash` follow `sendMessageNewUser`, `sendMessageExisting`,
`ZinaRatchet::decrypt` with `decryptInternal`, and `reKeyDeviceCommand`. Device
`a` has the greater identity key and so wins a collision; the loser's set-up
goes into a secondary context filed by its pre-key. A crash keeps what was
stored before the transaction: a deleted staged key and a removed pre-key.
`reordered` remembers whether a message was taken before an earlier one, so that
one run covers ordered and unordered arrival.

### GroupUpdate

The sender's side in full. The application edits `current`, the change set in memory
(`SetGroupName`, `AddUser`, ...); a message to the group prepares it
(`PrepareChangeSetSend`: random update id, clocks, the store changed at once), creates
the change set of each device in turn (`CreateChangeSetDevice`), and ends the update
(`GroupUpdateSendDone`: `current` becomes `pending`). For each part a device is sent
the store keeps a wait-for-ack record (`rows`), which replaces the older one of the
same part. What a device still owes of `pending` is collapsed into `current` on the
way, and so reaches the devices after it as well. The other devices apply and
acknowledge what they get; messages overtake each other and are lost. Before the
acknowledgements of a message are processed, of this group or of another one, the
records that are older than a month go, whatever they wait for (`CleanWaitAck` in
`ProcessAck` and `ProcessOtherAcks`); the model does not count days, but takes away
any number of the oldest records. `expired` remembers for which devices and parts that
happened. A sibling's leaving (`ProcessLeaveGroup`), the death of the process and an
SQL error while preparing (`PrepareFails`) come at any step. A message to one member
or to one device (`sendGroupMessageToMember`) takes the same path.

Parts of a change set are `name`, `add` and `rm`; avatar and burn time have the
code of the name. The update id is the number of the send. A device that gets an
update keeps the later name, which is the higher number since only this device
changes it; changes on several devices are the subject of `GroupAttribute`.
Records that the code never finds are modelled as never found: the statement of
`hasWaitAckGroupDevice` looks for an update id where a device id is bound, and
the pending change set is filed under another key than it is removed by.

### GroupAttribute

All devices of a group, each with value, clock and update id of one attribute, and
with two threads: the application's, which changes, and the command thread, which
receives. What they do with the value and the clock, two rows of the store, is one
step for each read or write, because no lock and no transaction spans them; `job`
has what a thread holds in hand. A change reads and increments the clock (`Change`),
stores it (`StoreChangedClock`), sets the value (`SetChangedName`) and is sent
(`SendChange`). A change set that arrives (`Receive`) is compared with the stored
clock by `VectorClock::compare` and `resolveConflict` (greater sum of the clock, then
greater update id), and refused (`Refuse`) or accepted (`Accept`, `SetAcceptedName`,
`StoreAcceptedClock`). `ReadMetaData` and `SendMetaData` are `addMissingMetaData` for
new members and devices (own clock, new update id), `DeleteClocks` and `DeleteGroup`
the leaving of a group. A change set with members makes a device that has left a
member again. Update ids are random, so a change takes any unused one. `overlapped`
remembers the devices where a change and an update that was accepted have been
between reading the clock and their last write together (`Overlap`).

### ZrtpState

Two engines with the states of `ZrtpStateClass`, one handler per action, and the
network as the set of packets in flight: a packet may be received again until it
is lost. A packet carries what decides a handler: the version of a Hello, the
keys that protect a Confirm. Keys are named by the device whose Commit they come
from; device 2 has the greater `hvi`. `recv` and `send` are the SRTP contexts
that `CtZrtpStream::srtpSecretsReady` and `srtpSecretsOff` switch. Where the code
sends a packet before it switches SRTP on, Conf2Ack always and Confirm2 in
multi-stream mode, the switch is a step of its own (`SwitchBoth`, `SwitchReceiver`),
and the engine is `switching` in between: it holds its lock, so that timers and
further packets wait. The peer does not. A timer is a
request in the list of `TiviTimeoutProvider`; `armed` counts the engine's
requests, and `due` is one that `Event` has taken from the list and not yet
called, so that a cancellation comes too late. `departures` counts what happens
besides the plain run of the protocol: the application stops a stream, a timer
has used up its retries, is called late, or is not entered in the list.

## 3. Runs

Deadlock is not checked: every bounded run ends where its bounds are used up.

| run | bounds | shows |
|---|---|---|
| `ReceiveCrash` | 4 envelopes (one malformed, one refused), 1 retry per life, 1 failing statement and 2 deaths with one receive, one of them with 2 receives, fair | `TypeOK`, `DuplicateMeansHandled`, `DeliveryPaid`, `ReceiptIsTruthful`, `RawHandover`, `LeftOverHandled` |
| `SharedAcked` | 4 envelopes (one malformed, one refused), 2 receives, 1 failing statement, 1 death, 2 group transactions, fair | `AckedQueued`, `AckedHandled` |
| `SipSend` | 3 messages, 3 entries of which 2 stay free, 1 other request, 1 spurious wake-up, fair | `TypeOK`, `ReportedOnce`, `LeftOverIsFlagged`, `BoxSpec`, `ActiveDrains`, `EachReported` |
| `Ratchet` | both may set up, any order of arrival, 2 pre-keys, 3 messages each way, 1 death, 1 re-key | `TypeOK`, `KeyUsedOnce`, `ConsumedKeyGone`, `NothingRejected`, `Converged` |
| `Zrtp` | DH and multi-stream mode, versions {1}, {2}, {1, 2}, at most one variation from the plain run, any number of losses, repetitions and resends, fair | `TypeOK`, `KeysAgree`, `SenderHeard`, `FailureExplained`, `SomeoneResends`, `Agreement` |
| `GroupUpdate` | 2 devices, 1 user who comes and goes, 2 edits, 3 messages in any order, 2 of: loss, death, leaving, SQL error, or a deletion of old records and a loss | `TypeOK`, `NameAwaited`, `AddAwaited`, `UpdateEnds`, `NameSettled`, `CollapseTells` |
| `GroupAttribute` | 3 devices with 2 threads each, 4 events (changes, resends, leavings): 3 in any interleaving of their steps, or 4 one after the other | `TypeOK`, `Converged`, `LatestWins`, `NeverBack` |

Runs that end in a counterexample, each against a statement of the code's own
comments (section 5): `ReceiveRawLost`, `SharedAtomic`, `SipSendStuck`,
`RatchetLateSetup`, `GroupAttributeEqualClocks`.

Why the bounds are enough. Two received envelopes are a copy (the same one twice),
a reordering (a later one first, so that a key is staged), or a second envelope that
is inserted while the first is in its transaction; of the four to choose from one is
malformed and one refused. `ReceiveCrash` combines two arrivals with one trouble, a
failing statement or a death, and one arrival with a failing statement and two
deaths, so that one of them comes during the recovery from the other
(`TrafficOrTroubles`: arrivals and troubles are not fair, so what is left out cuts no
fair behaviour short). One failing statement can be any of
them; two independent failures in one envelope end on the same error paths.
`DuplicateMeansHandled`, `DeliveryPaid`, `ReceiptIsTruthful`, `AckedQueued` and the
types are proved for all bounds, with any number of envelopes, deaths, retries and
failing statements together, and so are the safety properties of `SipSend` and its
refinement. In `SipSend`
three entries with two kept free leave one for messages, so that sending stops
and goes on, and another request takes an entry in between; three messages make
an order visible. In the ratchet three messages each way allow a turn of the
ratchet with skipped keys in the old and in the current chain, and two pre-keys
a set-up from each side and one after a re-key.

Two devices of the members are what the collapse needs: the one that missed a part,
and a later one that gets the collapsed set although it missed nothing. Three messages
are the lost one, the one that collapses it, and one more after it; `CollapseTells` is
stated for one loss, because a part that is lost twice is filed without an update id
the second time and no longer found. Old records are dropped once, without another
trouble than one lost message (`FailuresOrAge`): a record that is gone is what
matters, and a later drop takes away what was written since. Three devices with four
changes give two concurrent changes, a third made in knowledge of one of them, and a
fourth that dominates all; those come one after the other, while up to three events
have their steps in any interleaving (`FewOverlap`): a change and an update that meet
on one device, and a third event to see the damage. In `Zrtp` the number of packets
has no bound; variations are limited to one because two of them (say a lost timer
request and a stop) explain each other's outcome.

`DeliveryPaid` bounds redeliveries by the retries and the failed statements. It
is not checked with a group transaction: with a retry and a failed statement it
fails there, because the foreign COMMIT or ROLLBACK undoes part of what the
retry relies on (four deliveries for one retry and one failed statement).

Every property of a passing run has a mutant in `PROJECT.json`: a definition
changed as a plausible bug would, with which TLC finds the property violated.
The mutated forms stand in the modules before the definition they replace.

### Fairness

Only temporal properties use it. `ZinaReceive!FairSpec`: weak fairness of the
command thread (an endless loop on a queue with a condition variable), of the
two last steps of `receiveMessage`, and of the retry, which the Java service
runs once after each start. Failing statements, deaths and the arrival of
envelopes are not fair. The command thread's fairness is of the thread as a
whole: no single branch is forced. `SipTransport!FairSpec`: weak fairness of
both threads and of the end of a message or of another request, which the
engine's timers guarantee. Spurious wake-ups are not fair, so no liveness
property leans on them. `ZrtpState!FairSpec`: strong fairness of the steps that
take an engine on and of those that answer a repeated packet, because a packet
that is sent again and again arrives; weak fairness of the timers, which belong
to a thread of their own, and of the end of a call that has sent its packet
(`Switch`), which nothing blocks. No fairness of `Start`, `Stop`, a loss or the
departures. `Agreement` therefore speaks of two started devices and lists the
departures that may end a negotiation.

`AckedQueued` and `AckedHandled` speak of the life of one process: a row that was
acknowledged inside the command thread's transaction may be on no disk when the
process dies (finding 1), and `LeftOverHandled` says what recovery brings back.
`RawHandover` and `LeftOverHandled` end with the first failed statement, after which
a row may be deleted for another envelope (finding 1 again). Both have one exception
before it: an envelope that is being rejected (`Rejecting`), whose row is deleted
and whose report is still to come. `RawHandover` says that only a death ends it
without the report.

## 4. Proofs

`ZinaReceive_proofs`, for every number of envelopes, receives, retries, checks,
failing statements and deaths, from `MsgsAssumption` (there is an envelope, and
the malformed and refused ones are envelopes):

* `TypeCorrect`: `Spec => []TypeOK`.
* `NoSilentDrop`: `Spec => []DuplicateMeansHandled`.
* `ReceiptsAreTruthful`: `Spec => []ReceiptIsTruthful`.
* `AckedIsQueued`: `Spec => []AckedQueued`, and `AckedIsQueuedShared`:
  `SharedSpec => []AckedQueued`, with group transactions of any number on the connection.
* `DeliveriesPaid`: `Spec => []DeliveryPaid`.
* `RawHandedOver`: `Spec => RawHandover`.

`DuplicateMeansHandled` is not inductive: it speaks of the committed tables,
while the steps change the connection's, and a `TempMsg` row may be deleted by
any queue entry that holds its sequence number. The invariant `IInv` adds

* `HeadInv`: only raw and temp entries take more than one step, so `pc` tells
  what is at the head of the queue;
* `TxInv`: outside a transaction `db` is `disk`, and the command thread is in one
  from BEGIN to COMMIT;
* `HashInv`: `DuplicateMeansHandled` for `db`, with the exception of the message
  between its hash and its plain text. The exception is why the COMMIT must come
  after the plain text, and `TxInv` why nothing else commits before;
* `RowsInv`: sequence numbers of `TempMsg` rows identify them, although a rollback
  sets the counter back;
* `RefsInv`: whoever holds a sequence number of a `TempMsg` row (queue entry,
  retry list, command thread) and will delete it either holds it for the row's
  own message, or that message has been handled or is in hand. After a rollback a
  number is given out again, so "its own row" alone would be false.

`TypeStep` proves types and `HeadInv` for each of the 33 actions, `InvStep` the
rest; both have one step per action. Steps that touch neither tables nor their
readers go through `NeutralStep`; what a pop, an append or a jump of the command
thread leaves true is stated once (`PopStays`, `AppendStays`, `GotoStays`).
The theorems below build on `IInv`, each with an invariant of its own that has
one step per action again:

* `ToldInv`, for `ReceiptsAreTruthful` and `AckedIsQueued`. A receipt is queued
  before the callback is called and sent after it, so `ReceiptInv` speaks of the
  entries in the queue: their plain text is `Kept`, or is in hand. It stays kept
  through a death because rows differ between `db` and `disk` for two reasons only:
  the application has the message (`GoneInv`), or it is in hand and about to be
  committed (`NewInv`). `WaitInv` is `AckedQueued` over the queue as a set; that an
  envelope taken for a duplicate was handled follows in the first life of the
  process from `FirstLifeInv`: no row outlives its processing. `ListInv`: the list of
  a retry contains entries for plain texts only.
* `PaidInv`, for `DeliveriesPaid`: the deliveries made and those still to come from
  queue entries, the retry's list and the command thread (`Load`) are never more
  than the retries, the failed statements and one for a committed hash (`Paid`). The
  property counts deliveries alone and is not inductive. Lemmas `Temps...` count
  entries of a sequence. `TablesInv` says that a retry adds one entry per message
  (`OneRowInv`), that a plain text has its hash (`HashedInv`), and that the envelope
  in process is new (`FreshInv`), so that its delivery is the free one.
* `RawInv`, for `RawHandedOver`, while no statement has failed: a number that somebody
  holds for an envelope is the number of no other row (`NumbersInv`), the command
  thread never rolls back, and the only row its transaction has removed is that of
  the envelope whose plain text it commits with it (`RawTxInv`). `RejectionStep`:
  from the delete of a rejected envelope the command thread goes on to the report
  alone. With a failed statement it is false: `ReceiveRawLost` is the counterexample.

Of `ReceiveSharedStore` the parts about transactions do not hold: run `SharedAtomic`
shows `DuplicateMeansHandled` false there. `SharedInv`, for `AckedIsQueuedShared`, does
without them: in the first life of the process every hash, committed or not, is of a
message that the application was told of or that the command thread is about to tell
(`HashedFirst`), whoever ends the transaction.

`SipTransport_proofs`, for every number of messages, table entries, other
requests and spurious wake-ups, from `SessionsAssumption` (the table has an entry)
and `TransportAssumption`:

* `TypeCorrect`: `Spec => []TypeOK`.
* `OneReport`: `Spec => []ReportedOnce`.
* `NothingForgotten`: `Spec => []LeftOverIsFlagged`.
* `QueueIsOutbox`: `Spec => BoxSpec`, the send queue implements `Outbox`.

Its invariant `IInv` adds to these

* `LockInv`: the command thread and the send thread are never both inside
  `sendListLock`, and a thread that is past setting `runSend` finds it set. That
  makes `LeftOverIsFlagged` inductive;
* `OrderInv`: messages carry the numbers in which they are queued, so `handed` is
  1 to its length and the list without its head in hand is the rest up to
  `queued`. Order and "once" of the refinement are then arithmetic;
* `EntryInv`: a message is in one entry at most, and in none that has not told it
  once a report is about it;
* `IdInv`: the same for identifiers, which lag one message behind between
  `SendSipMsg` and `SetMsgId` (`Named`), while a refused message is in no entry
  (`Taken`);
* `ReportInv`: reports are about messages that left the list. The next message
  is therefore new to the table and to the reports.

`PushKeeps` and `TakeKeeps` treat the two steps that move messages and prove them
steps of the outbox; `SendKeeps`, `NameKeeps`, `RefusedKeeps`, `TellKeeps` and
`OtherKeeps` treat the table and the reports. That the queue empties
(`ActiveDrains`) and that each message is reported at all (`EachReported`) stays
with TLC.

`GroupAttribute_proofs`, for any number of devices and events, from
`GroupAttributeAssumption`:

* `TypeCorrect`: `Spec => []TypeOK`.
* `NoDeviceGoesBack`: `Spec => NeverBack`. `ClockInv`: what a thread of an orderly
  device is about to store is not before what the device has. For a change that is
  `IncrementedIsLater`, for an update `AcceptsNothingOlder`: what `Accepts` lets
  through is after the stored clock or concurrent to it, and domination is
  antisymmetric on clocks. While one thread is about to store, the other one stores
  nothing, or the device is overlapped.
* `Converges`: `Spec => []Converged`, and `LatestWinsEverywhere`:
  `Spec => []LatestWins`. `ChangesInv`, for a group in which nobody joined or left,
  has three parts. `SentInv` and `WorkInv`: what was sent, and what the threads of
  any device have in hand, are changes with ids of their own. `OrderlyInv`: what an
  orderly device shows is one of the changes made (`ShowsOf`), and is an upper bound
  of those it made or received (`BoundsOf`): no change of them has a greater sum of
  its clock, and among those with the same sum it has the greatest id. When all have
  received everything the upper bound is the same one everywhere. That needs
  clocks and their sums to grow together (`SumsGrow`). The library defines the sum by
  a recursion over the subsets of a finite set; instead of an induction theorem
  `AllSubsets` takes a smallest subset for which the statement fails. Two changes with
  one clock are excluded, `ClocksDiffer`, because `Converged` is false with them: see
  finding 5. Overlapped devices are excluded, `Orderly`, because it is false of them;
  what they send is not.

`GroupUpdate_proofs`, for any devices, users and bounds, from
`GroupUpdateAssumption` and `NoSetAssumption`:

* `TypeCorrect`: `Spec => []TypeOK`.
* `EveryUpdateEnds`: `Spec => []UpdateEnds`. `RunInv` says where
  `updateInProgress` can be set: while the application sends, after an error, or
  when the group has gone.
* `NobodyForgotten`: `Spec => []NameAwaited`. The record that makes a device
  waited for can be removed by an acknowledgement or by its age. The second is the
  exception `Expired` of the property, which lasts until a new record is written
  (`RecordsGo`); for the first the invariant has to say which acknowledgements can
  come. `IInv` adds, for a `Regular` group,
  - `StampInv`: while a change set is sent, its name is the stored one under the
    present update id;
  - `NamesInv`: no change set, message or device has a later name than the store;
  - `IdsInv`: a device that is yet to be sent to has seen earlier update ids
    only, so what is on its way to or from it answers no record it is given next;
  - `AnswerInv`: a message or acknowledgement that answers a record in the store
    is about the stored name, or the device is sent the name later;
  - `WaitInv`: the property itself, with the devices still to be sent to.

  Messages overtake each other: none of this depends on their order.
  `LeftInv` (the devices left are none while the thread idles) needs no
  `Regular`. Each action has its lemma; `RegularStep` is about steps that start
  `Regular` and end so, since a group once irregular stays so.

* `EveryNameSettles`: `Spec => []NameSettled`. `SettleInv`: while nothing is lost,
  each record of a name is answered by a message on its way to the device or by
  an acknowledgement on its way back.

`GroupAdd_proofs`, from the same assumptions:

* `NoMemberForgotten`: `Spec => []AddAwaited`. The argument is that of the name,
  about sets instead of one value. `ListInv`: a change set that is sent with the
  id of its update names all members. Additions that are collapsed into a change
  set without any get no id, so that their acknowledgements match no record:
  the device stays waited for, which is safe. `RemovedInv`: who is removed
  somewhere was removed here, so a late message takes no member away that counts.
* `NextSetTells`: `Spec => CollapseTells`. `Heard(d)`: while nothing was lost, what
  `d` does not know is on its way. `Safe(d)`, unless a record of `d` was dropped by
  its age: while nothing was lost, whatever one message tells `d` is told by another
  message too, or is in an open record that the next change set collapses; after one
  loss, it is told or open. `FullInv`: a change set with additions of its own names
  all members, so that it makes up for what was dropped before.
  `CollapsedInv` (a device that has been sent this update has no open record of
  the pending set) lets the current set become the pending one. A second loss is
  beyond the invariant, and the property: the collapsed additions have no id.

`ZrtpState_proofs`, from `ZrtpAssumption`, for any configuration, any number of
losses, repetitions, resends and departures (the run allows one variation):

* `TypeCorrect`: `Spec => []TypeOK`.
* `KeysAgreed`: `Spec => []KeysAgree`, and `SendersHeard`: `Spec => []SenderHeard`.
  What one device may conclude from a packet is a fact about the other one, which must
  still hold when the packet arrives late or again. `SentBy` says it of packets in
  flight and of the packet an engine keeps for resending: whoever sent a Confirm2 has
  its own keys to receive with, whoever sent a Conf2Ack is ready with the peer's, or
  is inside the call that makes it so, from then on, or is gone (`StaysReady`).
  `KeysOf` gives the keys in each state; `PeerReady` draws the conclusion for an
  engine that sends, also when media stand for the Conf2Ack.
* `FailuresExplained`: `Spec => []FailureExplained`. `Offered`: a device goes down
  to a version only after a Hello of the peer with it, so an Error is sent only
  without a common version (`Said`). `Said` also makes a Confirm1 with the wrong
  key impossible, the other source of errors. `Timely`: while no timer strays
  there is at most one, in a state that resends, so none comes unexpected.

* `NeverBothWait`: `Spec => []SomeoneResends`. The property is about one moment; the
  invariant, `Roles`, says why it stays so. `Waits`: an engine in a state without a
  timer has a peer in a state with one (who answers a Commit waits for a leading
  peer, who has the HelloAck waits for one that is past its discovery). That it
  holds after the next packet depends on old packets, which may still come again:
  `Tells` says what each packet in flight implies about both engines, above all
  that a Commit that could still be answered is that of the device that leads, also
  after both have sent one. `Memory` gives the packet of each state, so that a
  resent one tells the same. `Ticks`: an engine in a resending state has a request
  in the list or taken off it. All but `Memory` is claimed only while nothing lapsed
  (`Regular`: no stop, no used-up retries, no lost request), as the property does;
  strayed timers are included.

`AdvanceKeeps`, `ConfirmKeeps`, `RepeatKeeps` and `LeaveKeeps` treat the four kinds
of steps for the first four theorems, `MoveKeeps`, `SameKeeps` and `LapseKeeps` those
for the last; each action has a lemma that finds its kind.

`ZinaRatchet_proofs`, from `RatchetAssumption`, for any numbers of pre-keys,
messages, deaths of the processes and re-keys:

* `TypeCorrect`: `Spec => []TypeOK`.
* `KeysOnce`: `Spec => []KeyUsedOnce`. The property alone says nothing of a chain
  that is about to be used, so the invariant speaks of all sending chains of a
  device, those in its messages and in its contexts, stored or being worked on:
  - `ConvInv`, `MsgInv`: whatever key they hold was generated (`Known`), and A0 is
    a key of the device's own and no pre-key;
  - `Ahead`: the number of a used key is below `ns` if its chain is still in use;
  - `ChainOk`: a chain of one agreement is that of a device that was set up with
    one of its pre-keys, and that pre-key is gone (`BobChain`), so that no second
    set-up makes the chain again. A longer chain ends in an agreement with a key
    that was generated for it, which makes it new;
  - `Apart`: no chain is a sending chain of both devices.
  `InRange` (what is decrypted and not committed was sent) closes the types.
  `StepKeeps` and `QuietStep` reduce each action to what it does to one device.

* `NoneRejected`: `Spec => []NothingRejected`, and `Converge`: `Spec => []Converged`.
  Both are about the end of a conversation; the invariant, `Flow`, says for each
  message under way why its receiver will open it. Like the properties it is
  claimed without deaths and re-keys and, when both devices have set up, without
  reordering (`Calm`). It is about the contexts as the thread is about to commit
  them (`Contexts`), so that a commit changes nothing. The devices are in one of
  two phases:
  - `Separated`: each device is `Blank` or has only its own set-up (`Alone`);
  - `Joined`: the primary contexts are a `Link`. One of the devices leads, that is
    the next turn of the ratchet is its own, or it has turned and the other has
    not heard (`Heard`, `Unheard`). Each message under way is `OpenTo` its receiver:
    its key is staged, or its number is not below the position in the current
    chain, or it is of the chain before the turn and below its length.

  When both have set up, the message of `a` prevails, and those that `b` sent with
  its own set-up (`Lost`) are opened by `a` in a secondary context, of which `Side`
  speaks; they must arrive before what `b` sends later, and `SetupsFirst` says they
  are sent first. That a message in the current chain is below `ns`, and that no
  other one has its key, comes from the invariant of `KeysOnce`. `Converged` follows
  as a message of each device has arrived, which ends `Separated`.

`ZinaRatchetSecrecy_proofs`, from the same assumption and the invariant of `KeysOnce`:

* `ConsumedKeysGone`: `Spec => []ConsumedKeyGone`. `TableInv` is about the contexts
  of a receiver and a set of spent keys; it is stated of the stored contexts with
  the keys of accepted messages and, between decryption and commit, of the
  contexts about to be stored with the key of the message in hand added. Each
  spent or staged key is `Behind` every context: below `nr` in the receiving chain,
  and in no chain longer than the root it shares the first agreement with.
  `RootsInv`: the contexts of a device have different first agreements, all `Old`,
  so that a new set-up starts with one that no spent key comes from; `Separate`
  keeps a staged key out of other contexts. `SetUp`, `Forget`, `Lengthen`,
  `Unstage` and `ChainStep` are the ways a context changes.

Every invariant and every action property without fairness that a passing run
checks is the statement of a theorem. Only model-checked is what needs fairness
(`AckedHandled`, `LeftOverHandled`, `ActiveDrains`, `EachReported`, `Agreement`):
liveness and ENABLED are out of the prover's reach. So
are the induction theorems of the library, which take an operator; the one
recursive definition that a theorem depends on, the sum of a clock, was reached by a
smallest counterexample. The modules declare no RECURSIVE operator.

## 5. Findings

1. `ReceiveRawLost`: `receiveMessage` answers OK while its row is part of the
   command thread's open transaction. A rollback takes the row back, and the table's
   counter with it; the next envelope gets the same number, and its row is deleted
   with the entry of the first one, though nobody has processed it. If the process
   dies then, the envelope is in no table.
2. `SharedAtomic`: the COMMIT of a member change splits the transaction of
   `processMessageRaw`; a death in between makes the retry drop an unseen message
   as a duplicate.
3. `SipSendStuck`: `runSend` is tested under `runLock` and notified under
   `sendListLock`; a notification is lost and a message waits for the next one.
4. `RatchetLateSetup`: a set-up message of the loser of a collision that arrives
   after the winner cleared A0 resets the winner's context.
5. `GroupAttributeEqualClocks`: a device that accepts a value replaces its clock and
   does not merge the two, so that it forgets changes of its own and may use their
   clock again for another value. A device that shows the one answers the other
   with REJECTED_NOP, for equal data, and the group keeps two names. It takes
   three devices and six changes, whose clocks have equal sums where the update
   ids decide.

Smaller observations met on the way, without a run: `getSequenceNumber` reads the
table's counter, not the number of the row inserted (`InternalMessageQueues.cpp:57`);
the run queue's `CheckForRetry` does nothing, and `insertRetryCommand` has no caller
(`QueueHandling.cpp:155` and `:177`, left out of the model); the session learns the
identifier of its message after the message is sent (`t_a_main.cpp:4018`, action
`NameSession`), so a fast response is reported with identifier 0;
`trySkippedMessageKeys` deletes a staged key, and `setupConversationBob` a pre-key,
before the transaction that consumes the envelope (`ZinaRatchet.cpp:452`,
`ZinaPreKeyConnector.cpp:182`), so that a left-over envelope is rejected.

Of the groups:

* A message to one member ends the update for all: `sendGroupMessageToMember` calls
  `groupUpdateSendDone` (`GroupInterfaceImpl.cpp:341`) although the other devices
  were not sent the change set and no record waits for them. The properties of
  `GroupUpdate` are stated without such a message (`Regular`).
* An SQL error while a change set is prepared (`GroupUpdateImpl.cpp:743`), or the
  leaving of the group between preparing and sending, leaves `updateInProgress` set
  for all groups; `groupUpdateSendDone` of another thread ends an update early.
* An empty change set makes `createChangeSetDevice` take a mutex it holds
  (`GroupUpdateImpl.cpp:843`); state `hung`.
* `hasWaitAckGroupDevice` never finds a record, so a change set is not sent again
  without a new one; the pending change set is never removed by acknowledgements.
* A collapse adds the removals of the pending change set without a look at the list
  of additions, though the comment at `GroupUpdateImpl.cpp:884` says that it looks.
* A resend to new members carries an earlier clock under a new update id. After it
  two devices can reach equal clocks with different values even without finding 5; a
  device that leaves and joins again reuses clock values. `Converged` and
  `LatestWins` are stated without either.
* A change and an update that meet on one device overwrite each other: clock and
  value are read and written one by one, on the application thread
  (`GroupUpdateImpl.cpp:374`, `:411`, `:758`) and on the command thread
  (`GroupInterfaceImpl.cpp:713` to `:743`). The device may keep the loser, or the value
  of one with the clock of the other, and no later message corrects it. `Converged`
  without the exclusion of overlapped devices is violated by it. A change that
  dominates all others may be lost there, too, once a count has gone back (finding 5):
  with the clocks c = {e:1, f:1} on the device d, which increments it to
  {d:1, e:1, f:1} while {d:1, e:1} is accepted for its id, the later store replaces
  the change.
* Wait-for-ack records are deleted after a month whether or not the device has
  acknowledged (`GroupInterfaceImpl.cpp:656`): who was offline for longer is not told
  again what it missed of a name, until the next change of it. `NameAwaited`,
  `AddAwaited` and `CollapseTells` have this exception, and are violated without it.
* A group hello records the burn time as `SET_AVATAR` (`GroupUpdateImpl.cpp:1081`); a
  member whose devices cannot be looked up is left out without a record
  (`SendMessage.cpp:311`).

Of the receive pipeline: a rejected envelope is deleted (`ReceiveMessage.cpp:404`) before
it is reported (`:419`), so a death in between leaves nobody who knows of it.

Of ZRTP: the responder sends Conf2Ack (`ZrtpStateClass.cpp:1189`) before it switches
SRTP on (`:1193`), and in multi-stream mode the initiator Confirm2 (`:920`) before its
receiver (`:931`): a peer is secure, and sends, a moment before it is heard. The
thread in between is the one that takes up media packets, which wait for it;
`SenderHeard` is violated without that exception. `TiviTimeoutProvider` loses a
request due in the millisecond of the last one in its list (`DropRequest`), after
which a negotiation can stall although `ZrtpStateClass.cpp:392` counts on the timer; a
timer called after its cancellation fails the negotiation in states that have no use
for it (`NothingToSend`).

## 6. Not modelled

The media engine, codecs and primitives (data, no control a model checker says
something about); the application's screens, contacts and repository; HTTP
provisioning and attachments (pure I/O with one request at a time); name lookup and
message capture; the retry loop of data retention; the TMR client; vendored libraries,
which are most of the repository's lines. Within modelled parts: message contents,
time (the age limits of hashes and staged keys; that of wait-for-ack records is a
choice), SQL results that the code ignores in `createChangeSetDevice`,
`prepareChangeSetSend` and where it inserts a new group, the device-change commands of
the run queue, version negotiation of the ratchet, the second account that may carry a
message, calls in the session table beyond the entry they take; several groups or
application threads at once, the removal of members as a property (it does not hold,
see above), receipts and burning in groups; in ZRTP the choice of algorithms, cached
secrets, errors while a packet is prepared, the SAS relay, GoClear, the ping and SDES.

## 7. Plan

Done: receive pipeline, transport and session table, ratchet, group updates and
attributes, ZRTP, each with its proofs. What is left, in this order:

1. `ZinaSend`: prepare, do-send, remove and retention information over
   `SqliteConnection`, composed with the ratchet's chain so that a rollback by
   another thread shows as a key used twice.
2. Two groups and two application threads in `GroupUpdate`, for the flag and the
   update id they share.
3. The retry loop of data retention, the TMR client.
