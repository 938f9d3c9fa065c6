---------------------------- MODULE GroupUpdate ----------------------------
(***************************************************************************)
(* How one device sends the updates of a group (GroupUpdateImpl,           *)
(* GroupInterfaceImpl, GroupWaitForAck): the application collects a change *)
(* set, a message to the group takes it to each device of the members, the *)
(* store keeps a wait-for-ack record for each part a device was sent, and  *)
(* the parts a device has not acknowledged are collapsed into the next     *)
(* change set.  The other devices and the network, which loses messages,   *)
(* are part of the module.                                                 *)
(*                                                                         *)
(* One group, its name (avatar and burn time go the same way), and         *)
(* additions and removals of members.  The devices belong to members who   *)
(* stay; the users come and go, and their own devices are left out.  One   *)
(* application thread edits and sends; the command thread processes        *)
(* acknowledgements and the leaving of a sibling.                          *)
(***************************************************************************)
EXTENDS Integers, FiniteSets

CONSTANTS
  Devices,        \* known devices of the other members
  Users,          \* users who are added and removed
  NoSet,          \* no change set
  MaxEdits,       \* bound: edits of the change set
  MaxSends,       \* bound: messages to the group
  MaxLosses,      \* bound: messages that are lost
  MaxFailures     \* bound: lost messages, deaths of the process, leavings,
                  \* SQL errors, and times that old records are dropped

ASSUME GroupUpdateAssumption ==
  /\ {MaxEdits, MaxSends, MaxLosses, MaxFailures} \subseteq Nat
  /\ \A d \in Devices : d \notin Nat   \* a device id is no update id

VARIABLES
  group,       \* "joined", "gone", or "alone" when made anew without members
  name, members,   \* the group in the store
  rows,        \* the wait-for-ack records
  pending,     \* the change set that was sent last
  current,     \* the change set the application works on
  inProgress, updateId,   \* updateInProgress, updateIdGlobal
  app,         \* the application thread
  net,         \* messages on their way to each device, which overtake each other
  dev,         \* what the other devices know of the group
  acks,        \* acknowledgements on their way
  removed,     \* users who were removed at some time
  expired,     \* devices and parts whose record was dropped by its age
  partial,     \* a change set went out with a message to one member only
  edits, sends, losses, crashes, leaves, errors, cleanings

counts == <<edits, sends, losses, crashes, leaves, errors, cleanings>>
store == <<group, name, members, rows, pending>>
update == <<current, inProgress, updateId>>
ghosts == <<removed, expired, partial>>
vars == <<store, update, app, net, dev, acks, ghosts, counts>>

(* A part of a change set is absent, or has the update id it was stamped   *)
(* with: 0 stands for no id.                                               *)
Absent == -1
Ids == Absent .. MaxSends
Names == 0 .. MaxEdits
ChangeSet == [name : Names, nameId : Ids, add : SUBSET Users, addId : Ids,
              rm : SUBSET Users, rmId : Ids]
ASSUME NoSetAssumption == NoSet \notin ChangeSet

EmptySet == [name |-> 0, nameId |-> Absent, add |-> {}, addId |-> Absent,
             rm |-> {}, rmId |-> Absent]
Parts == {"name", "add", "rm"}
Ack == [dev : Devices, part : Parts, id : 0 .. MaxSends]

(* Where the application thread is in sendGroupMessage, and the devices it *)
(* has yet to write to; "hung" waits for a mutex the thread holds itself.  *)
App == [pc : {"idle", "prepared", "sending", "hung"}, left : SUBSET Devices]
Idle == [pc |-> "idle", left |-> {}]

TypeOK ==
  /\ group \in {"joined", "gone", "alone"} /\ name \in Names /\ members \subseteq Users
  /\ rows \subseteq Ack
  /\ pending \in ChangeSet \union {NoSet}
  /\ current \in ChangeSet \union {NoSet}
  /\ inProgress \in BOOLEAN /\ updateId \in 0 .. MaxSends
  /\ app \in App
  /\ net \in [Devices -> SUBSET ChangeSet]
  /\ dev \in [Devices -> [name : Names, members : SUBSET Users]]
  /\ acks \subseteq Ack
  /\ removed \subseteq Users /\ expired \subseteq [dev : Devices, part : Parts]
  /\ partial \in BOOLEAN
  /\ {edits, sends, losses, crashes, leaves, errors, cleanings} \subseteq Nat

(* A group whose devices all know the same members.                        *)
Init ==
  /\ group = "joined" /\ name = 0 /\ members \in SUBSET Users
  /\ rows = {} /\ pending = NoSet
  /\ current = NoSet
  /\ inProgress = FALSE /\ updateId = 0
  /\ app = Idle
  /\ net = [d \in Devices |-> {}]
  /\ dev = [d \in Devices |-> [name |-> 0, members |-> members]]
  /\ acks = {} /\ removed = {} /\ expired = {} /\ partial = FALSE
  /\ edits = 0 /\ sends = 0 /\ losses = 0 /\ crashes = 0 /\ leaves = 0 /\ errors = 0
  /\ cleanings = 0

MayFail == losses + crashes + leaves + errors + cleanings < MaxFailures

-----------------------------------------------------------------------------
(* Change sets.                                                            *)

(* A part gets present without an id, or keeps what it has.                *)
Present(id) == IF id = Absent THEN 0 ELSE id

(* addAddNameToChangeSet and addRemoveNameToChangeSet, as collapsing uses  *)
(* them: the other list is not looked at.                                  *)
WithAdded(cs, users) == [cs EXCEPT !.add = @ \union users, !.addId = Present(@)]
WithRemoved(cs, users) == [cs EXCEPT !.rm = @ \union users, !.rmId = Present(@)]

(* addMissingMetaData *)
WithMetaData(cs, id, stored) ==
  IF cs.nameId = Absent THEN [cs EXCEPT !.name = stored, !.nameId = id] ELSE cs

IdOf(cs, part) ==
  CASE part = "name" -> cs.nameId [] part = "add" -> cs.addId [] part = "rm" -> cs.rmId

PartsOf(cs) == {part \in Parts : IdOf(cs, part) # Absent}

-----------------------------------------------------------------------------
(* The application edits the current change set.                           *)

(* getCurrentGroupChangeSet: a new one if there is none.                   *)
Current == IF current = NoSet THEN EmptySet ELSE current

Edit(cs) ==
  /\ current # NoSet \/ group # "gone"
  /\ app.pc = "idle"
  /\ edits < MaxEdits
  /\ edits' = edits + 1
  /\ current' = cs
  /\ UNCHANGED <<store, inProgress, updateId, app, net, dev, acks, ghosts,
                 sends, losses, crashes, leaves, errors, cleanings>>

SetGroupName == Edit([Current EXCEPT !.name = edits + 1, !.nameId = Present(@)])

RemoveGroupName == Edit([Current EXCEPT !.name = 0, !.nameId = Absent])

AddUser(u) == Edit(WithAdded([Current EXCEPT !.rm = @ \ {u}], {u}))

RemoveUser(u) == Edit(WithRemoved([Current EXCEPT !.add = @ \ {u}], {u}))

RemoveUserFromAddUpdate(u) ==
  u \in Current.add /\ Edit([Current EXCEPT !.add = @ \ {u}])

RemoveUserFromRemoveUpdate(u) ==
  u \in Current.rm /\ Edit([Current EXCEPT !.rm = @ \ {u}])

CancelGroupChangeSet == current # NoSet /\ Edit(NoSet)

-----------------------------------------------------------------------------
(* sendGroupMessage, and sendGroupMessageToMember.                         *)

(* A mutant of StampName: an earlier id stays. *)
StampNameForgotten(cs, id) == cs

StampName(cs, id) == IF cs.nameId = Absent THEN cs ELSE [cs EXCEPT !.nameId = id]

(* New members need the name and all other members, too.                   *)
StampAdd(cs, id, stored) ==
  IF cs.addId = Absent THEN cs
  ELSE WithMetaData([cs EXCEPT !.addId = id, !.add = @ \union members], id, stored)

StampRemove(cs, id) == IF cs.rmId = Absent THEN cs ELSE [cs EXCEPT !.rmId = id]

(* prepareChangeSetSend: stamp the change set, and change the store.  A    *)
(* group that has gone is made anew, with our user as its only member.     *)
Prepare(id) ==
  LET newName == IF current.nameId = Absent THEN name ELSE current.name
  IN /\ inProgress' = TRUE /\ updateId' = id
     /\ group' = IF group = "gone" THEN "alone" ELSE group
     /\ name' = newName
     /\ current' = StampRemove(StampAdd(StampName(current, id), id, newName), id)
     /\ members' = (members \union current.add) \ current.rm
     /\ removed' = removed \union current.rm
     /\ UNCHANGED expired

(* A message to all devices, or to one device; a message to a device the   *)
(* caller names does not even ask for a change set.                        *)
Targets == {Devices, {}} \union {{d} : d \in Devices}

PrepareChangeSetSend(to) ==
  /\ app.pc = "idle" /\ sends < MaxSends
  /\ sends' = sends + 1
  /\ app' = [pc |-> "prepared", left |-> to]
  /\ \/ /\ current = NoSet
        /\ UNCHANGED <<group, name, members, update, ghosts>>
     \/ /\ current # NoSet /\ ~inProgress
        /\ Prepare(sends')
        /\ partial' = (partial \/ to # Devices)
  /\ UNCHANGED <<rows, pending, net, dev, acks, edits, losses, crashes, leaves, errors, cleanings>>

(* The group cannot be made anew, or the clock of the name not be stored:   *)
(* an error, and updateInProgress stays set.                               *)
PrepareFails ==
  /\ app.pc = "idle" /\ sends < MaxSends /\ MayFail
  /\ current # NoSet /\ ~inProgress
  /\ sends' = sends + 1 /\ errors' = errors + 1
  /\ inProgress' = TRUE /\ updateId' = sends'
  /\ \/ group = "gone" /\ UNCHANGED current
     \/ current.nameId # Absent /\ current' = StampName(current, sends')
  /\ UNCHANGED <<store, app, net, dev, acks, ghosts, edits, losses, crashes, leaves, cleanings>>

(* The group may have gone meanwhile, and with it its members.             *)
StartSending ==
  /\ app.pc = "prepared"
  /\ app' = IF group = "gone" THEN Idle
            ELSE [pc |-> "sending", left |-> IF group = "joined" THEN app.left ELSE {}]
  /\ UNCHANGED <<store, update, net, dev, acks, ghosts, counts>>

(* A mutant of Collapsed: additions are not looked at. *)
CollapsedRemovals(d) ==
  LET owes == pending # NoSet /\ [dev |-> d, part |-> "rm", id |-> pending.rmId] \in rows
  IN IF owes THEN WithRemoved(current, pending.rm) ELSE current

(* The change set of the device: what it has not acknowledged of the       *)
(* pending change set is added to the current one, for all later devices,  *)
(* too.                                                                    *)
Collapsed(d) ==
  LET owes(part) == pending # NoSet /\ [dev |-> d, part |-> part, id |-> IdOf(pending, part)] \in rows
      added == IF owes("add") THEN WithAdded(current, pending.add) ELSE current
      both == IF owes("rm") THEN WithRemoved(added, pending.rm) ELSE added
  IN IF both.addId = Absent THEN both ELSE WithMetaData(both, updateId, name)

(* A mutant of RowsFor: the records of all devices are removed. *)
RowsForAll(d, cs) ==
  {r \in rows : r.part \notin PartsOf(cs)} \union [dev : {d}, part : PartsOf(cs), id : {updateId}]

(* removeWaitAckWithType and insertWaitAck for each part.                  *)
RowsFor(d, cs) ==
  {r \in rows : r.dev # d \/ r.part \notin PartsOf(cs)}
    \union [dev : {d}, part : PartsOf(cs), id : {updateId}]

CreateChangeSetDevice(d) ==
  /\ app.pc = "sending" /\ d \in app.left
  /\ inProgress /\ current # NoSet /\ PartsOf(current) # {}
  /\ current' = Collapsed(d)
  /\ rows' = RowsFor(d, current')
  /\ expired' = expired \ [dev : {d}, part : PartsOf(current')]
  /\ net' = [net EXCEPT ![d] = @ \union {current'}]
  /\ app' = [app EXCEPT !.left = @ \ {d}]
  /\ UNCHANGED <<group, name, members, pending, inProgress, updateId, dev, acks,
                 removed, partial, counts>>

(* An empty change set is to be dropped, which takes the mutex again.      *)
CreateFromEmptySet(d) ==
  /\ app.pc = "sending" /\ d \in app.left
  /\ inProgress /\ current # NoSet /\ PartsOf(current) = {}
  /\ app' = [app EXCEPT !.pc = "hung"]
  /\ UNCHANGED <<store, update, net, dev, acks, ghosts, counts>>

(* An update whose change set was cancelled: nothing is sent.              *)
CreateInconsistent(d) ==
  /\ app.pc = "sending" /\ d \in app.left
  /\ inProgress /\ current = NoSet
  /\ app' = [app EXCEPT !.left = @ \ {d}]
  /\ UNCHANGED <<store, update, net, dev, acks, ghosts, counts>>

(* hasWaitAckGroupDevice prepares the statement that looks for an update   *)
(* id, and binds the device id.                                            *)
HasWaitAckGroupDevice(d) == \E r \in rows : r.id = d

(* A message without a current change set.                                 *)
ResendPending(d) ==
  /\ app.pc = "sending" /\ d \in app.left /\ ~inProgress
  /\ net' = IF pending # NoSet /\ HasWaitAckGroupDevice(d)
            THEN [net EXCEPT ![d] = @ \union {pending}] ELSE net
  /\ app' = [app EXCEPT !.left = @ \ {d}]
  /\ UNCHANGED <<store, update, dev, acks, ghosts, counts>>

(* A mutant of GroupUpdateSendDone: the update goes on. *)
SendDoneForgotten ==
  /\ app = [pc |-> "sending", left |-> {}]
  /\ app' = Idle /\ updateId' = 0 /\ pending' = current /\ current' = NoSet
  /\ UNCHANGED <<group, name, members, rows, inProgress, net, dev, acks, ghosts, counts>>

(* The change set now waits for acknowledgements. *)
GroupUpdateSendDone ==
  /\ app = [pc |-> "sending", left |-> {}]
  /\ app' = Idle
  /\ updateId' = 0
  /\ IF inProgress /\ current # NoSet
     THEN /\ pending' = current
          /\ current' = NoSet
          /\ inProgress' = FALSE
     ELSE UNCHANGED <<pending, current, inProgress>>
  /\ UNCHANGED <<group, name, members, rows, net, dev, acks, ghosts, counts>>

-----------------------------------------------------------------------------
(* The other devices: processReceivedChangeSet.                            *)

(* A later name has the later clock, because only this device changes it.  *)
Updated(known, cs) ==
  [name |-> IF cs.nameId # Absent /\ cs.name > known.name THEN cs.name ELSE known.name,
   members |-> (known.members \union (cs.add \ cs.rm)) \ cs.rm]

(* A mutant of Answered: every part is acknowledged. *)
AnsweredAll(cs) == Parts

(* Additions always name our user, too; an empty list of removals alone is *)
(* not processed, and not acknowledged.                                    *)
Answered(cs) == IF cs.addId = Absent /\ cs.rm = {} THEN PartsOf(cs) \ {"rm"} ELSE PartsOf(cs)

Receive(d, cs) ==
  /\ cs \in net[d]
  /\ dev' = [dev EXCEPT ![d] = Updated(@, cs)]
  /\ acks' = acks \union {[dev |-> d, part |-> p, id |-> IdOf(cs, p)] : p \in Answered(cs)}
  /\ net' = [net EXCEPT ![d] = @ \ {cs}]
  /\ UNCHANGED <<store, update, app, ghosts, counts>>

Lose(d, cs) ==
  /\ cs \in net[d]
  /\ losses < MaxLosses /\ MayFail
  /\ losses' = losses + 1
  /\ net' = [net EXCEPT ![d] = @ \ {cs}]
  /\ UNCHANGED <<store, update, app, dev, acks, ghosts,
                 edits, sends, crashes, leaves, errors, cleanings>>

-----------------------------------------------------------------------------
(* The command thread.                                                     *)

(* cleanWaitAck: the records of 31 days and more go, whatever they wait    *)
(* for.  The model does not count days: the oldest records go, those that  *)
(* were written with one message together.                                 *)
CleanWaitAck(old, answered) ==
  /\ old \subseteq rows
  /\ cleanings' = cleanings + (IF old = {} THEN 0 ELSE 1)
  /\ old # {} => MayFail
  /\ \A r \in old, s \in rows : s.id < r.id \/ (s.id = r.id /\ s.dev = r.dev) => s \in old
  /\ rows' = rows \ (old \union answered)
  /\ expired' = expired \union {[dev |-> r.dev, part |-> r.part] : r \in old \ answered}

(* processAcks.  The pending change set stays: it is filed under the group *)
(* id, and looked up under update id and group id.                         *)
ProcessAck(a) ==
  /\ a \in acks
  /\ acks' = acks \ {a}
  /\ IF group = "gone" THEN UNCHANGED <<rows, expired, cleanings>>
     ELSE \E old \in SUBSET rows : CleanWaitAck(old, {a})
  /\ UNCHANGED <<group, name, members, pending, update, app, net, dev,
                 removed, partial, edits, sends, losses, crashes, leaves, errors>>

(* An acknowledgement of an update of another group: cleanWaitAck knows no *)
(* groups.                                                                 *)
ProcessOtherAcks ==
  /\ \E old \in SUBSET rows : CleanWaitAck(old, {})
  /\ UNCHANGED <<group, name, members, pending, update, app, net, dev, acks,
                 removed, partial, edits, sends, losses, crashes, leaves, errors>>

(* processLeaveGroup, when a sibling has left the group.  What is pending  *)
(* stays for the same reason, and so does the current change set.          *)
ProcessLeaveGroup ==
  /\ group = "joined" /\ MayFail
  /\ leaves' = leaves + 1
  /\ group' = "gone" /\ name' = 0 /\ members' = {} /\ rows' = {}
  /\ UNCHANGED <<pending, update, app, net, dev, acks, ghosts>>
  /\ UNCHANGED <<edits, sends, losses, crashes, errors, cleanings>>

(* The process dies: the current change set is only in memory.             *)
Crash ==
  /\ MayFail
  /\ current # NoSet \/ app # Idle
  /\ crashes' = crashes + 1
  /\ current' = NoSet /\ inProgress' = FALSE /\ updateId' = 0 /\ app' = Idle
  /\ UNCHANGED <<store, net, dev, acks, ghosts, edits, sends, losses, leaves, errors, cleanings>>

Next ==
  \/ SetGroupName \/ RemoveGroupName \/ CancelGroupChangeSet
  \/ \E u \in Users :
       \/ AddUser(u) \/ RemoveUser(u)
       \/ RemoveUserFromAddUpdate(u) \/ RemoveUserFromRemoveUpdate(u)
  \/ \E to \in Targets : PrepareChangeSetSend(to)
  \/ PrepareFails \/ StartSending \/ GroupUpdateSendDone
  \/ \E d \in Devices :
       \/ CreateChangeSetDevice(d) \/ CreateFromEmptySet(d) \/ CreateInconsistent(d)
       \/ ResendPending(d)
       \/ \E cs \in net[d] : Receive(d, cs) \/ Lose(d, cs)
  \/ \E a \in acks : ProcessAck(a)
  \/ ProcessOtherAcks
  \/ ProcessLeaveGroup \/ Crash

Spec == Init /\ [][Next]_vars

-----------------------------------------------------------------------------
(* Properties.                                                             *)

Waits(d, part) == \E r \in rows : r.dev = d /\ r.part = part

(* The record was dropped by its age, and none was written since.          *)
Expired(d, part) == [dev |-> d, part |-> part] \in expired

(* The change set is on its way through the devices, and d comes later.    *)
StillToSend(d) == d \in app.left

(* The group is as it was, and all updates went to all devices.  A message *)
(* to one member ends the update for all of them: groupUpdateSendDone      *)
(* makes the change set the pending one, though no other device was sent   *)
(* it and no record says so.                                               *)
Regular == group = "joined" /\ crashes = 0 /\ ~partial

(* A device that does not know the name yet is waited for, whatever was    *)
(* lost, collapsed, acknowledged late or replaced by later changes, until  *)
(* the record of it is dropped by its age.  Then nothing tells that the    *)
(* device lacks the name, until the next update with a name.               *)
NameAwaited ==
  Regular => \A d \in Devices : dev[d].name # name =>
    Waits(d, "name") \/ StillToSend(d) \/ Expired(d, "name")

(* The same for a member who was added and never removed, where the next   *)
(* update that adds somebody tells of all members.                         *)
AddAwaited ==
  Regular => \A d \in Devices : \A u \in members \ (removed \union dev[d].members) :
               Waits(d, "add") \/ StillToSend(d) \/ Expired(d, "add")

(* A change set for a device tells it of all members that it was never     *)
(* told of, or whose change set was lost, although each update names only  *)
(* what it adds: unless the record of an earlier change set was dropped by *)
(* its age.                                                                *)
CollapseTells ==
  [][\A d \in Devices :
       Regular /\ losses <= 1 /\ ~ net'[d] \subseteq net[d] /\ ~Expired(d, "add") =>
         members \ (removed \union dev[d].members)
           \subseteq UNION {cs.add : cs \in net'[d]} ]_vars

(* An update ends: when the application is not sending, the next update    *)
(* may begin, unless the group has gone or the database failed.            *)
UpdateEnds == group # "gone" /\ app.pc = "idle" /\ errors = 0 => ~inProgress

(* What a device was sent it acknowledges, and the record of it goes: once *)
(* all has arrived and nothing was lost, no device is waited for.          *)
NameSettled ==
  group = "joined" /\ losses = 0 /\ acks = {} /\ (\A d \in Devices : net[d] = {}) =>
    \A d \in Devices : ~Waits(d, "name")
=============================================================================
