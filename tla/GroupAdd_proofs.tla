-------------------------- MODULE GroupAdd_proofs --------------------------
(***************************************************************************)
(* A device that does not know a member who was added is waited for, and *)
(* told by the next change set, until its record is dropped by its age,  *)
(* for any number of devices, users, edits, messages and failures.       *)
(***************************************************************************)
EXTENDS GroupUpdate_proofs

USE DEF Absent, Ids, Names

AddRow(d, id) == [dev |-> d, part |-> "add", id |-> id]

(* Members whom d does not know, and who were never removed.             *)
Missing(d) == members \ (removed \union dev[d].members)

(* The current change set takes all members to d later.                  *)
OwedAdd(d) == d \in app.left /\ current # NoSet /\ current.addId = updateId

(* A change set without additions has none; one that is sent with the id *)
(* of this update names all members.  Additions that are collapsed into a*)
(* change set without any have no id.                                    *)
ListInv ==
  /\ current # NoSet /\ current.addId = Absent => current.add = {}
  /\ current # NoSet /\ app.pc # "idle" =>
       /\ inProgress /\ updateId > 0
       /\ current.addId \in {Absent, 0, updateId}
       /\ current.addId = updateId => members \ removed \subseteq current.add

(* Who is removed somewhere was removed here.                            *)
RemovedInv ==
  /\ current # NoSet /\ app.pc # "idle" => current.rm \subseteq removed
  /\ pending # NoSet => pending.rm \subseteq removed
  /\ \A d \in Devices : \A cs \in net[d] : cs.rm \subseteq removed

(* A device that is yet to be sent to has seen earlier update ids only.  *)
AddIdsInv ==
  /\ updateId <= sends
  /\ \A r \in rows : r.part = "add" => r.id > 0
  /\ \A d \in Devices : \A cs \in net[d] :
       /\ cs.addId <= sends
       /\ app.pc # "idle" /\ current # NoSet /\ d \in app.left => cs.addId < updateId
  /\ \A a \in acks : a.part = "add" =>
       /\ a.id <= sends
       /\ app.pc # "idle" /\ current # NoSet /\ a.dev \in app.left => a.id < updateId

(* What answers a record of the store names all members d does not know. *)
AddAnswerInv ==
  /\ \A d \in Devices : \A cs \in net[d] :
       cs.addId # Absent /\ AddRow(d, cs.addId) \in rows =>
         Missing(d) \subseteq cs.add \/ OwedAdd(d)
  /\ \A a \in acks :
       a.part = "add" /\ a \in rows => Missing(a.dev) = {} \/ OwedAdd(a.dev)

AddWaitInv ==
  \A d \in Devices : Missing(d) # {} =>
    Waits(d, "add") \/ OwedAdd(d) \/ Expired(d, "add")

AddInv == ListInv /\ RemovedInv /\ AddIdsInv /\ AddAnswerInv /\ AddWaitInv

(* The inductive invariant.                                              *)
AInv == TypeOK /\ LeftInv /\ (Regular => AddInv)

-----------------------------------------------------------------------------
(* What stamping and collapsing do to the lists.                         *)

LEMMA AddTypes ==
  ASSUME TypeOK
  PROVE  /\ {sends, updateId} \subseteq Nat
         /\ current # NoSet => current.addId \in Int
         /\ \A d \in Devices : \A cs \in net[d] : cs \in ChangeSet /\ cs.addId \in Int
         /\ \A a \in acks : a.dev \in Devices /\ a.id \in Nat
         /\ \A r \in rows : r.dev \in Devices /\ r.id \in Nat
<1>1. \A cs \in ChangeSet : cs.addId \in Int
  BY GroupUpdateAssumption DEF ChangeSet
<1>2. \A d \in Devices : \A cs \in net[d] : cs \in ChangeSet
  BY DEF TypeOK
<1>3. \A a \in Ack : a.dev \in Devices /\ a.id \in Nat
  BY GroupUpdateAssumption DEF Ack
<1>4. {sends, updateId} \subseteq Nat
  BY GroupUpdateAssumption DEF TypeOK
<1> QED BY <1>1, <1>2, <1>3, <1>4 DEF TypeOK

LEMMA MetaDataLists ==
  ASSUME NEW cs \in ChangeSet, NEW id, NEW stored
  PROVE  /\ WithMetaData(cs, id, stored).add = cs.add
         /\ WithMetaData(cs, id, stored).addId = cs.addId
         /\ WithMetaData(cs, id, stored).rm = cs.rm
         /\ WithMetaData(cs, id, stored).rmId = cs.rmId
  BY DEF WithMetaData, ChangeSet

LEMMA StampedLists ==
  ASSUME NEW cs \in ChangeSet, NEW id \in 0 .. MaxSends, NEW stored \in Names,
         members \subseteq Users
  PROVE  LET new == StampRemove(StampAdd(StampName(cs, id), id, stored), id)
         IN /\ new.rm = cs.rm
            /\ cs.addId = Absent => new.addId = Absent /\ new.add = cs.add
            /\ cs.addId # Absent => new.addId = id /\ new.add = cs.add \union members
<1> DEFINE one == StampName(cs, id)
           full == [one EXCEPT !.addId = id, !.add = @ \union members]
           two == StampAdd(one, id, stored)
<1>1. one \in ChangeSet /\ one.add = cs.add /\ one.addId = cs.addId /\ one.rm = cs.rm
  <2>1. one \in ChangeSet
    BY StampNameType
  <2> QED BY <2>1 DEF StampName, ChangeSet
<1> HIDE DEF one
<1>2. full \in ChangeSet /\ full.addId = id /\ full.add = one.add \union members /\ full.rm = one.rm
  <2>1. one.add \union members \in SUBSET Users /\ id \in Ids
    BY <1>1, GroupUpdateAssumption DEF ChangeSet
  <2> DEFINE all == one.add \union members
  <2>2. full = [one EXCEPT !.addId = id, !.add = all]
    OBVIOUS
  <2> HIDE DEF all, full
  <2> QED BY <1>1, <2>1, <2>2 DEF ChangeSet, all
<1>3. two = IF one.addId = Absent THEN one ELSE WithMetaData(full, id, stored)
  BY DEF StampAdd
<1> HIDE DEF full
<1>4. /\ two \in ChangeSet /\ two.rm = cs.rm
      /\ cs.addId = Absent => two.addId = Absent /\ two.add = cs.add
      /\ cs.addId # Absent => two.addId = id /\ two.add = cs.add \union members
  BY <1>1, <1>2, <1>3, MetaDataType, MetaDataLists
<1> HIDE DEF two
<1>5. /\ StampRemove(two, id).rm = two.rm /\ StampRemove(two, id).add = two.add
      /\ StampRemove(two, id).addId = two.addId
  BY <1>4 DEF StampRemove, ChangeSet
<1> QED BY <1>4, <1>5 DEF two, one

LEMMA CollapsedLists ==
  ASSUME TypeOK, current # NoSet, NEW d \in Devices
  PROVE  /\ current.addId # Absent => Collapsed(d).addId = current.addId
         /\ current.addId = Absent => Collapsed(d).addId \in {Absent, 0}
         /\ current.add \subseteq Collapsed(d).add
         /\ Collapsed(d).addId = Absent => Collapsed(d).add = current.add
         /\ pending # NoSet /\ AddRow(d, pending.addId) \in rows =>
              Collapsed(d).addId # Absent /\ pending.add \subseteq Collapsed(d).add
         /\ current.addId = Absent /\ Collapsed(d).addId # Absent =>
              pending # NoSet /\ AddRow(d, pending.addId) \in rows
         /\ Collapsed(d).rm \subseteq
              current.rm \union (IF pending = NoSet THEN {} ELSE pending.rm)
<1> DEFINE owes(part) == pending # NoSet /\ [dev |-> d, part |-> part, id |-> IdOf(pending, part)] \in rows
           added == IF owes("add") THEN WithAdded(current, pending.add) ELSE current
           both == IF owes("rm") THEN WithRemoved(added, pending.rm) ELSE added
<1>1. current \in ChangeSet /\ (pending # NoSet => pending.add \in SUBSET Users /\ pending.rm \in SUBSET Users)
  BY DEF TypeOK, ChangeSet
<1>2. /\ added \in ChangeSet /\ added.rm = current.rm
      /\ current.addId # Absent => added.addId = current.addId
      /\ current.addId = Absent => added.addId \in {Absent, 0}
      /\ current.add \subseteq added.add
      /\ added.addId = Absent => added.add = current.add
      /\ pending # NoSet /\ AddRow(d, pending.addId) \in rows =>
           added.addId # Absent /\ pending.add \subseteq added.add
      /\ current.addId = Absent /\ added.addId # Absent =>
           pending # NoSet /\ AddRow(d, pending.addId) \in rows
  <2>0. pending # NoSet /\ AddRow(d, pending.addId) \in rows <=> owes("add")
    BY DEF AddRow, IdOf
  <2>1. CASE owes("add")
    <3>1. added = WithAdded(current, pending.add)
      BY <2>1
    <3>2. added \in ChangeSet
      BY <1>1, <2>1, <3>1, WithUsersType
    <3>3. /\ added.rm = current.rm /\ added.add = current.add \union pending.add
          /\ added.addId = Present(current.addId)
      BY <1>1, <3>1 DEF WithAdded, ChangeSet
    <3> HIDE DEF added
    <3> QED BY <2>0, <2>1, <3>2, <3>3 DEF Present
  <2>2. CASE ~owes("add")
    BY <1>1, <2>0, <2>2
  <2> QED BY <2>1, <2>2
<1> HIDE DEF added
<1>3. /\ both \in ChangeSet /\ both.add = added.add /\ both.addId = added.addId
      /\ both.rm \subseteq current.rm \union (IF pending = NoSet THEN {} ELSE pending.rm)
  <2>1. CASE owes("rm")
    <3>1. both = WithRemoved(added, pending.rm)
      BY <2>1
    <3>2. both \in ChangeSet
      BY <1>1, <1>2, <2>1, <3>1, WithUsersType
    <3>3. both.add = added.add /\ both.addId = added.addId /\ both.rm = added.rm \union pending.rm
      BY <1>2, <3>1 DEF WithRemoved, ChangeSet
    <3> HIDE DEF both
    <3> QED BY <1>2, <2>1, <3>2, <3>3
  <2>2. CASE ~owes("rm")
    BY <1>2, <2>2
  <2> QED BY <2>1, <2>2
<1>4. Collapsed(d) = IF both.addId = Absent THEN both ELSE WithMetaData(both, updateId, name)
  BY DEF Collapsed, added
<1> HIDE DEF both
<1>5. /\ Collapsed(d).add = both.add /\ Collapsed(d).addId = both.addId
      /\ Collapsed(d).rm = both.rm
  BY <1>3, <1>4, MetaDataLists
<1> QED BY <1>2, <1>3, <1>5

-----------------------------------------------------------------------------
(* The steps.                                                            *)

LEMMA IdleOwesNoAddition ==
  ASSUME LeftInv, app.pc = "idle"
  PROVE  \A d : ~OwedAdd(d)
  BY DEF LeftInv, OwedAdd

(* Steps of the application thread that leave messages, records and the  *)
(* members alone, and what it still has to send.                         *)
LEMMA ThreadKeepsAdd ==
  ASSUME AddInv, UNCHANGED <<members, removed, rows, expired, net, dev, acks, sends>>,
         updateId' <= sends,
         pending' # NoSet => pending'.rm \subseteq removed,
         current' # NoSet => current' = current,
         current' # NoSet /\ app'.pc # "idle" =>
           app.pc # "idle" /\ UNCHANGED <<updateId, inProgress>>,
         app'.left \subseteq app.left,
         \A d \in app.left : OwedAdd(d) => OwedAdd(d)'
  PROVE  AddInv'
<1>1. ListInv' /\ RemovedInv'
  BY DEF AddInv, ListInv, RemovedInv
<1>2. AddIdsInv'
  BY DEF AddInv, AddIdsInv
<1>3. AddAnswerInv' /\ AddWaitInv'
  <2>1. \A d : OwedAdd(d) => OwedAdd(d)'
    BY DEF OwedAdd
  <2> QED BY <2>1 DEF AddInv, AddAnswerInv, AddWaitInv, Missing, Waits, Expired
<1> QED BY <1>1, <1>2, <1>3 DEF AddInv

(* An edit sends nothing.                                                *)
LEMMA EditKeepsAdd ==
  ASSUME TypeOK, LeftInv, AddInv, NEW cs, Edit(cs),
         cs # NoSet /\ cs.addId = Absent => cs.add = {}
  PROVE  AddInv'
<1>1. /\ app.pc = "idle" /\ app' = app /\ current' = cs
      /\ UNCHANGED <<members, removed, rows, expired, pending, updateId, net, dev, acks, sends>>
  BY DEF Edit, store, ghosts
<1>2. (\A d : ~OwedAdd(d)) /\ (\A d : ~OwedAdd(d)')
  BY <1>1, IdleOwesNoAddition DEF LeftInv, OwedAdd
<1>3. ListInv' /\ RemovedInv' /\ AddIdsInv'
  BY <1>1 DEF AddInv, ListInv, RemovedInv, AddIdsInv
<1>4. AddAnswerInv' /\ AddWaitInv'
  BY <1>1, <1>2 DEF AddInv, AddAnswerInv, AddWaitInv, Missing, Waits, Expired
<1> QED BY <1>3, <1>4 DEF AddInv

LEMMA EditsKeepAdd ==
  ASSUME TypeOK, LeftInv, AddInv,
         \/ SetGroupName \/ RemoveGroupName \/ CancelGroupChangeSet
         \/ \E u \in Users :
              \/ AddUser(u) \/ RemoveUser(u)
              \/ RemoveUserFromAddUpdate(u) \/ RemoveUserFromRemoveUpdate(u)
  PROVE  AddInv'
<1>1. Current \in ChangeSet /\ (Current.addId = Absent => Current.add = {})
  BY CurrentType DEF AddInv, ListInv, Current, EmptySet
<1> DEFINE Kept(cs) == cs.addId = Absent => cs.add = {}
<1>2. \A cs : Kept(cs) /\ Edit(cs) => AddInv'
  BY EditKeepsAdd
<1>3. CASE SetGroupName
  <2> DEFINE cs == [Current EXCEPT !.name = edits + 1, !.nameId = Present(@)]
  <2>1. cs.add = Current.add /\ cs.addId = Current.addId
    BY <1>1 DEF ChangeSet
  <2>2. Edit(cs)
    BY <1>3 DEF SetGroupName
  <2> HIDE DEF cs
  <2> QED BY <1>1, <1>2, <2>1, <2>2
<1>4. CASE RemoveGroupName
  <2> DEFINE cs == [Current EXCEPT !.name = 0, !.nameId = Absent]
  <2>1. cs.add = Current.add /\ cs.addId = Current.addId
    BY <1>1 DEF ChangeSet
  <2>2. Edit(cs)
    BY <1>4 DEF RemoveGroupName
  <2> HIDE DEF cs
  <2> QED BY <1>1, <1>2, <2>1, <2>2
<1>5. CASE CancelGroupChangeSet
  BY <1>5, EditKeepsAdd DEF CancelGroupChangeSet
<1>6. ASSUME NEW u \in Users, AddUser(u) PROVE AddInv'
  <2> DEFINE less == [Current EXCEPT !.rm = @ \ {u}]
             cs == WithAdded(less, {u})
  <2>1. less \in ChangeSet
    BY <1>1 DEF ChangeSet
  <2>2. Edit(cs)
    BY <1>6 DEF AddUser
  <2> HIDE DEF less
  <2>3. cs.addId = Present(less.addId)
    BY <2>1 DEF WithAdded, ChangeSet
  <2> HIDE DEF cs
  <2> QED BY <1>2, <2>2, <2>3 DEF Present
<1>7. ASSUME NEW u \in Users, RemoveUser(u) PROVE AddInv'
  <2> DEFINE less == [Current EXCEPT !.add = @ \ {u}]
             cs == WithRemoved(less, {u})
  <2>1. less \in ChangeSet /\ less.add \subseteq Current.add /\ less.addId = Current.addId
    BY <1>1 DEF ChangeSet
  <2>2. Edit(cs)
    BY <1>7 DEF RemoveUser
  <2> HIDE DEF less
  <2>3. cs.addId = less.addId /\ cs.add = less.add
    BY <2>1 DEF WithRemoved, ChangeSet
  <2> HIDE DEF cs
  <2> QED BY <1>1, <1>2, <2>1, <2>2, <2>3
<1>8. ASSUME NEW u \in Users, RemoveUserFromAddUpdate(u) PROVE AddInv'
  <2> DEFINE cs == [Current EXCEPT !.add = @ \ {u}]
  <2>1. cs.add \subseteq Current.add /\ cs.addId = Current.addId
    BY <1>1 DEF ChangeSet
  <2>2. Edit(cs)
    BY <1>8 DEF RemoveUserFromAddUpdate
  <2> HIDE DEF cs
  <2> QED BY <1>1, <1>2, <2>1, <2>2
<1>9. ASSUME NEW u \in Users, RemoveUserFromRemoveUpdate(u) PROVE AddInv'
  <2> DEFINE cs == [Current EXCEPT !.rm = @ \ {u}]
  <2>1. cs.add = Current.add /\ cs.addId = Current.addId
    BY <1>1 DEF ChangeSet
  <2>2. Edit(cs)
    BY <1>9 DEF RemoveUserFromRemoveUpdate
  <2> HIDE DEF cs
  <2> QED BY <1>1, <1>2, <2>1, <2>2
<1> QED BY <1>3, <1>4, <1>5, <1>6, <1>7, <1>8, <1>9

(* Additions go to all devices, with all members.                        *)
LEMMA PrepareKeepsAdd ==
  ASSUME TypeOK, LeftInv, AddInv, PrepareChangeSetSend(Devices), current # NoSet, Prepare(sends')
  PROVE  AddInv'
<1>1. /\ app.pc = "idle" /\ app' = [pc |-> "prepared", left |-> Devices]
      /\ sends \in Nat /\ sends' = sends + 1 /\ sends' \in 0 .. MaxSends
      /\ UNCHANGED <<rows, expired, pending, net, dev, acks>>
  BY NextId DEF PrepareChangeSetSend, Prepare
<1>2. /\ current' \in ChangeSet /\ current' # NoSet /\ updateId' = sends' /\ inProgress'
      /\ current'.rm = current.rm
      /\ current.addId = Absent => current'.addId = Absent /\ current'.add = {}
      /\ current.addId # Absent =>
           current'.addId = sends' /\ current'.add = current.add \union members
  <2>1. current' \in ChangeSet /\ updateId' = sends' /\ inProgress' /\ name' \in Names
    BY <1>1, PrepareType
  <2>2. current' = StampRemove(StampAdd(StampName(current, sends'), sends', name'), sends')
    BY DEF Prepare
  <2>3. current \in ChangeSet /\ members \subseteq Users
    BY DEF TypeOK
  <2>4. /\ current'.rm = current.rm
        /\ current.addId = Absent => current'.addId = Absent /\ current'.add = current.add
        /\ current.addId # Absent =>
             current'.addId = sends' /\ current'.add = current.add \union members
    BY <1>1, <2>1, <2>2, <2>3, StampedLists
  <2> QED BY <2>1, <2>4, NoSetAssumption DEF AddInv, ListInv
<1>3. /\ members' = (members \union current.add) \ current.rm
      /\ removed' = removed \union current.rm
  BY DEF Prepare
<1>4. ListInv' /\ RemovedInv'
  <2>1. sends' > 0
    BY <1>1
  <2>2. ListInv'
    BY <1>1, <1>2, <1>3, <2>1 DEF ListInv
  <2>3. RemovedInv'
    BY <1>1, <1>2, <1>3 DEF AddInv, RemovedInv
  <2> QED BY <2>2, <2>3
<1>5. AddIdsInv'
  <2>1. /\ \A d \in Devices : \A cs \in net[d] : cs.addId <= sends' /\ cs.addId < sends'
        /\ \A a \in acks : a.part = "add" => a.id <= sends' /\ a.id < sends'
    BY <1>1, AddTypes DEF AddInv, AddIdsInv
  <2> QED BY <1>1, <1>2, <2>1 DEF AddInv, AddIdsInv
<1>6. CASE current.addId # Absent
  <2>1. \A d \in Devices : OwedAdd(d)'
    BY <1>1, <1>2, <1>6 DEF OwedAdd
  <2>2. AddAnswerInv' /\ AddWaitInv'
    BY <1>1, <2>1, AddTypes DEF AddAnswerInv, AddWaitInv
  <2> QED BY <1>4, <1>5, <2>2 DEF AddInv
<1>7. CASE current.addId = Absent
  <2>1. \A d : ~OwedAdd(d) /\ ~OwedAdd(d)'
    BY <1>1, <1>2, <1>7, IdleOwesNoAddition DEF OwedAdd
  <2>2. \A d : Missing(d)' \subseteq Missing(d)
    BY <1>1, <1>3, <1>7 DEF AddInv, ListInv, Missing
  <2>3. AddAnswerInv' /\ AddWaitInv'
    BY <1>1, <2>1, <2>2 DEF AddInv, AddAnswerInv, AddWaitInv, Waits, Expired
  <2> QED BY <1>4, <1>5, <2>3 DEF AddInv
<1> QED BY <1>6, <1>7

LEMMA PrepareFailsKeepsAdd ==
  ASSUME TypeOK, LeftInv, AddInv, PrepareFails
  PROVE  AddInv'
<1>1. /\ app.pc = "idle" /\ app' = app /\ current # NoSet
      /\ sends \in Nat /\ sends' = sends + 1 /\ updateId' = sends'
      /\ UNCHANGED <<members, removed, rows, expired, pending, net, dev, acks>>
  BY NextId DEF PrepareFails, store, ghosts
<1>2. current'.add = current.add /\ current'.addId = current.addId
  <2>1. current \in ChangeSet
    BY <1>1 DEF TypeOK
  <2>2. StampName(current, sends').add = current.add /\ StampName(current, sends').addId = current.addId
    BY <2>1 DEF StampName, ChangeSet
  <2> QED BY <2>2 DEF PrepareFails
<1>3. (\A d : ~OwedAdd(d)) /\ (\A d : ~OwedAdd(d)')
  BY <1>1, IdleOwesNoAddition DEF LeftInv, OwedAdd
<1>4. ListInv' /\ RemovedInv'
  BY <1>1, <1>2 DEF AddInv, ListInv, RemovedInv
<1>5. AddIdsInv'
  <2>1. /\ \A d \in Devices : \A cs \in net[d] : cs.addId <= sends'
        /\ \A a \in acks : a.part = "add" => a.id <= sends'
    BY <1>1, AddTypes DEF AddInv, AddIdsInv
  <2> QED BY <1>1, <2>1 DEF AddInv, AddIdsInv
<1>6. AddAnswerInv' /\ AddWaitInv'
  BY <1>1, <1>3 DEF AddInv, AddAnswerInv, AddWaitInv, Missing, Waits, Expired
<1> QED BY <1>4, <1>5, <1>6 DEF AddInv

(* A device is sent additions: the record is that of this update, which no  *)
(* earlier message or acknowledgement answers.                           *)
LEMMA CreateKeepsAdd ==
  ASSUME TypeOK, AddInv, NEW d \in Devices, CreateChangeSetDevice(d)
  PROVE  AddInv'
<1> DEFINE cs == Collapsed(d)
<1>1. /\ app.pc = "sending" /\ d \in app.left /\ current # NoSet
      /\ app'.pc = "sending" /\ app'.left = app.left \ {d}
      /\ current' = cs /\ rows' = RowsFor(d, cs)
      /\ net' = [net EXCEPT ![d] = @ \union {cs}]
      /\ expired' = expired \ [dev : {d}, part : PartsOf(cs)]
      /\ UNCHANGED <<members, removed, pending, updateId, inProgress, dev, acks, sends>>
  BY DEF CreateChangeSetDevice, TypeOK, App, counts, ghosts
<1>2. /\ cs \in ChangeSet /\ cs # NoSet
      /\ cs.addId \in {Absent, 0, updateId} /\ updateId > 0
      /\ current.addId = updateId => cs.addId = updateId
      /\ cs.addId = Absent => cs.add = {}
      /\ cs.addId = updateId => members \ removed \subseteq cs.add
      /\ cs.rm \subseteq removed
  <2>1. /\ current.addId \in {Absent, 0, updateId} /\ updateId > 0 /\ updateId \in Nat
        /\ current.addId = Absent => current.add = {}
        /\ current.addId = updateId => members \ removed \subseteq current.add
        /\ current.rm \subseteq removed /\ (pending # NoSet => pending.rm \subseteq removed)
    BY <1>1, AddTypes DEF AddInv, ListInv, RemovedInv
  <2>2. cs \in ChangeSet /\ cs # NoSet
    BY <1>1, CollapsedType, NoSetAssumption
  <2>3. /\ current.addId # Absent => cs.addId = current.addId
        /\ current.addId = Absent => cs.addId \in {Absent, 0}
        /\ current.add \subseteq cs.add
        /\ cs.addId = Absent => cs.add = current.add
        /\ cs.rm \subseteq current.rm \union (IF pending = NoSet THEN {} ELSE pending.rm)
    BY <1>1, CollapsedLists
  <2> HIDE DEF cs
  <2>4. cs.addId = updateId => current.addId = updateId
    BY <2>1, <2>3
  <2>5. cs.rm \subseteq removed
    BY <2>1, <2>3
  <2> QED BY <2>1, <2>2, <2>3, <2>4, <2>5
<1>3. /\ \A e \in Devices \ {d} : net'[e] = net[e]
      /\ net'[d] = net[d] \union {cs}
  <2> HIDE DEF cs
  <2> QED BY <1>1, SentMessages
<1>4. \A e \in Devices \ {d} : \A id : AddRow(e, id) \in rows' <=> AddRow(e, id) \in rows
  BY <1>1 DEF RowsFor, AddRow
<1>5. /\ cs.addId = Absent => \A id : AddRow(d, id) \in rows' <=> AddRow(d, id) \in rows
      /\ cs.addId # Absent => \A id : AddRow(d, id) \in rows' <=> id = updateId
  BY <1>1 DEF RowsFor, AddRow, PartsOf, IdOf, Parts
<1>6. \A r \in rows' : r \in rows \/ r.id = updateId
  BY <1>1 DEF RowsFor
<1>7. \A r \in rows : r.part = "add" /\ (r.dev # d \/ cs.addId = Absent) => r \in rows'
  BY <1>1 DEF RowsFor, PartsOf, IdOf
<1> HIDE DEF cs
<1>8. ListInv' /\ RemovedInv'
  <2>1. ListInv'
    BY <1>1, <1>2 DEF AddInv, ListInv
  <2>2. \A e \in Devices : \A m \in net'[e] : m.rm \subseteq removed
    BY <1>2, <1>3 DEF AddInv, RemovedInv
  <2> QED BY <1>1, <1>2, <2>1, <2>2 DEF AddInv, RemovedInv
<1>9. AddIdsInv'
  <2>1. \A r \in rows' : r.part = "add" => r.id > 0
    BY <1>2, <1>6 DEF AddInv, AddIdsInv
  <2>2. cs.addId <= sends
    BY <1>2, AddTypes DEF AddInv, AddIdsInv
  <2>3. \A e \in Devices : \A m \in net'[e] :
          m.addId <= sends /\ (e \in app.left \ {d} => m.addId < updateId)
    BY <1>1, <1>3, <2>2 DEF AddInv, AddIdsInv
  <2>4. \A a \in acks : a.part = "add" =>
          a.id <= sends /\ (a.dev \in app.left \ {d} => a.id < updateId)
    BY <1>1 DEF AddInv, AddIdsInv
  <2> QED BY <1>1, <2>1, <2>3, <2>4 DEF AddInv, AddIdsInv
<1>10. /\ \A e \in Devices \ {d} : OwedAdd(e) => OwedAdd(e)'
       /\ OwedAdd(d) => cs.addId # Absent
       /\ \A e : Missing(e)' = Missing(e)
       /\ \A e : Missing(e) \subseteq members \ removed
  BY <1>1, <1>2 DEF OwedAdd, Missing
<1>11. AddWaitInv'
  <2>0. \A e \in Devices : (e # d \/ cs.addId = Absent) /\ Expired(e, "add") =>
                             Expired(e, "add")'
    BY <1>1 DEF Expired, PartsOf, IdOf, Parts
  <2>1. ASSUME NEW e \in Devices \ {d} PROVE Waits(e, "add") => Waits(e, "add")'
    BY <1>7 DEF Waits
  <2>2. CASE cs.addId # Absent
    <3>1. AddRow(d, updateId) \in rows'
      BY <1>5, <2>2
    <3>2. Waits(d, "add")'
      BY <3>1 DEF Waits, AddRow
    <3> QED BY <1>10, <2>0, <2>1, <3>2 DEF AddInv, AddWaitInv
  <2>3. CASE cs.addId = Absent
    <3>1. Waits(d, "add") => Waits(d, "add")'
      BY <1>7, <2>3 DEF Waits
    <3> QED BY <1>10, <2>0, <2>1, <2>3, <3>1 DEF AddInv, AddWaitInv
  <2> QED BY <2>2, <2>3
<1>12. AddAnswerInv'
  <2>1. ASSUME NEW e \in Devices, NEW m \in net'[e],
               m.addId # Absent, AddRow(e, m.addId) \in rows'
        PROVE  Missing(e) \subseteq m.add \/ OwedAdd(e)'
    <3>1. CASE e # d
      BY <1>3, <1>4, <1>10, <2>1, <3>1 DEF AddInv, AddAnswerInv
    <3>2. CASE e = d /\ m = cs
      <4>1. m.addId = updateId
        BY <1>5, <2>1, <3>2
      <4> QED BY <1>2, <1>10, <3>2, <4>1
    <3>3. CASE e = d /\ m \in net[d]
      <4>1. CASE cs.addId = Absent
        BY <1>5, <1>10, <2>1, <3>3, <4>1 DEF AddInv, AddAnswerInv
      <4>2. CASE cs.addId # Absent
        <5>1. m.addId = updateId
          BY <1>5, <2>1, <3>3, <4>2
        <5>2. m.addId < updateId
          BY <1>1, <3>3 DEF AddInv, AddIdsInv
        <5> QED BY <5>1, <5>2, AddTypes
      <4> QED BY <4>1, <4>2
    <3> QED BY <1>3, <2>1, <3>1, <3>2, <3>3
  <2>2. ASSUME NEW a \in acks, a.part = "add", a \in rows'
        PROVE  Missing(a.dev) = {} \/ OwedAdd(a.dev)'
    <3>0. a \in Ack
      BY DEF TypeOK
    <3>1. a = AddRow(a.dev, a.id) /\ a.dev \in Devices
      BY <2>2, <3>0 DEF Ack, AddRow
    <3>2. CASE a.dev # d
      <4>1. a \in rows
        BY <1>4, <2>2, <3>1, <3>2
      <4> QED BY <1>10, <2>2, <3>1, <3>2, <4>1 DEF AddInv, AddAnswerInv
    <3>3. CASE a.dev = d /\ cs.addId = Absent
      <4>1. a \in rows
        BY <1>5, <2>2, <3>1, <3>3
      <4> QED BY <1>10, <2>2, <3>3, <4>1 DEF AddInv, AddAnswerInv
    <3>4. CASE a.dev = d /\ cs.addId # Absent
      <4>1. a.id = updateId
        BY <1>5, <2>2, <3>1, <3>4
      <4>2. a.id < updateId
        BY <1>1, <2>2, <3>4 DEF AddInv, AddIdsInv
      <4> QED BY <4>1, <4>2, AddTypes
    <3> QED BY <3>1, <3>2, <3>3, <3>4
  <2> QED BY <1>1, <1>10, <2>1, <2>2 DEF AddAnswerInv
<1> QED BY <1>8, <1>9, <1>11, <1>12 DEF AddInv

(* A device that receives additions knows the members they name afterwards, *)
(* unless they were removed.                                             *)
LEMMA ReceiveKeepsAdd ==
  ASSUME TypeOK, AddInv, NEW d \in Devices, NEW cs \in net[d], Receive(d, cs)
  PROVE  AddInv'
<1>1. /\ dev' = [dev EXCEPT ![d] = Updated(@, cs)]
      /\ acks' = acks \union {[dev |-> d, part |-> p, id |-> IdOf(cs, p)] : p \in Answered(cs)}
      /\ net' = [net EXCEPT ![d] = @ \ {cs}]
      /\ UNCHANGED <<members, removed, expired, pending, rows, current, app, updateId,
                     inProgress, sends>>
  BY DEF Receive, store, update, counts, ghosts
<1>2. cs \in net[d]
  OBVIOUS
<1>3. /\ \A e \in Devices : net'[e] \subseteq net[e]
      /\ \A e : OwedAdd(e) <=> OwedAdd(e)'
  <2>1. net'[d] = net[d] \ {cs} /\ \A e \in Devices \ {d} : net'[e] = net[e]
    BY <1>1 DEF TypeOK
  <2> QED BY <1>1, <2>1 DEF OwedAdd
<1>4. /\ \A e \in Devices \ {d} : dev'[e] = dev[e]
      /\ dev'[d].members = (dev[d].members \union (cs.add \ cs.rm)) \ cs.rm
  BY <1>1 DEF Updated, TypeOK
<1>5. ASSUME NEW a \in acks', a.part = "add"
      PROVE  a \in acks \/ (a = AddRow(d, cs.addId) /\ cs.addId # Absent)
  <2>1. a \in acks \/ \E p \in Answered(cs) : a = [dev |-> d, part |-> p, id |-> IdOf(cs, p)]
    BY <1>1, <1>5
  <2> QED BY <1>5, <2>1 DEF AddRow, IdOf, Answered, PartsOf
<1>6. /\ \A e \in Devices : Missing(e)' \subseteq Missing(e)
      /\ Missing(d)' \subseteq Missing(d) \ cs.add
  <2>1. cs.rm \subseteq removed
    BY <1>2 DEF AddInv, RemovedInv
  <2>2. Missing(d)' \subseteq Missing(d) \ cs.add
    BY <1>1, <1>4, <2>1 DEF Missing
  <2> QED BY <1>1, <1>4, <2>2 DEF Missing
<1>7. ListInv' /\ RemovedInv'
  BY <1>1, <1>3 DEF AddInv, ListInv, RemovedInv
<1>8. AddIdsInv'
  <2>1. ASSUME NEW a \in acks', a.part = "add"
        PROVE  /\ a.id <= sends
               /\ app.pc # "idle" /\ current # NoSet /\ a.dev \in app.left => a.id < updateId
    BY <1>2, <1>5, <2>1 DEF AddInv, AddIdsInv, AddRow
  <2> QED BY <1>1, <1>3, <2>1 DEF AddInv, AddIdsInv
<1>9. AddAnswerInv'
  <2>1. ASSUME NEW a \in acks', a.part = "add", a \in rows
        PROVE  Missing(a.dev)' = {} \/ OwedAdd(a.dev)
    <3>1. CASE a \in acks
      BY <1>6, <2>1, <3>1, AddTypes DEF AddInv, AddAnswerInv
    <3>2. CASE a = AddRow(d, cs.addId) /\ cs.addId # Absent
      <4>1. a.dev = d /\ (Missing(d) \subseteq cs.add \/ OwedAdd(d))
        BY <1>2, <2>1, <3>2 DEF AddInv, AddAnswerInv, AddRow
      <4> QED BY <1>6, <4>1
    <3> QED BY <1>5, <2>1, <3>1, <3>2
  <2>2. ASSUME NEW e \in Devices, NEW m \in net'[e],
               m.addId # Absent, AddRow(e, m.addId) \in rows
        PROVE  Missing(e)' \subseteq m.add \/ OwedAdd(e)
    BY <1>3, <1>6, <2>2 DEF AddInv, AddAnswerInv
  <2> QED BY <1>1, <1>3, <2>1, <2>2 DEF AddAnswerInv
<1>10. AddWaitInv'
  BY <1>1, <1>3, <1>6 DEF AddInv, AddWaitInv, Waits, Expired
<1> QED BY <1>7, <1>8, <1>9, <1>10 DEF AddInv

LEMMA LoseKeepsAdd ==
  ASSUME TypeOK, AddInv, NEW d \in Devices, NEW cs \in net[d], Lose(d, cs)
  PROVE  AddInv'
<1>1. /\ net' = [net EXCEPT ![d] = @ \ {cs}]
      /\ UNCHANGED <<members, removed, expired, pending, rows, dev, acks, current, app, updateId,
                     inProgress, sends>>
  BY DEF Lose, store, update, ghosts
<1>2. /\ \A e \in Devices : net'[e] \subseteq net[e]
      /\ \A e : OwedAdd(e) <=> OwedAdd(e)'
      /\ \A e : Missing(e)' = Missing(e)
  <2>1. net'[d] = net[d] \ {cs} /\ \A e \in Devices \ {d} : net'[e] = net[e]
    BY <1>1 DEF TypeOK
  <2> QED BY <1>1, <2>1 DEF OwedAdd, Missing
<1>3. ListInv' /\ RemovedInv' /\ AddIdsInv'
  BY <1>1, <1>2 DEF AddInv, ListInv, RemovedInv, AddIdsInv
<1>4. AddAnswerInv' /\ AddWaitInv'
  BY <1>1, <1>2 DEF AddInv, AddAnswerInv, AddWaitInv, Waits, Expired
<1> QED BY <1>3, <1>4 DEF AddInv

(* Old records may go, too.                                              *)
LEMMA AddRecordsGo ==
  ASSUME TypeOK, AddInv, NEW answered, NEW old \in SUBSET rows, CleanWaitAck(old, answered),
         acks' \subseteq acks,
         UNCHANGED <<members, removed, pending, net, dev, current, app, updateId,
                     inProgress, sends>>,
         \A r \in rows \intersect answered :
           r.part = "add" => Missing(r.dev) = {} \/ OwedAdd(r.dev)
  PROVE  AddInv'
<1>1. /\ rows' \subseteq rows /\ expired \subseteq expired'
      /\ \A r \in rows : r \in rows' \/ r \in answered \/ Expired(r.dev, r.part)'
  BY CleaningKeeps
<1>2. \A e : (OwedAdd(e) <=> OwedAdd(e)') /\ Missing(e)' = Missing(e)
  BY DEF OwedAdd, Missing
<1>3. ListInv' /\ RemovedInv' /\ AddIdsInv'
  BY <1>1 DEF AddInv, ListInv, RemovedInv, AddIdsInv
<1>4. AddAnswerInv'
  BY <1>1, <1>2 DEF AddInv, AddAnswerInv
<1>5. AddWaitInv'
  <2>1. ASSUME NEW e \in Devices, Missing(e) # {}, ~OwedAdd(e)
        PROVE  Waits(e, "add")' \/ Expired(e, "add")'
    <3>1. CASE Expired(e, "add")
      BY <1>1, <3>1 DEF Expired
    <3>2. CASE ~Expired(e, "add")
      <4>1. PICK r \in rows : r.dev = e /\ r.part = "add"
        BY <2>1, <3>2 DEF AddInv, AddWaitInv, Waits, Expired
      <4> QED BY <1>1, <2>1, <4>1 DEF Waits
    <3> QED BY <3>1, <3>2
  <2> QED BY <1>2, <2>1 DEF AddWaitInv
<1> QED BY <1>3, <1>4, <1>5 DEF AddInv

(* An acknowledgement that takes a record of additions with it comes from a *)
(* device that knows all members, or is sent them later.                 *)
LEMMA AckKeepsAdd ==
  ASSUME TypeOK, AddInv, group = "joined", NEW a \in acks, ProcessAck(a)
  PROVE  AddInv'
<1>1. /\ acks' \subseteq acks
      /\ UNCHANGED <<members, removed, pending, net, dev, current, app, updateId,
                     inProgress, sends>>
  BY DEF ProcessAck, update
<1>2. PICK old \in SUBSET rows : CleanWaitAck(old, {a})
  BY DEF ProcessAck
<1>3. \A r \in rows \intersect {a} :
        r.part = "add" => Missing(r.dev) = {} \/ OwedAdd(r.dev)
  BY DEF AddInv, AddAnswerInv
<1> QED BY <1>1, <1>2, <1>3, AddRecordsGo

LEMMA OtherAcksKeepAdd ==
  ASSUME TypeOK, AddInv, ProcessOtherAcks
  PROVE  AddInv'
<1>1. UNCHANGED <<acks, members, removed, pending, net, dev, current, app, updateId,
                  inProgress, sends>>
  BY DEF ProcessOtherAcks, update
<1>2. PICK old \in SUBSET rows : CleanWaitAck(old, {})
  BY DEF ProcessOtherAcks
<1> QED BY <1>1, <1>2, AddRecordsGo

LEMMA SendingKeepsAdd ==
  ASSUME TypeOK, LeftInv, AddInv, group = "joined",
         \/ StartSending \/ GroupUpdateSendDone
         \/ \E d \in Devices : CreateFromEmptySet(d) \/ CreateInconsistent(d) \/ ResendPending(d)
  PROVE  AddInv'
<1>1. updateId <= sends /\ sends \in Nat
  BY AddTypes DEF AddInv, AddIdsInv
<1>2. pending # NoSet => pending.rm \subseteq removed
  BY DEF AddInv, RemovedInv
<1>3. CASE StartSending
  <2>1. /\ app.pc = "prepared" /\ app'.left = app.left
        /\ UNCHANGED <<members, removed, expired, pending, rows, net, dev, acks, current, updateId,
                       inProgress, sends>>
    BY <1>3 DEF StartSending, store, update, counts, ghosts
  <2> QED BY <1>1, <1>2, <2>1, ThreadKeepsAdd DEF OwedAdd
<1>4. CASE GroupUpdateSendDone
  <2>1. /\ app.left = {} /\ app.pc = "sending" /\ app' = Idle /\ updateId' = 0
        /\ current' # NoSet => current' = current
        /\ pending' = pending \/ (pending' = current /\ current # NoSet)
        /\ UNCHANGED <<members, removed, expired, rows, net, dev, acks, sends>>
    BY <1>4 DEF GroupUpdateSendDone, counts, ghosts
  <2>2. pending' # NoSet => pending'.rm \subseteq removed
    BY <1>2, <2>1 DEF AddInv, RemovedInv
  <2> QED BY <1>1, <2>1, <2>2, ThreadKeepsAdd DEF OwedAdd, Idle
<1>5. ASSUME NEW d \in Devices, CreateFromEmptySet(d) PROVE AddInv'
  <2>1. /\ app.pc = "sending" /\ app'.left = app.left
        /\ UNCHANGED <<members, removed, expired, pending, rows, net, dev, acks, current, updateId,
                       inProgress, sends>>
    BY <1>5 DEF CreateFromEmptySet, store, update, counts, ghosts, TypeOK, App
  <2> QED BY <1>1, <1>2, <2>1, ThreadKeepsAdd DEF OwedAdd
<1>6. ASSUME NEW d \in Devices, CreateInconsistent(d) PROVE AddInv'
  <2>1. /\ app.pc = "sending" /\ app'.left \subseteq app.left /\ current = NoSet
        /\ UNCHANGED <<members, removed, expired, pending, rows, net, dev, acks, current, updateId,
                       inProgress, sends>>
    BY <1>6 DEF CreateInconsistent, store, update, counts, ghosts, TypeOK, App
  <2> QED BY <1>1, <1>2, <2>1, ThreadKeepsAdd DEF OwedAdd
<1>7. ASSUME NEW d \in Devices, ResendPending(d) PROVE AddInv'
  <2>1. \A r \in rows : r.id # d
    BY GroupUpdateAssumption DEF TypeOK, Ack
  <2>2. net' = net
    BY <1>7, <2>1 DEF ResendPending, HasWaitAckGroupDevice
  <2>3. current = NoSet
    BY <1>7 DEF AddInv, ListInv, ResendPending
  <2>4. /\ app.pc = "sending" /\ app'.left \subseteq app.left
        /\ UNCHANGED <<members, removed, expired, pending, rows, dev, acks, current, updateId,
                       inProgress, sends>>
    BY <1>7 DEF ResendPending, store, update, counts, ghosts, TypeOK, App
  <2> QED BY <1>1, <1>2, <2>2, <2>3, <2>4, ThreadKeepsAdd DEF OwedAdd
<1> QED BY <1>3, <1>4, <1>5, <1>6, <1>7

(* A message without a current change set.                               *)
LEMMA PlainKeepsAdd ==
  ASSUME TypeOK, LeftInv, AddInv, NEW to, PrepareChangeSetSend(to), current = NoSet,
         UNCHANGED <<group, name, members, update, ghosts>>
  PROVE  AddInv'
<1>1. /\ sends \in Nat /\ sends' = sends + 1 /\ current = NoSet /\ current' = NoSet
      /\ UNCHANGED <<members, removed, expired, pending, rows, net, dev, acks, updateId>>
  BY NextId DEF PrepareChangeSetSend, update, ghosts
<1>2. ListInv' /\ RemovedInv'
  BY <1>1 DEF AddInv, ListInv, RemovedInv
<1>3. AddIdsInv'
  <2>1. /\ updateId <= sends'
        /\ \A d \in Devices : \A cs \in net[d] : cs.addId <= sends'
        /\ \A a \in acks : a.part = "add" => a.id <= sends'
    BY <1>1, AddTypes DEF AddInv, AddIdsInv
  <2> QED BY <1>1, <2>1 DEF AddInv, AddIdsInv
<1>4. AddAnswerInv' /\ AddWaitInv'
  BY <1>1 DEF AddInv, AddAnswerInv, AddWaitInv, Missing, Waits, Expired, OwedAdd
<1> QED BY <1>2, <1>3, <1>4 DEF AddInv

LEMMA AddInvInit == Init => AInv
<1> SUFFICES ASSUME Init PROVE AInv
  OBVIOUS
<1>1. TypeOK /\ LeftInv
  BY InitType DEF Init, LeftInv, Idle
<1>2. ListInv /\ RemovedInv /\ AddIdsInv /\ AddAnswerInv
  BY DEF Init, Idle, ListInv, RemovedInv, AddIdsInv, AddAnswerInv
<1>3. AddWaitInv
  BY DEF Init, AddWaitInv, Missing
<1> QED BY <1>1, <1>2, <1>3 DEF AInv, AddInv

LEMMA AddInvStep == AInv /\ [Next]_vars => AInv'
<1> SUFFICES ASSUME AInv, [Next]_vars PROVE AInv'
  OBVIOUS
<1>1. TypeOK /\ LeftInv /\ TypeOK' /\ LeftInv'
  BY TypeStep, LeftStep DEF AInv
<1>2. SUFFICES ASSUME Regular' PROVE AddInv'
  BY <1>1 DEF AInv
<1>3. Regular /\ AddInv
  BY <1>1, <1>2, RegularStep DEF AInv
<1>4. ASSUME NEW to \in Targets, PrepareChangeSetSend(to) PROVE AddInv'
  <2>1. CASE current = NoSet /\ UNCHANGED <<group, name, members, update, ghosts>>
    BY <1>1, <1>3, <1>4, <2>1, PlainKeepsAdd
  <2>2. CASE current # NoSet /\ Prepare(sends') /\ partial' = (partial \/ to # Devices)
    <3>1. to = Devices
      BY <1>2, <2>2 DEF Regular
    <3> QED BY <1>1, <1>3, <1>4, <2>2, <3>1, PrepareKeepsAdd
  <2> QED BY <1>4, <2>1, <2>2 DEF PrepareChangeSetSend
<1>5. CASE ProcessLeaveGroup \/ Crash
  BY <1>1, <1>2, <1>5 DEF ProcessLeaveGroup, Crash, Regular, TypeOK
<1>6. CASE UNCHANGED vars
  BY <1>3, <1>6 DEF vars, store, update, counts, ghosts, AddInv, ListInv, RemovedInv, AddIdsInv,
                    AddAnswerInv, AddWaitInv, OwedAdd, Missing, Waits, Expired
<1>7. group = "joined"
  BY <1>3 DEF Regular
<1> QED BY <1>1, <1>3, <1>4, <1>5, <1>6, <1>7, EditsKeepAdd, PrepareFailsKeepsAdd,
           SendingKeepsAdd, CreateKeepsAdd, ReceiveKeepsAdd, LoseKeepsAdd, AckKeepsAdd,
           OtherAcksKeepAdd DEF Next

(* While the group stands, the process lives and no message went to one  *)
(* member only: a device that does not know a member who was added, and  *)
(* was never removed, is waited for, until its record is dropped by age. *)
THEOREM NoMemberForgotten == Spec => []AddAwaited
<1>1. AInv => AddAwaited
  BY DEF AInv, AddInv, AddWaitInv, AddAwaited, Missing, OwedAdd, StillToSend
<1> QED BY <1>1, AddInvInit, AddInvStep, PTL DEF Spec

-----------------------------------------------------------------------------
(* What a change set tells.  A device that was sent additions is told once  *)
(* more, by a message or by a record that the next change set collapses, so *)
(* that one loss does no harm, unless the record is dropped by its age.     *)

Told(d) == UNION {cs.add : cs \in net[d]}
Others(d, m) == UNION {cs.add : cs \in net[d] \ {m}}

(* What the next change set for d takes from the pending one, and from the *)
(* one that is on its way once it is pending.                            *)
OpenPending(d) ==
  IF pending # NoSet /\ AddRow(d, pending.addId) \in rows THEN pending.add ELSE {}
OpenCurrent(d) ==
  IF current # NoSet /\ app.pc # "idle" /\ AddRow(d, current.addId) \in rows
  THEN current.add ELSE {}
Open(d) == OpenPending(d) \union OpenCurrent(d)

(* Additions that are being sent or collapsed name all members.          *)
FullInv ==
  /\ current # NoSet /\ app.pc # "idle" /\ current.addId # Absent =>
       members \ removed \subseteq current.add
  /\ pending # NoSet /\ pending.addId # Absent =>
       \/ members \ removed \subseteq pending.add
       \/ app.pc # "idle" /\ current # NoSet /\ current.addId = updateId

(* The pending change set is of an earlier update.                       *)
PendingInv ==
  pending # NoSet =>
    /\ pending.addId <= sends
    /\ app.pc # "idle" /\ current # NoSet => pending.addId < updateId

(* What d owes of the pending change set has been collapsed.             *)
CollapsedInv ==
  app.pc # "idle" /\ current # NoSet => \A d \in Devices \ app.left : OpenPending(d) = {}

(* What was not lost is known, or on its way.                            *)
Heard(d) == losses = 0 => Missing(d) \subseteq Told(d)

Safe(d) ==
  /\ losses = 0 =>
       \A m \in net[d] : Missing(d) \subseteq Others(d, m) \union Open(d)
  /\ losses <= 1 => Missing(d) \subseteq Told(d) \union Open(d)

SafeInv ==
  \A d \in Devices : OwedAdd(d) \/ (Heard(d) /\ (Safe(d) \/ Expired(d, "add")))

TellInv == FullInv /\ PendingInv /\ CollapsedInv /\ SafeInv

(* The inductive invariant.                                              *)
TInv == IInv /\ AInv /\ (Regular => TellInv)

LEMMA SafeKeeps ==
  ASSUME NEW d \in Devices, OwedAdd(d) \/ (Heard(d) /\ (Safe(d) \/ Expired(d, "add"))),
         net'[d] = net[d], losses' = losses,
         OwedAdd(d) => OwedAdd(d)', Expired(d, "add") => Expired(d, "add")',
         Missing(d)' \subseteq Missing(d), Open(d) \subseteq Open(d)'
  PROVE  OwedAdd(d)' \/ (Heard(d)' /\ (Safe(d)' \/ Expired(d, "add")'))
<1>1. Told(d)' = Told(d) /\ \A m : Others(d, m)' = Others(d, m)
  BY DEF Told, Others
<1>2. Heard(d) => Heard(d)'
  BY <1>1 DEF Heard
<1>3. Safe(d) => Safe(d)'
  BY <1>1 DEF Safe
<1> QED BY <1>2, <1>3

(* Steps of the application thread that leave messages and records alone.*)
LEMMA ThreadTells ==
  ASSUME TellInv,
         UNCHANGED <<members, removed, rows, expired, net, dev, losses, pending, sends>>,
         current' # NoSet /\ app'.pc # "idle" =>
           /\ app.pc # "idle" /\ UNCHANGED <<current, updateId>>
           /\ app'.left = app.left,
         app.pc # "idle" => current = NoSet \/ (app'.pc # "idle" /\ UNCHANGED <<current, updateId>>),
         \A d : OwedAdd(d) => OwedAdd(d)',
         \A d \in Devices : ~OwedAdd(d) => OpenCurrent(d) \subseteq OpenCurrent(d)'
  PROVE  TellInv'
<1>1. \A d : OpenPending(d)' = OpenPending(d) /\ Missing(d)' = Missing(d)
  BY DEF OpenPending, Missing
<1>2. PendingInv' /\ CollapsedInv'
  BY <1>1 DEF TellInv, PendingInv, CollapsedInv
<1>3. FullInv'
  BY DEF TellInv, FullInv
<1>4. SafeInv'
  <2>1. ASSUME NEW d \in Devices
        PROVE  OwedAdd(d)' \/ (Heard(d)' /\ (Safe(d)' \/ Expired(d, "add")'))
    <3>1. CASE OwedAdd(d)
      BY <3>1
    <3>2. CASE ~OwedAdd(d)
      <4>1. Open(d) \subseteq Open(d)'
        BY <1>1, <3>2 DEF Open
      <4>2. Expired(d, "add") => Expired(d, "add")'
        BY DEF Expired
      <4>3. net'[d] = net[d] /\ losses' = losses /\ Missing(d)' \subseteq Missing(d)
        BY <1>1
      <4> QED BY <4>1, <4>2, <4>3, SafeKeeps DEF TellInv, SafeInv
    <3> QED BY <3>1, <3>2
  <2> QED BY <2>1 DEF SafeInv
<1> QED BY <1>2, <1>3, <1>4 DEF TellInv

LEMMA EditTells ==
  ASSUME TypeOK, LeftInv, TellInv, NEW cs, Edit(cs)
  PROVE  TellInv'
<1>1. /\ app.pc = "idle" /\ app' = app
      /\ UNCHANGED <<members, removed, rows, expired, net, dev, losses, pending, sends>>
  BY DEF Edit, store, ghosts
<1>2. \A d : ~OwedAdd(d)
  BY <1>1, IdleOwesNoAddition
<1>3. \A d : OpenCurrent(d) = {}
  BY <1>1 DEF OpenCurrent
<1> QED BY <1>1, <1>2, <1>3, ThreadTells

(* Who is to be told of more members is told in this update.             *)
LEMMA PrepareTells ==
  ASSUME TypeOK, LeftInv, AddInv, TellInv,
         PrepareChangeSetSend(Devices), current # NoSet, Prepare(sends')
  PROVE  TellInv'
<1>1. /\ app.pc = "idle" /\ app' = [pc |-> "prepared", left |-> Devices]
      /\ sends \in Nat /\ sends' = sends + 1 /\ sends' \in 0 .. MaxSends
      /\ UNCHANGED <<rows, expired, pending, net, dev, losses>>
  BY NextId DEF PrepareChangeSetSend, Prepare
<1>2. /\ current' # NoSet /\ updateId' = sends'
      /\ current.addId # Absent => current'.addId = sends'
      /\ current.addId = Absent => current'.addId = Absent
  <2>1. current' \in ChangeSet /\ updateId' = sends' /\ name' \in Names
    BY <1>1, PrepareType
  <2>2. current' = StampRemove(StampAdd(StampName(current, sends'), sends', name'), sends')
    BY DEF Prepare
  <2>3. current \in ChangeSet /\ members \subseteq Users
    BY DEF TypeOK
  <2>4. /\ current.addId # Absent => current'.addId = sends'
        /\ current.addId = Absent => current'.addId = Absent
    BY <1>1, <2>1, <2>2, <2>3, StampedLists
  <2> QED BY <2>1, <2>4, NoSetAssumption
<1>3. PendingInv'
  <2>1. pending # NoSet => pending.addId \in Int
    BY GroupUpdateAssumption DEF TypeOK, ChangeSet
  <2> QED BY <1>1, <1>2, <2>1 DEF TellInv, PendingInv
<1>4. CollapsedInv'
  BY <1>1 DEF CollapsedInv
<1>5. CASE current.addId # Absent
  <2>1. \A d \in Devices : OwedAdd(d)'
    BY <1>1, <1>2, <1>5 DEF OwedAdd
  <2>2. FullInv'
    <3>1. ListInv'
      BY PrepareKeepsAdd DEF AddInv
    <3> QED BY <1>1, <1>2, <1>5, <3>1 DEF FullInv, ListInv
  <2> QED BY <1>3, <1>4, <2>1, <2>2 DEF TellInv, SafeInv
<1>6. CASE current.addId = Absent
  <2>1. members' \subseteq members /\ removed \subseteq removed'
    BY <1>6 DEF Prepare, AddInv, ListInv
  <2>2. \A d : ~OwedAdd(d) /\ Missing(d)' \subseteq Missing(d)
    BY <1>1, <2>1, IdleOwesNoAddition DEF Missing
  <2>3. \A d : Open(d) \subseteq Open(d)' /\ (Expired(d, "add") => Expired(d, "add")')
    BY <1>1 DEF Open, OpenPending, OpenCurrent, Expired
  <2>4. SafeInv'
    <3>1. ASSUME NEW d \in Devices
          PROVE  OwedAdd(d)' \/ (Heard(d)' /\ (Safe(d)' \/ Expired(d, "add")'))
      BY <1>1, <2>2, <2>3, SafeKeeps DEF TellInv, SafeInv
    <3> QED BY <3>1 DEF SafeInv
  <2>5. FullInv'
    BY <1>1, <1>2, <1>6, <2>1 DEF TellInv, FullInv
  <2> QED BY <1>3, <1>4, <2>4, <2>5 DEF TellInv
<1> QED BY <1>5, <1>6

LEMMA PrepareFailsTells ==
  ASSUME TypeOK, LeftInv, TellInv, PrepareFails
  PROVE  TellInv'
<1>1. /\ app.pc = "idle" /\ app' = app /\ sends \in Nat /\ sends' = sends + 1
      /\ UNCHANGED <<members, removed, rows, expired, pending, net, dev, losses>>
  BY NextId DEF PrepareFails, store, ghosts
<1>2. \A d : /\ ~OwedAdd(d) /\ Missing(d)' = Missing(d) /\ Open(d)' = Open(d)
             /\ Expired(d, "add")' = Expired(d, "add")
  BY <1>1, IdleOwesNoAddition DEF Missing, Open, OpenPending, OpenCurrent, Expired
<1>3. PendingInv' /\ FullInv'
  <2>1. pending # NoSet => pending.addId \in Int
    BY GroupUpdateAssumption DEF TypeOK, ChangeSet
  <2> QED BY <1>1, <2>1 DEF TellInv, PendingInv, FullInv
<1>4. SafeInv'
  <2>1. ASSUME NEW d \in Devices
        PROVE  OwedAdd(d)' \/ (Heard(d)' /\ (Safe(d)' \/ Expired(d, "add")'))
    BY <1>1, <1>2, SafeKeeps DEF TellInv, SafeInv
  <2> QED BY <2>1 DEF SafeInv
<1> QED BY <1>1, <1>3, <1>4 DEF TellInv, CollapsedInv

(* What a change set tells a device.                                     *)
LEMMA CreateFacts ==
  ASSUME TypeOK, AddInv, NEW d \in Devices, CreateChangeSetDevice(d)
  PROVE  /\ OwedAdd(d) => members \ removed \subseteq Collapsed(d).add /\ Collapsed(d).addId = updateId
         /\ ~OwedAdd(d) => OpenCurrent(d) = {}
         /\ OpenPending(d) \subseteq Collapsed(d).add
         /\ AddRow(d, pending.addId) \in rows /\ pending # NoSet => Collapsed(d).addId # Absent
         /\ current.add \subseteq Collapsed(d).add
         /\ current.addId = updateId => Collapsed(d).addId = updateId
<1>1. /\ app.pc = "sending" /\ d \in app.left /\ current # NoSet
      /\ current.addId \in {Absent, 0, updateId} /\ updateId > 0 /\ updateId \in Nat
      /\ current.addId = updateId => members \ removed \subseteq current.add
      /\ \A r \in rows : r.part = "add" => r.id > 0
  BY AddTypes DEF CreateChangeSetDevice, AddInv, ListInv, AddIdsInv
<1>2. /\ current.addId # Absent => Collapsed(d).addId = current.addId
      /\ current.add \subseteq Collapsed(d).add
      /\ pending # NoSet /\ AddRow(d, pending.addId) \in rows =>
           Collapsed(d).addId # Absent /\ pending.add \subseteq Collapsed(d).add
  BY <1>1, CollapsedLists
<1>3. current.addId # updateId => AddRow(d, current.addId) \notin rows
  BY <1>1 DEF AddRow
<1> QED BY <1>1, <1>2, <1>3 DEF OwedAdd, OpenPending, OpenCurrent

(* A change set with additions names all members, those it collapses, too. *)
LEMMA CollapsedIsFull ==
  ASSUME TypeOK, AddInv, TellInv, current # NoSet, app.pc # "idle", NEW d \in Devices,
         Collapsed(d).addId # Absent
  PROVE  members \ removed \subseteq Collapsed(d).add
<1>1. CASE current.addId # Absent
  BY <1>1, CollapsedLists DEF TellInv, FullInv
<1>2. CASE current.addId = Absent
  <2>1. /\ pending # NoSet /\ AddRow(d, pending.addId) \in rows
        /\ pending.add \subseteq Collapsed(d).add
    BY <1>2, CollapsedLists
  <2>2. pending.addId # Absent
    BY <2>1 DEF AddInv, AddIdsInv, AddRow
  <2>3. current.addId # updateId
    BY <1>2, AddTypes
  <2> QED BY <2>1, <2>2, <2>3 DEF TellInv, FullInv
<1> QED BY <1>1, <1>2

(* Its name has the id of this update, which no earlier message has.     *)
LEMMA CollapsedIsNew ==
  ASSUME TypeOK, NameInv, current # NoSet, app.pc # "idle", NEW d \in Devices, d \in app.left,
         Collapsed(d).addId # Absent
  PROVE  Collapsed(d) \notin net[d]
<1>1. Collapsed(d).nameId = updateId
  BY CollapsedType DEF NameInv, StampInv
<1>2. \A cs \in net[d] : cs.nameId < updateId
  BY DEF NameInv, IdsInv
<1> QED BY <1>1, <1>2, NameTypes

LEMMA CreateTells ==
  ASSUME TypeOK, NameInv, AddInv, TellInv, NEW d \in Devices, CreateChangeSetDevice(d)
  PROVE  TellInv' /\ (losses <= 1 /\ ~Expired(d, "add") => Missing(d) \subseteq Told(d)')
<1> DEFINE cs == Collapsed(d)
<1>1. /\ app.pc = "sending" /\ d \in app.left /\ current # NoSet
      /\ app'.pc = "sending" /\ app'.left = app.left \ {d}
      /\ current' = cs /\ rows' = RowsFor(d, cs)
      /\ net' = [net EXCEPT ![d] = @ \union {cs}]
      /\ expired' = expired \ [dev : {d}, part : PartsOf(cs)]
      /\ UNCHANGED <<members, removed, pending, updateId, dev, sends, losses>>
  BY DEF CreateChangeSetDevice, TypeOK, App, counts
<1>2. cs \in ChangeSet /\ cs # NoSet
  BY <1>1, CollapsedType, NoSetAssumption
<1>3. /\ OwedAdd(d) => members \ removed \subseteq cs.add /\ cs.addId = updateId
      /\ ~OwedAdd(d) => OpenCurrent(d) = {}
      /\ OpenPending(d) \subseteq cs.add
      /\ pending # NoSet /\ AddRow(d, pending.addId) \in rows => cs.addId # Absent
      /\ current.add \subseteq cs.add
      /\ current.addId = updateId => cs.addId = updateId
  BY CreateFacts
<1>4. /\ \A e \in Devices \ {d} : \A id : AddRow(e, id) \in rows' <=> AddRow(e, id) \in rows
      /\ cs.addId = Absent => \A id : AddRow(d, id) \in rows' <=> AddRow(d, id) \in rows
      /\ cs.addId # Absent => \A id : AddRow(d, id) \in rows' <=> id = updateId
  BY <1>1 DEF RowsFor, AddRow, PartsOf, IdOf, Parts
<1>5. \A r \in rows : r.part = "add" => r.id > 0
  BY DEF AddInv, AddIdsInv
<1>6. current.addId \in {Absent, 0, updateId} /\ updateId \in Nat
  BY <1>1, AddTypes DEF AddInv, ListInv
<1>16. cs.addId # Absent => members \ removed \subseteq cs.add
  BY <1>1, CollapsedIsFull
<1>17. cs.addId # Absent => cs \notin net[d]
  BY <1>1, CollapsedIsNew
<1>18. cs.addId = Absent => cs.add = {}
  <2>1. CASE current.addId = Absent
    BY <1>1, <2>1, CollapsedLists DEF AddInv, ListInv
  <2>2. CASE current.addId # Absent
    BY <1>1, <2>2, CollapsedLists
  <2> QED BY <2>1, <2>2
<1>19. /\ \A e \in Devices \ {d} : Expired(e, "add") => Expired(e, "add")'
       /\ cs.addId = Absent /\ Expired(d, "add") => Expired(d, "add")'
  BY <1>1 DEF Expired, PartsOf, IdOf
<1> HIDE DEF cs
<1>7. /\ \A e \in Devices \ {d} : net'[e] = net[e]
      /\ net'[d] = net[d] \union {cs}
  BY <1>1 DEF TypeOK
<1>9. Told(d)' = Told(d) \union cs.add
  BY <1>7 DEF Told
<1>10. losses <= 1 /\ ~Expired(d, "add") => Missing(d) \subseteq Told(d)'
  BY <1>3, <1>9 DEF TellInv, SafeInv, Safe, Open, Missing
<1>11. \A e \in Devices : Missing(e)' = Missing(e)
  BY <1>1 DEF Missing
<1>12. PendingInv'
  BY <1>1 DEF TellInv, PendingInv
<1>13. CollapsedInv'
  <2>1. \A e \in Devices \ {d} : OpenPending(e)' = OpenPending(e)
    BY <1>1, <1>4 DEF OpenPending
  <2>2. OpenPending(d)' = {}
    <3>1. pending # NoSet => pending.addId < updateId /\ pending.addId \in Int
      BY <1>1, GroupUpdateAssumption DEF TellInv, PendingInv, TypeOK, ChangeSet
    <3>2. pending # NoSet => AddRow(d, pending.addId) \notin rows'
      BY <1>3, <1>4, <1>6, <3>1
    <3> QED BY <1>1, <3>2 DEF OpenPending
  <2> QED BY <1>1, <2>1, <2>2 DEF TellInv, CollapsedInv
<1>14. ASSUME NEW e \in Devices \ {d}
       PROVE  OwedAdd(e)' \/ (Heard(e)' /\ (Safe(e)' \/ Expired(e, "add")'))
  <2>1. CASE OwedAdd(e)
    BY <1>1, <1>2, <1>3, <2>1 DEF OwedAdd
  <2>2. CASE ~OwedAdd(e)
    <3>1. OpenPending(e)' = OpenPending(e)
      BY <1>1, <1>4 DEF OpenPending
    <3>2. OpenCurrent(e) \subseteq OpenCurrent(e)'
      <4>1. AddRow(e, current.addId) \in rows => current.addId = updateId
        BY <1>5, <1>6 DEF AddRow
      <4> QED BY <1>1, <1>2, <1>3, <1>4, <4>1 DEF OpenCurrent
    <3>3. Open(e) \subseteq Open(e)' /\ Missing(e)' \subseteq Missing(e)
      BY <1>11, <3>1, <3>2 DEF Open
    <3> QED BY <1>1, <1>7, <1>19, <2>2, <3>3, SafeKeeps DEF TellInv, SafeInv
  <2> QED BY <2>1, <2>2
<1>15. Heard(d)' /\ (Safe(d)' \/ Expired(d, "add")')
  <2>0. Missing(d)' = Missing(d) /\ Missing(d) \subseteq members \ removed /\ losses' = losses
    BY <1>1, <1>11 DEF Missing
  <2>1. CASE OwedAdd(d)
    <3>1. AddRow(d, cs.addId) \in rows'
      BY <1>3, <1>4, <1>6, <2>1
    <3>2. OpenCurrent(d)' = cs.add
      BY <1>1, <1>2, <3>1 DEF OpenCurrent
    <3>3. Missing(d)' \subseteq cs.add
      BY <1>3, <2>0, <2>1
    <3> QED BY <1>9, <3>2, <3>3 DEF Heard, Safe, Open
  <2>2. CASE ~OwedAdd(d)
    <3>1. Heard(d)'
      BY <1>9, <2>0, <2>2 DEF TellInv, SafeInv, Heard
    <3>2. CASE cs.addId # Absent
      <4>1. Missing(d) \subseteq cs.add
        BY <1>16, <2>0, <3>2
      <4>2. ASSUME losses = 0, NEW m \in net'[d] PROVE Missing(d) \subseteq Others(d, m)'
        <5>1. CASE m = cs
          <6>1. Told(d) \subseteq Others(d, m)'
            BY <1>7, <1>17, <3>2, <5>1 DEF Told, Others
          <6>2. Missing(d) \subseteq Told(d)
            BY <2>2, <4>2 DEF TellInv, SafeInv, Heard
          <6> QED BY <6>1, <6>2
        <5>2. CASE m # cs
          <6>1. cs.add \subseteq Others(d, m)'
            BY <1>7, <5>2 DEF Others
          <6> QED BY <4>1, <6>1
        <5> QED BY <5>1, <5>2
      <4>3. Safe(d)'
        BY <1>9, <2>0, <4>1, <4>2 DEF Safe
      <4> QED BY <3>1, <4>3
    <3>3. CASE cs.addId = Absent
      <4>1. CASE Expired(d, "add")
        BY <1>19, <3>1, <3>3, <4>1
      <4>2. CASE ~Expired(d, "add")
        <5>1. Safe(d) /\ Open(d) \subseteq cs.add /\ cs.add = {}
          BY <1>3, <1>18, <2>2, <3>3, <4>2 DEF TellInv, SafeInv, Open
        <5>2. ASSUME losses = 0, NEW m \in net'[d] PROVE Missing(d) \subseteq Others(d, m)'
          <6>1. Others(d, m) \subseteq Others(d, m)'
            BY <1>7 DEF Others
          <6>2. CASE m \in net[d]
            BY <5>1, <5>2, <6>1, <6>2 DEF Safe
          <6>3. CASE m = cs
            <7>1. Told(d) \subseteq Others(d, m)'
              BY <1>7, <5>1, <6>3 DEF Told, Others
            <7>2. Missing(d) \subseteq Told(d)
              BY <2>2, <5>2 DEF TellInv, SafeInv, Heard
            <7> QED BY <7>1, <7>2
          <6> QED BY <1>7, <6>2, <6>3
        <5>3. Safe(d)'
          BY <1>9, <2>0, <5>1, <5>2 DEF Safe
        <5> QED BY <3>1, <5>3
      <4> QED BY <4>1, <4>2
    <3> QED BY <3>2, <3>3
  <2> QED BY <2>1, <2>2
<1>20. FullInv'
  BY <1>1, <1>2, <1>3, <1>16 DEF TellInv, FullInv
<1> QED BY <1>10, <1>12, <1>13, <1>14, <1>15, <1>20 DEF TellInv, SafeInv

LEMMA ReceiveTells ==
  ASSUME TypeOK, AddInv, TellInv, NEW d \in Devices, NEW cs \in net[d], Receive(d, cs)
  PROVE  TellInv'
<1>1. /\ dev' = [dev EXCEPT ![d] = Updated(@, cs)]
      /\ net' = [net EXCEPT ![d] = @ \ {cs}]
      /\ UNCHANGED <<members, removed, expired, pending, rows, current, app, updateId,
                     sends, losses>>
  BY DEF Receive, store, update, counts, ghosts
<1>2. cs.rm \subseteq removed
  BY DEF AddInv, RemovedInv
<1>3. /\ \A e \in Devices \ {d} : dev'[e] = dev[e]
      /\ dev'[d].members = (dev[d].members \union (cs.add \ cs.rm)) \ cs.rm
  BY <1>1 DEF Updated, TypeOK
<1>4. /\ \A e \in Devices \ {d} : net'[e] = net[e]
      /\ net'[d] = net[d] \ {cs}
  BY <1>1 DEF TypeOK
<1>9. /\ Told(d) \subseteq Told(d)' \union cs.add
      /\ \A m : Others(d, m) \subseteq Others(d, m)' \union cs.add
  BY <1>4 DEF Told, Others
<1>5. /\ \A e \in Devices \ {d} : Missing(e)' = Missing(e)
      /\ Missing(d)' \subseteq Missing(d) \ cs.add
  BY <1>1, <1>2, <1>3 DEF Missing
<1>6. \A e : /\ OwedAdd(e)' = OwedAdd(e) /\ Open(e)' = Open(e)
             /\ OpenPending(e)' = OpenPending(e) /\ Expired(e, "add")' = Expired(e, "add")
  BY <1>1 DEF OwedAdd, Open, OpenPending, OpenCurrent, Expired
<1>7. (Safe(d) => Safe(d)') /\ (Heard(d) => Heard(d)')
  BY <1>1, <1>4, <1>5, <1>6, <1>9 DEF Safe, Heard
<1>8. SafeInv'
  <2>1. ASSUME NEW e \in Devices \ {d}
        PROVE  OwedAdd(e)' \/ (Heard(e)' /\ (Safe(e)' \/ Expired(e, "add")'))
    BY <1>1, <1>4, <1>5, <1>6, SafeKeeps DEF TellInv, SafeInv
  <2> QED BY <1>6, <1>7, <2>1 DEF TellInv, SafeInv
<1> QED BY <1>1, <1>6, <1>8 DEF TellInv, FullInv, PendingInv, CollapsedInv

(* The first loss takes what another message or a record still tells.    *)
LEMMA LoseTells ==
  ASSUME TypeOK, TellInv, NEW d \in Devices, NEW cs \in net[d], Lose(d, cs)
  PROVE  TellInv'
<1>1. /\ net' = [net EXCEPT ![d] = @ \ {cs}]
      /\ losses \in Nat /\ losses' = losses + 1
      /\ UNCHANGED <<members, removed, expired, pending, rows, dev, current, app, updateId, sends>>
  BY DEF Lose, TypeOK, store, update, ghosts
<1>2. /\ \A e \in Devices \ {d} : net'[e] = net[e]
      /\ net'[d] = net[d] \ {cs}
  BY <1>1 DEF TypeOK
<1>3. \A e : /\ OwedAdd(e)' = OwedAdd(e) /\ Open(e)' = Open(e)
             /\ OpenPending(e)' = OpenPending(e) /\ Missing(e)' = Missing(e)
             /\ Expired(e, "add")' = Expired(e, "add")
  BY <1>1 DEF OwedAdd, Open, OpenPending, OpenCurrent, Missing, Expired
<1>4. losses' # 0 /\ (losses' <= 1 => losses = 0)
  BY <1>1
<1>5. Safe(d) => Safe(d)'
  <2>1. Told(d)' = Others(d, cs)
    BY <1>2 DEF Told, Others
  <2> QED BY <1>3, <1>4, <2>1 DEF Safe
<1>6. \A e \in Devices \ {d} : Safe(e) => Safe(e)'
  <2>1. \A e \in Devices \ {d} : Told(e)' = Told(e)
    BY <1>2 DEF Told
  <2> QED BY <1>1, <1>3, <1>4, <2>1 DEF Safe
<1>7. SafeInv'
  BY <1>3, <1>4, <1>5, <1>6 DEF TellInv, SafeInv, Heard
<1> QED BY <1>1, <1>3, <1>7 DEF TellInv, FullInv, PendingInv, CollapsedInv

(* A record goes when the device knows all members, or by its age.       *)
LEMMA RecordsGoTells ==
  ASSUME TypeOK, TellInv, NEW answered, NEW old \in SUBSET rows, CleanWaitAck(old, answered),
         UNCHANGED <<members, removed, pending, net, dev, losses, current, app, updateId, sends>>,
         \A r \in rows \intersect answered :
           r.part = "add" => Missing(r.dev) = {} \/ OwedAdd(r.dev)
  PROVE  TellInv'
<1>1. /\ rows' \subseteq rows /\ expired \subseteq expired'
      /\ \A r \in rows : r \in rows' \/ r \in answered \/ Expired(r.dev, r.part)'
  BY CleaningKeeps
<1>2. \A e : /\ OwedAdd(e)' = OwedAdd(e) /\ Missing(e)' = Missing(e)
             /\ OpenPending(e)' \subseteq OpenPending(e)
  BY <1>1 DEF OwedAdd, Missing, OpenPending
<1>3. ASSUME NEW e \in Devices
      PROVE  OwedAdd(e)' \/ (Heard(e)' /\ (Safe(e)' \/ Expired(e, "add")'))
  <2>0. Told(e)' = Told(e) /\ (Heard(e) => Heard(e)')
    BY <1>2 DEF Told, Heard
  <2>1. CASE OwedAdd(e) \/ Missing(e) = {}
    BY <1>2, <2>1 DEF Heard, Safe
  <2>2. CASE ~OwedAdd(e) /\ Missing(e) # {} /\ ~Expired(e, "add")'
    <3>1. ASSUME NEW id, AddRow(e, id) \in rows PROVE AddRow(e, id) \in rows'
      BY <1>1, <2>2, <3>1 DEF AddRow
    <3>2. Open(e) \subseteq Open(e)'
      BY <3>1 DEF Open, OpenPending, OpenCurrent
    <3>3. Expired(e, "add") => Expired(e, "add")'
      BY <1>1 DEF Expired
    <3> QED BY <1>2, <3>2, <3>3, SafeKeeps DEF TellInv, SafeInv
  <2>3. CASE ~OwedAdd(e) /\ Expired(e, "add")'
    BY <2>0, <2>3 DEF TellInv, SafeInv
  <2> QED BY <2>1, <2>2, <2>3
<1>4. SafeInv'
  BY <1>3 DEF SafeInv
<1>5. FullInv' /\ PendingInv' /\ CollapsedInv'
  BY <1>1, <1>2 DEF TellInv, FullInv, PendingInv, CollapsedInv
<1> QED BY <1>4, <1>5 DEF TellInv

LEMMA AckTells ==
  ASSUME TypeOK, AddInv, TellInv, group = "joined", NEW a \in acks, ProcessAck(a)
  PROVE  TellInv'
<1>1. UNCHANGED <<members, removed, pending, net, dev, losses, current, app, updateId, sends>>
  BY DEF ProcessAck, update
<1>2. PICK old \in SUBSET rows : CleanWaitAck(old, {a})
  BY DEF ProcessAck
<1>3. \A r \in rows \intersect {a} :
        r.part = "add" => Missing(r.dev) = {} \/ OwedAdd(r.dev)
  BY DEF AddInv, AddAnswerInv
<1> QED BY <1>1, <1>2, <1>3, RecordsGoTells

LEMMA OtherAcksTell ==
  ASSUME TypeOK, TellInv, ProcessOtherAcks
  PROVE  TellInv'
<1>1. UNCHANGED <<members, removed, pending, net, dev, losses, current, app, updateId, sends>>
  BY DEF ProcessOtherAcks, update
<1>2. PICK old \in SUBSET rows : CleanWaitAck(old, {})
  BY DEF ProcessOtherAcks
<1> QED BY <1>1, <1>2, RecordsGoTells

LEMMA SendingTells ==
  ASSUME TypeOK, LeftInv, AddInv, TellInv, group = "joined",
         \/ StartSending \/ GroupUpdateSendDone
         \/ \E d \in Devices : CreateFromEmptySet(d) \/ CreateInconsistent(d) \/ ResendPending(d)
  PROVE  TellInv'
<1>1. CASE StartSending \/ \E d \in Devices : CreateFromEmptySet(d)
  <2>1. /\ app.pc # "idle" /\ app'.pc # "idle" /\ app'.left = app.left
        /\ UNCHANGED <<members, removed, rows, expired, net, dev, losses, pending, sends, current,
                       updateId>>
    BY <1>1 DEF StartSending, CreateFromEmptySet, store, update, counts, ghosts, TypeOK, App
  <2> QED BY <2>1, ThreadTells DEF OwedAdd, OpenCurrent
<1>2. ASSUME NEW d \in Devices, CreateInconsistent(d) \/ ResendPending(d) PROVE TellInv'
  <2>1. \A r \in rows : r.id # d
    BY GroupUpdateAssumption DEF TypeOK, Ack
  <2>2. current = NoSet
    BY <1>2 DEF AddInv, ListInv, CreateInconsistent, ResendPending
  <2>3. UNCHANGED <<members, removed, rows, expired, net, dev, losses, pending, sends, current,
                       updateId>>
    BY <1>2, <2>1 DEF CreateInconsistent, ResendPending, HasWaitAckGroupDevice, store, update,
                      counts, ghosts
  <2> QED BY <2>2, <2>3, ThreadTells DEF OwedAdd, OpenCurrent
<1>3. CASE GroupUpdateSendDone
  <2>1. /\ app.left = {} /\ app.pc = "sending" /\ app' = Idle
        /\ UNCHANGED <<members, removed, rows, expired, net, dev, losses, sends>>
    BY <1>3 DEF GroupUpdateSendDone, counts, ghosts
  <2>2. app'.pc = "idle" /\ \A d : ~OwedAdd(d)
    BY <2>1 DEF Idle, OwedAdd
  <2>3. CASE current = NoSet
    <3>1. pending' = pending
      BY <1>3, <2>3 DEF GroupUpdateSendDone
    <3> QED BY <2>1, <2>2, <2>3, <3>1, ThreadTells DEF OpenCurrent
  <2>4. CASE current # NoSet
    <3>1. pending' = current
      BY <1>3, <2>1, <2>4 DEF GroupUpdateSendDone, AddInv, ListInv
    <3>2. current.addId <= sends
      BY <2>1, <2>4, AddTypes DEF AddInv, ListInv, AddIdsInv
    <3>3. PendingInv' /\ CollapsedInv'
      BY <2>1, <2>2, <3>1, <3>2 DEF PendingInv, CollapsedInv
    <3>4. \A d \in Devices : OpenPending(d) = {}
      BY <2>1, <2>4 DEF TellInv, CollapsedInv
    <3>5. \A d : OpenCurrent(d) \subseteq OpenPending(d)'
      BY <2>1, <2>4, <3>1 DEF OpenCurrent, OpenPending
    <3>6. \A d \in Devices : /\ Open(d) \subseteq Open(d)' /\ Missing(d)' = Missing(d)
                             /\ Expired(d, "add")' = Expired(d, "add")
      BY <2>1, <3>4, <3>5 DEF Open, Missing, Expired
    <3>7. SafeInv'
      <4>1. ASSUME NEW d \in Devices
            PROVE  OwedAdd(d)' \/ (Heard(d)' /\ (Safe(d)' \/ Expired(d, "add")'))
        BY <2>1, <2>2, <3>6, SafeKeeps DEF TellInv, SafeInv
      <4> QED BY <4>1 DEF SafeInv
    <3>8. FullInv'
      BY <2>1, <2>2, <2>4, <3>1 DEF TellInv, FullInv
    <3> QED BY <3>3, <3>7, <3>8 DEF TellInv
  <2> QED BY <2>3, <2>4
<1> QED BY <1>1, <1>2, <1>3

LEMMA PlainTells ==
  ASSUME TypeOK, LeftInv, TellInv, NEW to, PrepareChangeSetSend(to), current = NoSet,
         UNCHANGED <<group, name, members, update, ghosts>>
  PROVE  TellInv'
<1>1. /\ sends \in Nat /\ sends' = sends + 1 /\ current' = NoSet
      /\ UNCHANGED <<members, removed, expired, pending, rows, net, dev, losses, updateId>>
  BY NextId DEF PrepareChangeSetSend, update, ghosts
<1>2. \A d : /\ ~OwedAdd(d) /\ Missing(d)' = Missing(d) /\ OpenPending(d)' = OpenPending(d)
             /\ Open(d)' = Open(d) /\ Expired(d, "add")' = Expired(d, "add")
  BY <1>1 DEF OwedAdd, Missing, Open, OpenPending, OpenCurrent, Expired
<1>3. PendingInv' /\ FullInv'
  <2>1. pending # NoSet => pending.addId \in Int
    BY GroupUpdateAssumption DEF TypeOK, ChangeSet
  <2> QED BY <1>1, <2>1 DEF TellInv, PendingInv, FullInv
<1>4. SafeInv'
  <2>1. ASSUME NEW d \in Devices
        PROVE  OwedAdd(d)' \/ (Heard(d)' /\ (Safe(d)' \/ Expired(d, "add")'))
    BY <1>1, <1>2, SafeKeeps DEF TellInv, SafeInv
  <2> QED BY <2>1 DEF SafeInv
<1> QED BY <1>1, <1>3, <1>4 DEF TellInv, CollapsedInv

LEMMA TellInit == Init => TInv
<1> SUFFICES ASSUME Init PROVE TellInv
  BY InvInit, AddInvInit DEF TInv
<1>1. \A d \in Devices : Missing(d) = {}
  BY DEF Init, Missing
<1> QED BY <1>1 DEF Init, Idle, TellInv, FullInv, PendingInv, CollapsedInv, SafeInv, Safe, Heard

LEMMA TellStep == TInv /\ [Next]_vars => TInv'
<1> SUFFICES ASSUME TInv, [Next]_vars, Regular' PROVE TellInv'
  BY InvStep, AddInvStep DEF TInv
<1>1. TypeOK /\ LeftInv /\ Regular /\ NameInv /\ AddInv /\ TellInv /\ group = "joined"
  <2>1. Regular
    BY RegularStep DEF TInv, AInv
  <2> QED BY <2>1 DEF TInv, IInv, AInv, Regular
<1>2. ASSUME NEW to \in Targets, PrepareChangeSetSend(to) PROVE TellInv'
  <2>1. CASE current = NoSet /\ UNCHANGED <<group, name, members, update, ghosts>>
    BY <1>1, <1>2, <2>1, PlainTells
  <2>2. CASE current # NoSet /\ Prepare(sends') /\ partial' = (partial \/ to # Devices)
    <3>1. to = Devices
      BY <2>2 DEF Regular
    <3> QED BY <1>1, <1>2, <2>2, <3>1, PrepareTells
  <2> QED BY <1>2, <2>1, <2>2 DEF PrepareChangeSetSend
<1>3. CASE ProcessLeaveGroup \/ Crash
  BY <1>1, <1>3 DEF ProcessLeaveGroup, Crash, Regular, TypeOK
<1>4. CASE UNCHANGED vars
  BY <1>1, <1>4 DEF vars, store, update, counts, ghosts, TellInv, FullInv, PendingInv,
                    CollapsedInv, Expired, SafeInv, Safe, Heard, Told, Others, Open,
                    OpenPending, OpenCurrent, OwedAdd, Missing
<1>5. ASSUME NEW cs, Edit(cs) PROVE TellInv'
  BY <1>1, <1>5, EditTells
<1> QED BY <1>1, <1>2, <1>3, <1>4, <1>5, PrepareFailsTells, SendingTells, CreateTells,
           ReceiveTells, LoseTells, AckTells, OtherAcksTell
        DEF Next, SetGroupName, RemoveGroupName, CancelGroupChangeSet, AddUser, RemoveUser,
            RemoveUserFromAddUpdate, RemoveUserFromRemoveUpdate

(* A message is queued for a device by a change set for it.              *)
LEMMA OnlyCreateSends ==
  ASSUME TypeOK, [Next]_vars, NEW d \in Devices, ~ net'[d] \subseteq net[d]
  PROVE  CreateChangeSetDevice(d)
<1> USE DEF TypeOK
<1>2. net' # net
  OBVIOUS
<1>3. ASSUME NEW cs, Edit(cs) PROVE FALSE
  BY <1>2, <1>3 DEF Edit
<1>4. ASSUME NEW to, PrepareChangeSetSend(to) PROVE FALSE
  BY <1>2, <1>4 DEF PrepareChangeSetSend
<1>5. CASE PrepareFails \/ StartSending \/ GroupUpdateSendDone
  BY <1>2, <1>5 DEF PrepareFails, StartSending, GroupUpdateSendDone
<1>6. ASSUME NEW e \in Devices, CreateFromEmptySet(e) \/ CreateInconsistent(e) PROVE FALSE
  BY <1>2, <1>6 DEF CreateFromEmptySet, CreateInconsistent
<1>7. ASSUME NEW e \in Devices, ResendPending(e) PROVE FALSE
  <2>1. \A r \in rows : r.id # e
    BY GroupUpdateAssumption DEF Ack
  <2> QED BY <1>2, <1>7, <2>1 DEF ResendPending, HasWaitAckGroupDevice
<1>8. ASSUME NEW e \in Devices, NEW cs \in net[e], Receive(e, cs) \/ Lose(e, cs) PROVE FALSE
  <2>1. net' = [net EXCEPT ![e] = @ \ {cs}]
    BY <1>8 DEF Receive, Lose
  <2> QED BY <2>1
<1>9. ASSUME NEW e \in Devices, CreateChangeSetDevice(e), e # d PROVE FALSE
  <2>1. net'[d] = net[d]
    BY <1>9 DEF CreateChangeSetDevice
  <2> QED BY <2>1
<1>10. CASE (\E a \in acks : ProcessAck(a)) \/ ProcessOtherAcks
  BY <1>2, <1>10 DEF ProcessAck, ProcessOtherAcks
<1>11. CASE ProcessLeaveGroup \/ Crash \/ UNCHANGED vars
  BY <1>2, <1>11 DEF ProcessLeaveGroup, Crash, vars
<1> QED BY <1>3, <1>4, <1>5, <1>6, <1>7, <1>8, <1>9, <1>10, <1>11
        DEF Next, SetGroupName, RemoveGroupName, CancelGroupChangeSet, AddUser, RemoveUser,
            RemoveUserFromAddUpdate, RemoveUserFromRemoveUpdate

(* A change set for a device tells it of all members it was never told of, *)
(* or whose change set was lost, as long as one message was lost at most,  *)
(* unless the record of an earlier change set was dropped by its age.      *)
THEOREM NextSetTells == Spec => CollapseTells
<1>1. ASSUME TInv, [Next]_vars, NEW d \in Devices, Regular, losses <= 1,
             ~ net'[d] \subseteq net[d], ~Expired(d, "add")
      PROVE  members \ (removed \union dev[d].members)
               \subseteq UNION {cs.add : cs \in net'[d]}
  <2>1. TypeOK /\ NameInv /\ AddInv /\ TellInv
    BY <1>1 DEF TInv, IInv, AInv
  <2>2. CreateChangeSetDevice(d)
    BY <1>1, <2>1, OnlyCreateSends
  <2> QED BY <1>1, <2>1, <2>2, CreateTells DEF Missing, Told
<1>2. TInv /\ [Next]_vars =>
        [\A d \in Devices :
           Regular /\ losses <= 1 /\ ~ net'[d] \subseteq net[d] /\ ~Expired(d, "add") =>
             members \ (removed \union dev[d].members)
               \subseteq UNION {cs.add : cs \in net'[d]}]_vars
  BY <1>1
<1> QED BY <1>2, TellInit, TellStep, PTL DEF Spec, CollapseTells
=============================================================================
