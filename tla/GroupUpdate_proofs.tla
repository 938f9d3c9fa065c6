------------------------- MODULE GroupUpdate_proofs -------------------------
(***************************************************************************)
(* Types, the end of an update, that a device which does not know the name *)
(* is waited for, and no longer when all has arrived, for any number of    *)
(* devices, users, edits, messages and failures.                           *)
(***************************************************************************)
EXTENDS GroupUpdate, TLAPS

USE DEF Absent, Ids, Names

-----------------------------------------------------------------------------
(* What the operators on change sets return.                               *)

LEMMA PresentType ==
  ASSUME NEW id \in Ids
  PROVE  Present(id) \in Ids /\ Present(id) # Absent
  BY GroupUpdateAssumption DEF Present

LEMMA EmptySetType == EmptySet \in ChangeSet
  BY GroupUpdateAssumption DEF EmptySet, ChangeSet

LEMMA WithUsersType ==
  ASSUME NEW cs \in ChangeSet, NEW users \in SUBSET Users
  PROVE  /\ WithAdded(cs, users) \in ChangeSet /\ WithRemoved(cs, users) \in ChangeSet
         /\ WithAdded(cs, users).name = cs.name /\ WithAdded(cs, users).nameId = cs.nameId
         /\ WithRemoved(cs, users).name = cs.name /\ WithRemoved(cs, users).nameId = cs.nameId
<1>1. Present(cs.addId) \in Ids /\ Present(cs.rmId) \in Ids
  BY PresentType DEF ChangeSet
<1> QED BY <1>1 DEF WithAdded, WithRemoved, ChangeSet

LEMMA MetaDataType ==
  ASSUME NEW cs \in ChangeSet, NEW id \in 0 .. MaxSends, NEW stored \in Names
  PROVE  /\ WithMetaData(cs, id, stored) \in ChangeSet
         /\ WithMetaData(cs, id, stored).nameId # Absent
         /\ IF cs.nameId = Absent
            THEN /\ WithMetaData(cs, id, stored).nameId = id
                 /\ WithMetaData(cs, id, stored).name = stored
            ELSE /\ WithMetaData(cs, id, stored).nameId = cs.nameId
                 /\ WithMetaData(cs, id, stored).name = cs.name
<1>1. CASE cs.nameId = Absent
  <2> DEFINE new == [cs EXCEPT !.name = stored, !.nameId = id]
  <2>1. id \in Ids
    BY GroupUpdateAssumption
  <2>2. new \in ChangeSet /\ new.nameId = id /\ new.name = stored
    BY <2>1 DEF ChangeSet
  <2>3. WithMetaData(cs, id, stored) = new
    BY <1>1 DEF WithMetaData
  <2> HIDE DEF new
  <2> QED BY <1>1, <2>2, <2>3, GroupUpdateAssumption
<1>2. CASE cs.nameId # Absent
  BY <1>2 DEF WithMetaData
<1> QED BY <1>1, <1>2

LEMMA StampNameType ==
  ASSUME NEW cs \in ChangeSet, NEW id \in 0 .. MaxSends
  PROVE  /\ StampName(cs, id) \in ChangeSet
         /\ StampName(cs, id).name = cs.name
         /\ StampName(cs, id).nameId = IF cs.nameId = Absent THEN Absent ELSE id
  BY GroupUpdateAssumption DEF StampName, ChangeSet

(* What Prepare makes of a change set: its name is the one in the store.   *)
LEMMA StampedType ==
  ASSUME NEW cs \in ChangeSet, NEW id \in 0 .. MaxSends, NEW stored \in Names,
         members \subseteq Users,
         cs.nameId # Absent => cs.name = stored
  PROVE  LET new == StampRemove(StampAdd(StampName(cs, id), id, stored), id)
         IN /\ new \in ChangeSet
            /\ new.nameId # Absent => new.nameId = id /\ new.name = stored
            /\ cs.nameId # Absent => new.nameId # Absent
<1> DEFINE one == StampName(cs, id)
           full == [one EXCEPT !.addId = id, !.add = @ \union members]
           two == StampAdd(one, id, stored)
<1>1. /\ one \in ChangeSet
      /\ one.nameId # Absent => one.nameId = id /\ one.name = stored
      /\ cs.nameId # Absent => one.nameId # Absent
  BY StampNameType, GroupUpdateAssumption
<1> HIDE DEF one
<1>2. full \in ChangeSet /\ full.nameId = one.nameId /\ full.name = one.name
  <2>1. one.add \union members \in SUBSET Users /\ id \in Ids
    BY <1>1, GroupUpdateAssumption DEF ChangeSet
  <2> DEFINE all == one.add \union members
  <2>2. full = [one EXCEPT !.addId = id, !.add = all]
    OBVIOUS
  <2> HIDE DEF all, full
  <2> QED BY <1>1, <2>1, <2>2 DEF ChangeSet, all
<1>3. two = IF one.addId = Absent THEN one ELSE WithMetaData(full, id, stored)
  BY DEF StampAdd
<1> HIDE DEF full
<1>4. /\ two \in ChangeSet
      /\ two.nameId # Absent => two.nameId = id /\ two.name = stored
      /\ cs.nameId # Absent => two.nameId # Absent
  BY <1>1, <1>2, <1>3, MetaDataType
<1> HIDE DEF two
<1>5. /\ StampRemove(two, id) \in ChangeSet
      /\ StampRemove(two, id).nameId = two.nameId
      /\ StampRemove(two, id).name = two.name
  BY <1>4, GroupUpdateAssumption DEF StampRemove, ChangeSet
<1> QED BY <1>4, <1>5 DEF two, one

LEMMA CurrentType == TypeOK => Current \in ChangeSet
  BY EmptySetType DEF TypeOK, Current

(* Collapsing keeps the name of a change set, or adds the stored one.      *)
LEMMA CollapsedType ==
  ASSUME TypeOK, current # NoSet, NEW d \in Devices
  PROVE  /\ Collapsed(d) \in ChangeSet
         /\ IF current.nameId # Absent
            THEN Collapsed(d).nameId = current.nameId /\ Collapsed(d).name = current.name
            ELSE Collapsed(d).nameId # Absent =>
                   Collapsed(d).nameId = updateId /\ Collapsed(d).name = name
         /\ Collapsed(d).addId # Absent => Collapsed(d).nameId # Absent
<1> DEFINE owes(part) == pending # NoSet /\ [dev |-> d, part |-> part, id |-> IdOf(pending, part)] \in rows
           added == IF owes("add") THEN WithAdded(current, pending.add) ELSE current
           both == IF owes("rm") THEN WithRemoved(added, pending.rm) ELSE added
<1>1. current \in ChangeSet /\ (pending # NoSet => pending.add \subseteq Users /\ pending.rm \subseteq Users)
  BY DEF TypeOK, ChangeSet
<1>2. added \in ChangeSet /\ added.name = current.name /\ added.nameId = current.nameId
  <2>1. CASE owes("add")
    <3>1. pending.add \in SUBSET Users
      BY <1>1, <2>1
    <3> QED BY <1>1, <2>1, <3>1, WithUsersType
  <2>2. CASE ~owes("add")
    BY <1>1, <2>2
  <2> QED BY <2>1, <2>2
<1> HIDE DEF added
<1>3. both \in ChangeSet /\ both.name = current.name /\ both.nameId = current.nameId
  <2>1. CASE owes("rm")
    <3>1. pending.rm \in SUBSET Users
      BY <1>1, <2>1
    <3> QED BY <1>2, <2>1, <3>1, WithUsersType
  <2>2. CASE ~owes("rm")
    BY <1>2, <2>2
  <2> QED BY <2>1, <2>2
<1>4. Collapsed(d) = IF both.addId = Absent THEN both ELSE WithMetaData(both, updateId, name)
  BY DEF Collapsed, added
<1> HIDE DEF both
<1> QED BY <1>3, <1>4, MetaDataType DEF TypeOK

LEMMA AckType ==
  ASSUME NEW cs \in ChangeSet, NEW part \in PartsOf(cs)
  PROVE  part \in Parts /\ IdOf(cs, part) \in 0 .. MaxSends
  BY GroupUpdateAssumption DEF PartsOf, IdOf, Parts, ChangeSet

LEMMA RowsForType ==
  ASSUME TypeOK, NEW d \in Devices, NEW cs \in ChangeSet
  PROVE  RowsFor(d, cs) \subseteq Ack
  BY DEF TypeOK, RowsFor, Ack, PartsOf

-----------------------------------------------------------------------------
(* Types.                                                                  *)

LEMMA InitType == Init => TypeOK
<1> SUFFICES ASSUME Init PROVE TypeOK
  OBVIOUS
<1>1. 0 \in Names /\ 0 \in 0 .. MaxSends /\ 0 \in Nat
  BY GroupUpdateAssumption
<1>2. app \in App
  BY DEF Init, App, Idle
<1>3. net \in [Devices -> SUBSET ChangeSet]
  BY DEF Init
<1>4. dev \in [Devices -> [name : Names, members : SUBSET Users]]
  BY <1>1 DEF Init
<1> QED BY <1>1, <1>2, <1>3, <1>4 DEF Init, TypeOK

(* An edit of the change set to one of the right type, or to none.         *)
LEMMA EditType ==
  ASSUME TypeOK, NEW cs \in ChangeSet \union {NoSet}, Edit(cs)
  PROVE  TypeOK'
  BY DEF Edit, TypeOK, store, ghosts

LEMMA EditsType ==
  ASSUME TypeOK,
         \/ SetGroupName \/ RemoveGroupName \/ CancelGroupChangeSet
         \/ \E u \in Users :
              \/ AddUser(u) \/ RemoveUser(u)
              \/ RemoveUserFromAddUpdate(u) \/ RemoveUserFromRemoveUpdate(u)
  PROVE  TypeOK'
<1>1. Current \in ChangeSet /\ Current.nameId \in Ids
  BY CurrentType DEF ChangeSet
<1>2. CASE SetGroupName
  <2> DEFINE cs == [Current EXCEPT !.name = edits + 1, !.nameId = Present(@)]
  <2>1. edits + 1 \in Names
    BY <1>2, GroupUpdateAssumption DEF SetGroupName, Edit, TypeOK
  <2>2. cs \in ChangeSet
    BY <1>1, <2>1, PresentType DEF ChangeSet
  <2> QED BY <1>2, <2>2, EditType DEF SetGroupName
<1>3. CASE RemoveGroupName
  <2>1. 0 \in Names /\ Absent \in Ids
    BY GroupUpdateAssumption
  <2>2. [Current EXCEPT !.name = 0, !.nameId = Absent] \in ChangeSet
    BY <1>1, <2>1 DEF ChangeSet
  <2> QED BY <1>3, <2>2, EditType DEF RemoveGroupName
<1>4. CASE CancelGroupChangeSet
  BY <1>4, EditType DEF CancelGroupChangeSet
<1>5. ASSUME NEW u \in Users, AddUser(u) PROVE TypeOK'
  <2>1. [Current EXCEPT !.rm = @ \ {u}] \in ChangeSet
    BY <1>1 DEF ChangeSet
  <2>2. WithAdded([Current EXCEPT !.rm = @ \ {u}], {u}) \in ChangeSet
    BY <2>1, WithUsersType
  <2> QED BY <1>5, <2>2, EditType DEF AddUser
<1>6. ASSUME NEW u \in Users, RemoveUser(u) PROVE TypeOK'
  <2>1. [Current EXCEPT !.add = @ \ {u}] \in ChangeSet
    BY <1>1 DEF ChangeSet
  <2>2. WithRemoved([Current EXCEPT !.add = @ \ {u}], {u}) \in ChangeSet
    BY <2>1, WithUsersType
  <2> QED BY <1>6, <2>2, EditType DEF RemoveUser
<1>7. ASSUME NEW u \in Users, RemoveUserFromAddUpdate(u) PROVE TypeOK'
  <2>1. [Current EXCEPT !.add = @ \ {u}] \in ChangeSet
    BY <1>1 DEF ChangeSet
  <2> QED BY <1>7, <2>1, EditType DEF RemoveUserFromAddUpdate
<1>8. ASSUME NEW u \in Users, RemoveUserFromRemoveUpdate(u) PROVE TypeOK'
  <2>1. [Current EXCEPT !.rm = @ \ {u}] \in ChangeSet
    BY <1>1 DEF ChangeSet
  <2> QED BY <1>8, <2>1, EditType DEF RemoveUserFromRemoveUpdate
<1> QED BY <1>2, <1>3, <1>4, <1>5, <1>6, <1>7, <1>8

(* The id of the next update.                                              *)
LEMMA NextId ==
  ASSUME TypeOK
  PROVE  /\ sends \in Nat /\ sends + 1 \in Nat /\ errors + 1 \in Nat /\ crashes + 1 \in Nat
         /\ sends < MaxSends => sends + 1 \in 0 .. MaxSends
         /\ 0 \in 0 .. MaxSends
<1>1. sends \in Nat /\ errors \in Nat /\ crashes \in Nat
  BY DEF TypeOK
<1>2. MaxSends \in Nat
  BY GroupUpdateAssumption
<1> QED BY <1>1, <1>2

(* A message with a change set: what Prepare stores.                       *)
LEMMA PrepareType ==
  ASSUME TypeOK, current # NoSet, NEW id \in 0 .. MaxSends, Prepare(id)
  PROVE  /\ group' \in {"joined", "gone", "alone"} /\ name' \in Names
         /\ members' \subseteq Users /\ removed' \subseteq Users
         /\ current' \in ChangeSet /\ inProgress' /\ updateId' = id
         /\ current'.nameId # Absent => current'.nameId = id /\ current'.name = name'
         /\ IF current.nameId = Absent THEN name' = name
            ELSE name' = current.name /\ current'.nameId # Absent
<1>1. current \in ChangeSet
  BY DEF TypeOK
<1>0. current.name \in Names /\ current.add \subseteq Users /\ current.rm \subseteq Users
  BY <1>1 DEF ChangeSet
<1>2. /\ group' \in {"joined", "gone", "alone"} /\ name' \in Names
      /\ members' \subseteq Users /\ removed' \subseteq Users
      /\ inProgress' /\ updateId' = id
      /\ name' = IF current.nameId = Absent THEN name ELSE current.name
  <2>0. group \in {"joined", "gone", "alone"} /\ name \in Names
    BY DEF TypeOK
  <2>1. group' \in {"joined", "gone", "alone"} /\ inProgress' /\ updateId' = id
    BY <2>0 DEF Prepare
  <2>2. members' \subseteq Users /\ removed' \subseteq Users
    BY <1>0 DEF Prepare, TypeOK
  <2>3. name' = IF current.nameId = Absent THEN name ELSE current.name
    BY DEF Prepare
  <2>4. name' \in Names
    BY <1>0, <2>0, <2>3
  <2> QED BY <2>1, <2>2, <2>3, <2>4
<1>3. current' = StampRemove(StampAdd(StampName(current, id), id, name'), id)
  BY <1>2 DEF Prepare
<1>4. /\ current' \in ChangeSet
      /\ current'.nameId # Absent => current'.nameId = id /\ current'.name = name'
      /\ current.nameId # Absent => current'.nameId # Absent
  BY <1>1, <1>2, <1>3, StampedType DEF TypeOK
<1> QED BY <1>2, <1>4

LEMMA SendingType ==
  ASSUME TypeOK,
         \/ \E to \in Targets : PrepareChangeSetSend(to)
         \/ PrepareFails \/ StartSending \/ GroupUpdateSendDone
  PROVE  TypeOK'
<1>1. ASSUME NEW to \in Targets, PrepareChangeSetSend(to) PROVE TypeOK'
  <2>1. to \subseteq Devices /\ sends' \in 0 .. MaxSends /\ sends' \in Nat
    BY <1>1, NextId DEF Targets, PrepareChangeSetSend
  <2>2. app' \in App
    BY <1>1, <2>1 DEF PrepareChangeSetSend, App
  <2>3. CASE current = NoSet /\ UNCHANGED <<group, name, members, update, ghosts>>
    BY <1>1, <2>1, <2>2, <2>3 DEF PrepareChangeSetSend, TypeOK, update, ghosts
  <2>4. CASE current # NoSet /\ Prepare(sends') /\ partial' = (partial \/ to # Devices)
    <3>1. UNCHANGED expired
      BY <2>4 DEF Prepare
    <3> QED BY <1>1, <2>1, <2>2, <2>4, <3>1, PrepareType DEF PrepareChangeSetSend, TypeOK
  <2> QED BY <1>1, <2>3, <2>4 DEF PrepareChangeSetSend
<1>2. CASE PrepareFails
  <2>1. sends' \in 0 .. MaxSends /\ sends' \in Nat /\ errors' \in Nat
    BY <1>2, NextId DEF PrepareFails
  <2>2. current' \in ChangeSet \union {NoSet}
    BY <1>2, <2>1, StampNameType DEF PrepareFails, TypeOK
  <2> QED BY <1>2, <2>1, <2>2 DEF PrepareFails, TypeOK, store, ghosts
<1>3. CASE StartSending
  BY <1>3 DEF StartSending, TypeOK, App, Idle, store, update, ghosts, counts
<1>4. CASE GroupUpdateSendDone
  <2>1. app' \in App /\ updateId' \in 0 .. MaxSends
    BY <1>4, GroupUpdateAssumption DEF GroupUpdateSendDone, App, Idle
  <2>2. /\ pending' \in ChangeSet \union {NoSet} /\ current' \in ChangeSet \union {NoSet}
        /\ inProgress' \in BOOLEAN
    BY <1>4 DEF GroupUpdateSendDone, TypeOK
  <2> QED BY <1>4, <2>1, <2>2 DEF GroupUpdateSendDone, TypeOK, ghosts, counts
<1> QED BY <1>1, <1>2, <1>3, <1>4

LEMMA DeviceType ==
  ASSUME TypeOK, NEW d \in Devices,
         \/ CreateChangeSetDevice(d) \/ CreateFromEmptySet(d) \/ CreateInconsistent(d)
         \/ ResendPending(d) \/ \E cs \in net[d] : Receive(d, cs) \/ Lose(d, cs)
  PROVE  TypeOK'
<1>1. CASE CreateChangeSetDevice(d)
  <2>1. Collapsed(d) \in ChangeSet
    BY <1>1, CollapsedType DEF CreateChangeSetDevice
  <2>2. rows' \subseteq Ack
    BY <1>1, <2>1, RowsForType DEF CreateChangeSetDevice
  <2>3. net' \in [Devices -> SUBSET ChangeSet]
    BY <1>1, <2>1 DEF CreateChangeSetDevice, TypeOK
  <2>4. app' \in App
    BY <1>1 DEF CreateChangeSetDevice, TypeOK, App
  <2> QED BY <1>1, <2>1, <2>2, <2>3, <2>4 DEF CreateChangeSetDevice, TypeOK, counts
<1>2. CASE CreateFromEmptySet(d)
  BY <1>2 DEF CreateFromEmptySet, TypeOK, App, store, update, ghosts, counts
<1>3. CASE CreateInconsistent(d)
  BY <1>3 DEF CreateInconsistent, TypeOK, App, store, update, ghosts, counts
<1>4. CASE ResendPending(d)
  <2>1. net' \in [Devices -> SUBSET ChangeSet]
    BY <1>4 DEF ResendPending, TypeOK
  <2> QED BY <1>4, <2>1 DEF ResendPending, TypeOK, App, store, update, ghosts, counts
<1>5. ASSUME NEW cs \in net[d], Receive(d, cs) PROVE TypeOK'
  <2> DEFINE new == {[dev |-> d, part |-> p, id |-> IdOf(cs, p)] : p \in Answered(cs)}
  <2>1. cs \in ChangeSet
    BY <1>5 DEF TypeOK
  <2>2. \A p \in Answered(cs) : p \in Parts /\ IdOf(cs, p) \in 0 .. MaxSends
    BY <2>1, AckType DEF Answered
  <2>3. new \subseteq Ack
    BY <2>2 DEF Ack
  <2>4. Updated(dev[d], cs) \in [name : Names, members : SUBSET Users]
    BY <2>1 DEF Updated, TypeOK, ChangeSet
  <2>5. /\ dev' = [dev EXCEPT ![d] = Updated(@, cs)]
        /\ acks' = acks \union new
        /\ net' = [net EXCEPT ![d] = @ \ {cs}]
    BY <1>5 DEF Receive
  <2> HIDE DEF new
  <2>6. /\ dev' \in [Devices -> [name : Names, members : SUBSET Users]]
        /\ acks' \subseteq Ack
        /\ net' \in [Devices -> SUBSET ChangeSet]
    BY <2>3, <2>4, <2>5 DEF TypeOK
  <2> QED BY <1>5, <2>6 DEF Receive, TypeOK, store, update, ghosts, counts
<1>6. ASSUME NEW cs \in net[d], Lose(d, cs) PROVE TypeOK'
  <2>1. net' \in [Devices -> SUBSET ChangeSet]
    BY <1>6 DEF Lose, TypeOK
  <2> QED BY <1>6, <2>1 DEF Lose, TypeOK, store, update, ghosts
<1> QED BY <1>1, <1>2, <1>3, <1>4, <1>5, <1>6

(* What goes with the old records, and what stays.                         *)
LEMMA CleaningKeeps ==
  ASSUME TypeOK, NEW answered, NEW old \in SUBSET rows, CleanWaitAck(old, answered)
  PROVE  /\ rows' \subseteq rows /\ expired \subseteq expired'
         /\ expired' \subseteq [dev : Devices, part : Parts] /\ cleanings' \in Nat
         /\ \A r \in rows : r \in rows' \/ r \in answered \/ Expired(r.dev, r.part)'
<1>1. \A r \in rows : r.dev \in Devices /\ r.part \in Parts
  BY DEF TypeOK, Ack
<1>2. /\ rows' = rows \ (old \union answered)
      /\ expired' = expired \union {[dev |-> r.dev, part |-> r.part] : r \in old \ answered}
      /\ cleanings' = cleanings + (IF old = {} THEN 0 ELSE 1)
  BY DEF CleanWaitAck
<1>3. cleanings' \in Nat
  BY <1>2 DEF TypeOK
<1>4. expired' \subseteq [dev : Devices, part : Parts]
  BY <1>1, <1>2 DEF TypeOK
<1>5. \A r \in rows : r \in rows' \/ r \in answered \/ Expired(r.dev, r.part)'
  BY <1>2 DEF Expired
<1> QED BY <1>2, <1>3, <1>4, <1>5

LEMMA AcksType ==
  ASSUME TypeOK, (\E a \in acks : ProcessAck(a)) \/ ProcessOtherAcks
  PROVE  TypeOK'
<1>1. ASSUME NEW a \in acks, ProcessAck(a) PROVE TypeOK'
  <2>1. CASE group = "gone"
    BY <1>1, <2>1 DEF ProcessAck, TypeOK, update
  <2>2. CASE group # "gone"
    <3>1. PICK old \in SUBSET rows : CleanWaitAck(old, {a})
      BY <1>1, <2>2 DEF ProcessAck
    <3> QED BY <1>1, <3>1, CleaningKeeps DEF ProcessAck, TypeOK, update
  <2> QED BY <2>1, <2>2
<1>2. CASE ProcessOtherAcks
  <2>1. PICK old \in SUBSET rows : CleanWaitAck(old, {})
    BY <1>2 DEF ProcessOtherAcks
  <2> QED BY <1>2, <2>1, CleaningKeeps DEF ProcessOtherAcks, TypeOK, update
<1> QED BY <1>1, <1>2

LEMMA TypeStep == TypeOK /\ [Next]_vars => TypeOK'
<1> SUFFICES ASSUME TypeOK, [Next]_vars PROVE TypeOK'
  OBVIOUS
<1>1. CASE (\E a \in acks : ProcessAck(a)) \/ ProcessOtherAcks
  BY <1>1, AcksType
<1>2. CASE ProcessLeaveGroup
  BY <1>2, GroupUpdateAssumption DEF ProcessLeaveGroup, TypeOK, update, ghosts
<1>3. CASE Crash
  <2>1. app' \in App /\ updateId' \in 0 .. MaxSends /\ crashes' \in Nat
    BY <1>3, NextId DEF Crash, App, Idle
  <2> QED BY <1>3, <2>1 DEF Crash, TypeOK, store, ghosts
<1>4. CASE UNCHANGED vars
  BY <1>4 DEF vars, TypeOK, store, update, ghosts, counts
<1> QED BY <1>1, <1>2, <1>3, <1>4, EditsType, SendingType, DeviceType DEF Next

(* All variables keep their types.                                          *)
THEOREM TypeCorrect == Spec => []TypeOK
  BY InitType, TypeStep, PTL DEF Spec

-----------------------------------------------------------------------------
(* The end of an update.                                                   *)

(* While an update runs the application is sending its change set, unless  *)
(* the group has gone or the database failed.                              *)
RunInv ==
  inProgress /\ group # "gone" /\ errors = 0 => app.pc # "idle" /\ current # NoSet

LEMMA RunStep ==
  ASSUME TypeOK, RunInv, [Next]_vars
  PROVE  RunInv'
<1> USE DEF RunInv
<1>1. ASSUME NEW cs, Edit(cs) PROVE RunInv'
  BY <1>1 DEF Edit, store
<1>2. ASSUME NEW to \in Targets, PrepareChangeSetSend(to) PROVE RunInv'
  <2>1. CASE current = NoSet /\ UNCHANGED <<group, name, members, update, ghosts>>
    BY <1>2, <2>1 DEF PrepareChangeSetSend, update
  <2>2. CASE current # NoSet /\ Prepare(sends')
    <3>1. sends' \in 0 .. MaxSends
      BY <1>2, NextId DEF PrepareChangeSetSend
    <3>2. current' # NoSet
      BY <2>2, <3>1, PrepareType, NoSetAssumption
    <3> QED BY <1>2, <3>2 DEF PrepareChangeSetSend
  <2> QED BY <1>2, <2>1, <2>2 DEF PrepareChangeSetSend
<1>3. CASE PrepareFails
  BY <1>3 DEF PrepareFails, TypeOK
<1>4. CASE StartSending
  BY <1>4 DEF StartSending, store, update, counts, Idle
<1>5. CASE GroupUpdateSendDone
  BY <1>5 DEF GroupUpdateSendDone, counts
<1>6. ASSUME NEW d \in Devices, CreateChangeSetDevice(d) PROVE RunInv'
  <2>1. current' # NoSet
    BY <1>6, CollapsedType, NoSetAssumption DEF CreateChangeSetDevice
  <2> QED BY <1>6, <2>1 DEF CreateChangeSetDevice, counts, TypeOK, App
<1>7. ASSUME NEW d \in Devices,
             CreateFromEmptySet(d) \/ CreateInconsistent(d) \/ ResendPending(d)
      PROVE  RunInv'
  BY <1>7 DEF CreateFromEmptySet, CreateInconsistent, ResendPending, store, update, counts,
              TypeOK, App
<1>8. ASSUME NEW d \in Devices, NEW cs \in net[d], Receive(d, cs) \/ Lose(d, cs) PROVE RunInv'
  BY <1>8 DEF Receive, Lose, store, update, counts
<1>9. ASSUME (\E a \in acks : ProcessAck(a)) \/ ProcessOtherAcks PROVE RunInv'
  BY <1>9 DEF ProcessAck, ProcessOtherAcks, update
<1>10. CASE ProcessLeaveGroup
  BY <1>10 DEF ProcessLeaveGroup
<1>11. CASE Crash
  BY <1>11 DEF Crash
<1>12. CASE UNCHANGED vars
  BY <1>12 DEF vars, store, update, counts
<1> QED BY <1>1, <1>2, <1>3, <1>4, <1>5, <1>6, <1>7, <1>8, <1>9, <1>10, <1>11, <1>12
        DEF Next, SetGroupName, RemoveGroupName, CancelGroupChangeSet, AddUser, RemoveUser,
            RemoveUserFromAddUpdate, RemoveUserFromRemoveUpdate

(* An update ends when the application is done sending, unless the group   *)
(* has gone or the database failed: updateInProgress blocks no later one.  *)
THEOREM EveryUpdateEnds == Spec => []UpdateEnds
<1>1. Init => RunInv
  BY DEF Init, RunInv
<1>2. RunInv => UpdateEnds
  BY DEF RunInv, UpdateEnds
<1> QED BY <1>1, <1>2, InitType, TypeStep, RunStep, PTL DEF Spec

-----------------------------------------------------------------------------
(* Devices that do not know the name.  A device is waited for by the record *)
(* of its last message with a name, until that is dropped by its age.       *)
(* That an acknowledgement which removes the record tells that the device   *)
(* knows the present name, and not an older one, follows from the update    *)
(* ids: a message or acknowledgement of an older name has an older id than  *)
(* the record.                                                              *)

NameRow(d, id) == [dev |-> d, part |-> "name", id |-> id]

(* The current change set takes the name to d later.                       *)
Owed(d) == d \in app.left /\ current # NoSet /\ current.nameId # Absent

LeftInv == app.pc = "idle" => app.left = {}

(* What is being sent is the stored name under the id of this update.      *)
StampInv ==
  app.pc # "idle" /\ current # NoSet =>
    /\ inProgress
    /\ current.nameId # Absent => current.nameId = updateId /\ current.name = name

(* No name is later than the stored one, but that of the next change set.  *)
NamesInv ==
  /\ name <= edits
  /\ current # NoSet /\ current.nameId # Absent =>
       name <= current.name /\ current.name <= edits
  /\ \A d \in Devices :
       /\ dev[d].name <= name
       /\ \A cs \in net[d] : cs.nameId # Absent => cs.name <= name

(* A device that is yet to be sent to has seen earlier update ids only.    *)
IdsInv ==
  /\ updateId <= sends
  /\ \A d \in Devices : \A cs \in net[d] :
       /\ cs.nameId <= sends
       /\ app.pc # "idle" /\ current # NoSet /\ d \in app.left => cs.nameId < updateId
  /\ \A a \in acks : a.part = "name" =>
       /\ a.id <= sends
       /\ app.pc # "idle" /\ current # NoSet /\ a.dev \in app.left => a.id < updateId

(* What answers a record of the store is the present name.                 *)
AnswerInv ==
  /\ \A d \in Devices : \A cs \in net[d] :
       cs.nameId # Absent /\ NameRow(d, cs.nameId) \in rows => cs.name = name \/ Owed(d)
  /\ \A a \in acks :
       a.part = "name" /\ a \in rows => dev[a.dev].name = name \/ Owed(a.dev)

WaitInv ==
  \A d \in Devices : dev[d].name # name =>
    Waits(d, "name") \/ Owed(d) \/ Expired(d, "name")

NameInv == StampInv /\ NamesInv /\ IdsInv /\ AnswerInv /\ WaitInv

(* The inductive invariant.                                                *)
IInv == TypeOK /\ LeftInv /\ (Regular => NameInv)

LEMMA LeftStep == TypeOK /\ LeftInv /\ [Next]_vars => LeftInv'
<1> SUFFICES ASSUME TypeOK, LeftInv, [Next]_vars PROVE LeftInv'
  OBVIOUS
<1> USE DEF LeftInv
<1>1. ASSUME NEW cs, Edit(cs) PROVE LeftInv'
  BY <1>1 DEF Edit
<1>2. ASSUME NEW to \in Targets, PrepareChangeSetSend(to) PROVE LeftInv'
  BY <1>2 DEF PrepareChangeSetSend
<1>3. CASE PrepareFails
  BY <1>3 DEF PrepareFails
<1>4. CASE StartSending \/ GroupUpdateSendDone \/ Crash
  <2>1. app' = Idle \/ app'.pc = "sending"
    BY <1>4 DEF StartSending, GroupUpdateSendDone, Crash
  <2> QED BY <2>1 DEF Idle
<1>5. ASSUME NEW d \in Devices,
             CreateChangeSetDevice(d) \/ CreateInconsistent(d) \/ ResendPending(d)
      PROVE  LeftInv'
  <2>1. app.pc = "sending" /\ app' = [app EXCEPT !.left = @ \ {d}]
    BY <1>5 DEF CreateChangeSetDevice, CreateInconsistent, ResendPending
  <2> QED BY <1>5, <2>1 DEF TypeOK, App
<1>6. ASSUME NEW d \in Devices,
             CreateFromEmptySet(d) \/ \E cs \in net[d] : Receive(d, cs) \/ Lose(d, cs)
      PROVE  LeftInv'
  BY <1>6 DEF CreateFromEmptySet, Receive, Lose, TypeOK, App
<1>7. CASE (\E a \in acks : ProcessAck(a)) \/ ProcessOtherAcks
  BY <1>7 DEF ProcessAck, ProcessOtherAcks
<1>8. CASE ProcessLeaveGroup \/ UNCHANGED vars
  BY <1>8 DEF ProcessLeaveGroup, vars
<1> QED BY <1>1, <1>2, <1>3, <1>4, <1>5, <1>6, <1>7, <1>8
        DEF Next, SetGroupName, RemoveGroupName, CancelGroupChangeSet, AddUser, RemoveUser,
            RemoveUserFromAddUpdate, RemoveUserFromRemoveUpdate

(* Steps of the application thread that leave messages, records and names   *)
(* alone, and what it still has to send of a name.                         *)
LEMMA ThreadKeeps ==
  ASSUME NameInv, UNCHANGED <<name, rows, net, dev, acks, expired, edits, sends>>,
         updateId' <= sends,
         current' # NoSet => current' = current,
         current' # NoSet /\ app'.pc # "idle" =>
           app.pc # "idle" /\ UNCHANGED <<updateId, inProgress>>,
         app'.left \subseteq app.left,
         \A d \in app.left : Owed(d) => Owed(d)'
  PROVE  NameInv'
<1>1. StampInv' /\ NamesInv'
  BY DEF NameInv, StampInv, NamesInv
<1>2. IdsInv'
  BY DEF NameInv, IdsInv
<1>3. AnswerInv' /\ WaitInv'
  <2>1. \A d : Owed(d) => Owed(d)'
    BY DEF Owed
  <2> QED BY <2>1 DEF NameInv, AnswerInv, WaitInv, Waits, Expired
<1> QED BY <1>1, <1>2, <1>3 DEF NameInv

(* Nothing is on its way when the application edits.                       *)
LEMMA IdleOwesNothing ==
  ASSUME LeftInv, app.pc = "idle"
  PROVE  \A d : ~Owed(d)
  BY DEF LeftInv, Owed

(* An edit keeps the name of the change set, takes it out, or sets a later  *)
(* one.                                                                    *)
LEMMA EditKeeps ==
  ASSUME TypeOK, LeftInv, NameInv, NEW cs \in ChangeSet \union {NoSet}, Edit(cs),
         cs # NoSet /\ cs.nameId # Absent =>
           \/ cs.name = edits + 1
           \/ current # NoSet /\ current.nameId # Absent /\ cs.name = current.name
  PROVE  NameInv'
<1>1. /\ app.pc = "idle" /\ app' = app /\ current' = cs
      /\ edits \in Nat /\ edits' = edits + 1
      /\ UNCHANGED <<name, rows, expired, updateId, net, dev, acks, sends>>
  BY DEF Edit, TypeOK, store, ghosts
<1>2. (\A d : ~Owed(d)) /\ (\A d : ~Owed(d)')
  BY <1>1, IdleOwesNothing DEF LeftInv, Owed
<1>3. name \in Nat /\ (cs # NoSet => cs.name \in Nat) /\ (current # NoSet => current.name \in Nat)
  <2>1. \A set \in ChangeSet : set.name \in Nat
    BY GroupUpdateAssumption DEF ChangeSet
  <2>2. name \in Nat
    BY GroupUpdateAssumption DEF TypeOK
  <2> QED BY <2>1, <2>2 DEF TypeOK
<1>4. StampInv' /\ IdsInv'
  BY <1>1 DEF NameInv, StampInv, IdsInv
<1>5. NamesInv'
  BY <1>1, <1>3 DEF NameInv, NamesInv
<1>6. AnswerInv' /\ WaitInv'
  BY <1>1, <1>2 DEF NameInv, AnswerInv, WaitInv, Waits, Expired
<1> QED BY <1>4, <1>5, <1>6 DEF NameInv

LEMMA EditsKeep ==
  ASSUME TypeOK, LeftInv, NameInv,
         \/ SetGroupName \/ RemoveGroupName \/ CancelGroupChangeSet
         \/ \E u \in Users :
              \/ AddUser(u) \/ RemoveUser(u)
              \/ RemoveUserFromAddUpdate(u) \/ RemoveUserFromRemoveUpdate(u)
  PROVE  NameInv'
<1> DEFINE Kept(cs) ==
      /\ cs \in ChangeSet
      /\ cs.nameId # Absent =>
           \/ cs.name = edits + 1
           \/ current # NoSet /\ current.nameId # Absent /\ cs.name = current.name
<1>1. /\ Current \in ChangeSet
      /\ Current.nameId # Absent =>
           current # NoSet /\ current.nameId # Absent /\ Current.name = current.name
  BY CurrentType DEF Current, EmptySet
<1>2. \A cs : Kept(cs) /\ Edit(cs) => NameInv'
  BY EditKeeps
<1>3. CASE SetGroupName
  <2> DEFINE cs == [Current EXCEPT !.name = edits + 1, !.nameId = Present(@)]
  <2>0. edits < MaxEdits /\ edits \in Nat /\ MaxEdits \in Nat
    BY <1>3, GroupUpdateAssumption DEF SetGroupName, Edit, TypeOK
  <2>1. edits + 1 \in Names /\ Current.nameId \in Ids
    BY <1>1, <2>0 DEF ChangeSet
  <2>2. cs \in ChangeSet /\ cs.name = edits + 1
    BY <1>1, <2>1, PresentType DEF ChangeSet
  <2>3. Edit(cs)
    BY <1>3 DEF SetGroupName
  <2> HIDE DEF cs
  <2> QED BY <1>2, <2>2, <2>3
<1>4. CASE RemoveGroupName
  <2> DEFINE cs == [Current EXCEPT !.name = 0, !.nameId = Absent]
  <2>1. 0 \in Names /\ Absent \in Ids
    BY GroupUpdateAssumption
  <2>2. cs \in ChangeSet /\ cs.nameId = Absent
    BY <1>1, <2>1 DEF ChangeSet
  <2>3. Edit(cs)
    BY <1>4 DEF RemoveGroupName
  <2> HIDE DEF cs
  <2> QED BY <1>2, <2>2, <2>3
<1>5. CASE CancelGroupChangeSet
  BY <1>5, EditKeeps DEF CancelGroupChangeSet
<1>6. ASSUME NEW u \in Users, AddUser(u) PROVE NameInv'
  <2> DEFINE less == [Current EXCEPT !.rm = @ \ {u}]
  <2>1. less \in ChangeSet /\ less.name = Current.name /\ less.nameId = Current.nameId
    BY <1>1 DEF ChangeSet
  <2>2. Edit(WithAdded(less, {u}))
    BY <1>6 DEF AddUser
  <2> HIDE DEF less
  <2>3. Kept(WithAdded(less, {u}))
    BY <1>1, <2>1, WithUsersType
  <2> QED BY <1>2, <2>2, <2>3
<1>7. ASSUME NEW u \in Users, RemoveUser(u) PROVE NameInv'
  <2> DEFINE less == [Current EXCEPT !.add = @ \ {u}]
  <2>1. less \in ChangeSet /\ less.name = Current.name /\ less.nameId = Current.nameId
    BY <1>1 DEF ChangeSet
  <2>2. Edit(WithRemoved(less, {u}))
    BY <1>7 DEF RemoveUser
  <2> HIDE DEF less
  <2>3. Kept(WithRemoved(less, {u}))
    BY <1>1, <2>1, WithUsersType
  <2> QED BY <1>2, <2>2, <2>3
<1>8. ASSUME NEW u \in Users, RemoveUserFromAddUpdate(u) PROVE NameInv'
  <2> DEFINE less == [Current EXCEPT !.add = @ \ {u}]
  <2>1. less \in ChangeSet /\ less.name = Current.name /\ less.nameId = Current.nameId
    BY <1>1 DEF ChangeSet
  <2>2. Edit(less)
    BY <1>8 DEF RemoveUserFromAddUpdate
  <2> HIDE DEF less
  <2> QED BY <1>1, <1>2, <2>1, <2>2
<1>9. ASSUME NEW u \in Users, RemoveUserFromRemoveUpdate(u) PROVE NameInv'
  <2> DEFINE less == [Current EXCEPT !.rm = @ \ {u}]
  <2>1. less \in ChangeSet /\ less.name = Current.name /\ less.nameId = Current.nameId
    BY <1>1 DEF ChangeSet
  <2>2. Edit(less)
    BY <1>9 DEF RemoveUserFromRemoveUpdate
  <2> HIDE DEF less
  <2> QED BY <1>1, <1>2, <2>1, <2>2
<1> QED BY <1>3, <1>4, <1>5, <1>6, <1>7, <1>8, <1>9

LEMMA SentMessages ==
  ASSUME TypeOK, NEW d \in Devices, NEW cs, net' = [net EXCEPT ![d] = @ \union {cs}]
  PROVE  /\ \A e \in Devices \ {d} : net'[e] = net[e]
         /\ net'[d] = net[d] \union {cs}
  BY DEF TypeOK

LEMMA NameTypes ==
  ASSUME TypeOK
  PROVE  /\ {name, edits, sends, updateId} \subseteq Nat
         /\ current # NoSet => current.name \in Nat /\ current.nameId \in Int
         /\ \A d \in Devices :
              /\ dev[d].name \in Nat
              /\ \A cs \in net[d] :
                   cs \in ChangeSet /\ cs.name \in Nat /\ cs.nameId \in Int
         /\ \A a \in acks : a.dev \in Devices /\ a.id \in Nat
<1>1. {name, edits, sends, updateId} \subseteq Nat
  BY GroupUpdateAssumption DEF TypeOK
<1>2. \A cs \in ChangeSet : cs.name \in Nat /\ cs.nameId \in Int
  BY GroupUpdateAssumption DEF ChangeSet
<1>3. \A d \in Devices : \A cs \in net[d] : cs \in ChangeSet
  BY DEF TypeOK
<1>4. \A d \in Devices : dev[d].name \in Nat
  BY GroupUpdateAssumption DEF TypeOK
<1>5. \A a \in acks : a.dev \in Devices /\ a.id \in Nat
  BY GroupUpdateAssumption DEF TypeOK, Ack
<1> QED BY <1>1, <1>2, <1>3, <1>4, <1>5 DEF TypeOK

(* A new name goes to all devices.                                         *)
LEMMA PrepareKeeps ==
  ASSUME TypeOK, LeftInv, NameInv, PrepareChangeSetSend(Devices), current # NoSet, Prepare(sends')
  PROVE  NameInv'
<1>1. /\ app.pc = "idle" /\ app' = [pc |-> "prepared", left |-> Devices]
      /\ sends \in Nat /\ sends' = sends + 1 /\ sends' \in 0 .. MaxSends
      /\ UNCHANGED <<rows, expired, net, dev, acks, edits>>
  BY NextId DEF PrepareChangeSetSend, Prepare
<1>2. /\ current' \in ChangeSet /\ updateId' = sends' /\ inProgress'
      /\ current'.nameId # Absent => current'.nameId = sends' /\ current'.name = name'
      /\ IF current.nameId = Absent THEN name' = name
         ELSE name' = current.name /\ current'.nameId # Absent
  BY <1>1, PrepareType
<1>3. StampInv'
  BY <1>2 DEF StampInv
<1>4. NamesInv'
  <2>1. name <= name' /\ name' <= edits /\ name' \in Nat
    BY <1>2, NameTypes DEF NameInv, NamesInv
  <2>2. current'.nameId # Absent => name' <= current'.name /\ current'.name <= edits
    BY <1>2, <2>1
  <2>3. \A d \in Devices :
          /\ dev[d].name <= name'
          /\ \A cs \in net[d] : cs.nameId # Absent => cs.name <= name'
    BY <2>1, NameTypes DEF NameInv, NamesInv
  <2> QED BY <1>1, <2>1, <2>2, <2>3 DEF NamesInv
<1>5. IdsInv'
  <2>1. /\ \A d \in Devices : \A cs \in net[d] : cs.nameId < sends'
        /\ \A a \in acks : a.part = "name" => a.id < sends'
    BY <1>1, NameTypes DEF NameInv, IdsInv
  <2>2. /\ \A d \in Devices : \A cs \in net[d] : cs.nameId <= sends'
        /\ \A a \in acks : a.part = "name" => a.id <= sends'
    BY <1>1, <2>1, NameTypes
  <2> QED BY <1>1, <1>2, <2>1, <2>2 DEF IdsInv
<1>6. CASE current'.nameId # Absent
  <2>1. \A d \in Devices : Owed(d)'
    BY <1>1, <1>2, <1>6, NoSetAssumption DEF Owed
  <2>2. AnswerInv' /\ WaitInv'
    BY <1>1, <2>1, NameTypes DEF AnswerInv, WaitInv
  <2> QED BY <1>3, <1>4, <1>5, <2>2 DEF NameInv
<1>7. CASE current'.nameId = Absent
  <2>1. name' = name /\ \A d : ~Owed(d) /\ ~Owed(d)'
    BY <1>1, <1>2, <1>7, IdleOwesNothing DEF Owed
  <2>2. AnswerInv' /\ WaitInv'
    BY <1>1, <2>1 DEF NameInv, AnswerInv, WaitInv, Waits, Expired
  <2> QED BY <1>3, <1>4, <1>5, <2>2 DEF NameInv
<1> QED BY <1>6, <1>7

(* An error leaves the change set stamped, and nothing else.               *)
LEMMA PrepareFailsKeeps ==
  ASSUME TypeOK, LeftInv, NameInv, PrepareFails
  PROVE  NameInv'
<1>1. /\ app.pc = "idle" /\ app' = app /\ current # NoSet
      /\ sends \in Nat /\ sends' = sends + 1 /\ updateId' = sends' /\ sends' \in 0 .. MaxSends
      /\ UNCHANGED <<name, rows, expired, net, dev, acks, edits>>
  BY NextId DEF PrepareFails, store, ghosts
<1>2. /\ current' \in ChangeSet /\ current'.name = current.name
      /\ current'.nameId # Absent => current.nameId # Absent
  BY <1>1, StampNameType DEF PrepareFails, TypeOK
<1>3. (\A d : ~Owed(d)) /\ (\A d : ~Owed(d)')
  BY <1>1, IdleOwesNothing DEF LeftInv, Owed
<1>4. StampInv' /\ NamesInv'
  BY <1>1, <1>2 DEF NameInv, StampInv, NamesInv
<1>5. IdsInv'
  <2>1. /\ \A d \in Devices : \A cs \in net[d] : cs.nameId <= sends'
        /\ \A a \in acks : a.part = "name" => a.id <= sends'
    BY <1>1, NameTypes DEF NameInv, IdsInv
  <2> QED BY <1>1, <2>1 DEF IdsInv
<1>6. AnswerInv' /\ WaitInv'
  BY <1>1, <1>3 DEF NameInv, AnswerInv, WaitInv, Waits, Expired
<1> QED BY <1>4, <1>5, <1>6 DEF NameInv

(* A device is sent the present name: the record is that of this update,   *)
(* which no earlier message or acknowledgement answers.                    *)
LEMMA CreateKeeps ==
  ASSUME TypeOK, NameInv, NEW d \in Devices, CreateChangeSetDevice(d)
  PROVE  NameInv'
<1> DEFINE cs == Collapsed(d)
<1>1. /\ app.pc = "sending" /\ d \in app.left /\ current # NoSet
      /\ app'.pc = "sending" /\ app'.left = app.left \ {d}
      /\ current' = cs /\ rows' = RowsFor(d, cs)
      /\ net' = [net EXCEPT ![d] = @ \union {cs}]
      /\ expired' = expired \ [dev : {d}, part : PartsOf(cs)]
      /\ UNCHANGED <<name, updateId, inProgress, dev, acks, edits, sends>>
  BY DEF CreateChangeSetDevice, TypeOK, App, counts
<1>2. /\ cs \in ChangeSet /\ cs # NoSet
      /\ cs.nameId # Absent => cs.nameId = updateId /\ cs.name = name
      /\ current.nameId # Absent => cs.nameId # Absent
  BY <1>1, CollapsedType, NoSetAssumption DEF NameInv, StampInv
<1>3. /\ \A e \in Devices \ {d} : net'[e] = net[e]
      /\ net'[d] = net[d] \union {cs}
  <2> HIDE DEF cs
  <2> QED BY <1>1, SentMessages
<1>4. \A e \in Devices \ {d} : \A id : NameRow(e, id) \in rows' <=> NameRow(e, id) \in rows
  BY <1>1 DEF RowsFor, NameRow
<1>5. /\ cs.nameId = Absent => \A id : NameRow(d, id) \in rows' <=> NameRow(d, id) \in rows
      /\ cs.nameId # Absent => \A id : NameRow(d, id) \in rows' <=> id = updateId
  BY <1>1 DEF RowsFor, NameRow, PartsOf, IdOf, Parts
<1> HIDE DEF cs
<1>6. StampInv' /\ NamesInv'
  BY <1>1, <1>2, <1>3, NameTypes DEF NameInv, StampInv, NamesInv
<1>7. IdsInv'
  BY <1>1, <1>2, <1>3, NameTypes DEF NameInv, IdsInv
<1>8. /\ \A e \in Devices \ {d} : Owed(e) => Owed(e)'
      /\ Owed(d) => cs.nameId # Absent
  BY <1>1, <1>2 DEF Owed
<1>9. WaitInv'
  <2>0. \A e \in Devices \ {d} : Expired(e, "name") => Expired(e, "name")'
    BY <1>1 DEF Expired
  <2>1. ASSUME NEW e \in Devices \ {d} PROVE Waits(e, "name") => Waits(e, "name")'
    <3>1. ASSUME NEW r \in rows, r.dev = e, r.part = "name" PROVE r \in rows'
      BY <1>1, <3>1 DEF RowsFor
    <3> QED BY <3>1 DEF Waits
  <2>2. CASE cs.nameId # Absent
    <3>1. NameRow(d, updateId) \in rows'
      BY <1>5, <2>2
    <3>2. Waits(d, "name")'
      BY <3>1 DEF Waits, NameRow
    <3> QED BY <1>1, <1>8, <2>0, <2>1, <3>2 DEF NameInv, WaitInv
  <2>3. CASE cs.nameId = Absent
    <3>1. ASSUME NEW r \in rows, r.dev = d, r.part = "name" PROVE r \in rows'
      BY <1>1, <2>3, <3>1 DEF RowsFor, PartsOf, IdOf, Parts
    <3>2. Waits(d, "name") => Waits(d, "name")'
      BY <3>1 DEF Waits
    <3>3. Expired(d, "name") => Expired(d, "name")'
      BY <1>1, <2>3 DEF Expired, PartsOf, IdOf, Parts
    <3> QED BY <1>1, <1>8, <2>0, <2>1, <2>3, <3>2, <3>3 DEF NameInv, WaitInv
  <2> QED BY <2>2, <2>3
<1>10. AnswerInv'
  <2>1. ASSUME NEW e \in Devices, NEW m \in net'[e],
               m.nameId # Absent, NameRow(e, m.nameId) \in rows'
        PROVE  m.name = name \/ Owed(e)'
    <3>1. CASE e # d
      BY <1>3, <1>4, <1>8, <2>1, <3>1 DEF NameInv, AnswerInv
    <3>2. CASE e = d /\ m = cs
      BY <1>2, <2>1, <3>2
    <3>3. CASE e = d /\ m \in net[d]
      <4>1. CASE cs.nameId = Absent
        BY <1>5, <1>8, <2>1, <3>3, <4>1 DEF NameInv, AnswerInv
      <4>2. CASE cs.nameId # Absent
        <5>1. m.nameId = updateId
          BY <1>5, <2>1, <3>3, <4>2
        <5>2. m.nameId < updateId
          BY <1>1, <3>3 DEF NameInv, IdsInv
        <5> QED BY <5>1, <5>2, NameTypes
      <4> QED BY <4>1, <4>2
    <3> QED BY <1>3, <2>1, <3>1, <3>2, <3>3
  <2>2. ASSUME NEW a \in acks, a.part = "name", a \in rows'
        PROVE  dev[a.dev].name = name \/ Owed(a.dev)'
    <3>1. a = NameRow(a.dev, a.id) /\ a.dev \in Devices
      BY <2>2 DEF TypeOK, Ack, NameRow
    <3>2. CASE a.dev # d
      <4>1. a \in rows
        BY <1>4, <2>2, <3>1, <3>2
      <4> QED BY <1>8, <2>2, <3>1, <3>2, <4>1 DEF NameInv, AnswerInv
    <3>3. CASE a.dev = d /\ cs.nameId = Absent
      <4>1. a \in rows
        BY <1>5, <2>2, <3>1, <3>3
      <4> QED BY <1>8, <2>2, <3>3, <4>1 DEF NameInv, AnswerInv
    <3>4. CASE a.dev = d /\ cs.nameId # Absent
      <4>1. a.id = updateId
        BY <1>5, <2>2, <3>1, <3>4
      <4>2. a.id < updateId
        BY <1>1, <2>2, <3>4 DEF NameInv, IdsInv
      <4> QED BY <4>1, <4>2, NameTypes
    <3> QED BY <3>1, <3>2, <3>3, <3>4
  <2> QED BY <1>1, <2>1, <2>2 DEF AnswerInv
<1> QED BY <1>6, <1>7, <1>9, <1>10 DEF NameInv

(* A device that receives a message knows its name afterwards, and its      *)
(* acknowledgements are those of the message.                              *)
LEMMA ReceiveKeeps ==
  ASSUME TypeOK, NameInv, NEW d \in Devices, NEW cs \in net[d], Receive(d, cs)
  PROVE  NameInv'
<1>1. /\ dev' = [dev EXCEPT ![d] = Updated(@, cs)]
      /\ acks' = acks \union {[dev |-> d, part |-> p, id |-> IdOf(cs, p)] : p \in Answered(cs)}
      /\ net' = [net EXCEPT ![d] = @ \ {cs}]
      /\ UNCHANGED <<name, rows, expired, current, app, updateId, inProgress, edits, sends>>
  BY DEF Receive, store, update, ghosts, counts
<1>2. cs \in net[d]
  BY <1>1 DEF TypeOK
<1>3. /\ \A e \in Devices : net'[e] \subseteq net[e]
      /\ \A e : Owed(e) <=> Owed(e)'
  <2>1. net'[d] = net[d] \ {cs} /\ \A e \in Devices \ {d} : net'[e] = net[e]
    BY <1>1 DEF TypeOK
  <2> QED BY <1>1, <2>1 DEF Owed
<1>4. /\ \A e \in Devices \ {d} : dev'[e] = dev[e]
      /\ dev'[d].name = IF cs.nameId # Absent /\ cs.name > dev[d].name
                        THEN cs.name ELSE dev[d].name
  BY <1>1 DEF Updated, TypeOK
<1>5. ASSUME NEW a \in acks', a.part = "name"
      PROVE  a \in acks \/ (a = NameRow(d, cs.nameId) /\ cs.nameId # Absent)
  <2>1. a \in acks \/ \E p \in Answered(cs) : a = [dev |-> d, part |-> p, id |-> IdOf(cs, p)]
    BY <1>1, <1>5
  <2> QED BY <1>5, <2>1 DEF NameRow, IdOf, Answered, PartsOf
<1>6. StampInv' /\ NamesInv'
  <2>1. \A e \in Devices : dev'[e].name <= name
    BY <1>2, <1>4, NameTypes DEF NameInv, NamesInv
  <2> QED BY <1>1, <1>3, <2>1 DEF NameInv, StampInv, NamesInv
<1>7. IdsInv'
  <2>1. \A a \in acks' : a.part = "name" =>
          /\ a.id <= sends
          /\ app.pc # "idle" /\ current # NoSet /\ a.dev \in app.left => a.id < updateId
    <3>1. ASSUME NEW a \in acks', a.part = "name"
          PROVE  /\ a.id <= sends
                 /\ app.pc # "idle" /\ current # NoSet /\ a.dev \in app.left => a.id < updateId
      BY <1>2, <1>5, <3>1 DEF NameInv, IdsInv, NameRow
    <3> QED BY <3>1
  <2> QED BY <1>1, <1>3, <2>1 DEF NameInv, IdsInv
<1>8. \A e \in Devices : dev[e].name = name => dev'[e].name = name
  BY <1>2, <1>4, NameTypes DEF NameInv, NamesInv
<1>9. AnswerInv'
  <2>1. ASSUME NEW a \in acks', a.part = "name", a \in rows
        PROVE  dev'[a.dev].name = name \/ Owed(a.dev)
    <3>1. CASE a \in acks
      BY <1>8, <2>1, <3>1, NameTypes DEF NameInv, AnswerInv
    <3>2. CASE a = NameRow(d, cs.nameId) /\ cs.nameId # Absent
      <4>1. a.dev = d /\ (cs.name = name \/ Owed(d))
        BY <1>2, <2>1, <3>2 DEF NameInv, AnswerInv, NameRow
      <4>2. cs.name = name => dev'[d].name = name
        BY <1>4, <3>2, NameTypes DEF NameInv, NamesInv
      <4> QED BY <4>1, <4>2
    <3> QED BY <1>5, <2>1, <3>1, <3>2
  <2> QED BY <1>1, <1>3, <2>1 DEF NameInv, AnswerInv
<1>10. WaitInv'
  BY <1>1, <1>3, <1>8 DEF NameInv, WaitInv, Waits, Expired
<1> QED BY <1>6, <1>7, <1>9, <1>10 DEF NameInv

LEMMA LoseKeeps ==
  ASSUME TypeOK, NameInv, NEW d \in Devices, NEW cs \in net[d], Lose(d, cs)
  PROVE  NameInv'
<1>1. /\ net' = [net EXCEPT ![d] = @ \ {cs}]
      /\ UNCHANGED <<name, rows, expired, dev, acks, current, app, updateId, inProgress,
                     edits, sends>>
  BY DEF Lose, store, update, ghosts
<1>2. /\ \A e \in Devices : net'[e] \subseteq net[e]
      /\ \A e : Owed(e) <=> Owed(e)'
  <2>1. net'[d] = net[d] \ {cs} /\ \A e \in Devices \ {d} : net'[e] = net[e]
    BY <1>1 DEF TypeOK
  <2> QED BY <1>1, <2>1 DEF Owed
<1>3. StampInv' /\ NamesInv' /\ IdsInv'
  BY <1>1, <1>2 DEF NameInv, StampInv, NamesInv, IdsInv
<1>4. AnswerInv' /\ WaitInv'
  BY <1>1, <1>2 DEF NameInv, AnswerInv, WaitInv, Waits, Expired
<1> QED BY <1>3, <1>4 DEF NameInv

(* Old records may go, too.                                                *)
LEMMA RecordsGo ==
  ASSUME TypeOK, NameInv, NEW answered, NEW old \in SUBSET rows, CleanWaitAck(old, answered),
         acks' \subseteq acks,
         UNCHANGED <<name, net, dev, current, app, updateId, inProgress, edits, sends>>,
         \A r \in rows \intersect answered :
           r.part = "name" => dev[r.dev].name = name \/ Owed(r.dev)
  PROVE  NameInv'
<1>1. /\ rows' \subseteq rows /\ expired \subseteq expired'
      /\ \A r \in rows : r \in rows' \/ r \in answered \/ Expired(r.dev, r.part)'
  BY CleaningKeeps
<1>2. \A e : Owed(e) <=> Owed(e)'
  BY DEF Owed
<1>3. StampInv' /\ NamesInv' /\ IdsInv'
  BY DEF NameInv, StampInv, NamesInv, IdsInv
<1>4. AnswerInv'
  BY <1>1, <1>2 DEF NameInv, AnswerInv
<1>5. WaitInv'
  <2>1. ASSUME NEW e \in Devices, dev[e].name # name, ~Owed(e)
        PROVE  Waits(e, "name")' \/ Expired(e, "name")'
    <3>1. CASE Expired(e, "name")
      BY <1>1, <3>1 DEF Expired
    <3>2. CASE ~Expired(e, "name")
      <4>1. PICK r \in rows : r.dev = e /\ r.part = "name"
        BY <2>1, <3>2 DEF NameInv, WaitInv, Waits
      <4> QED BY <1>1, <2>1, <4>1 DEF Waits
    <3> QED BY <3>1, <3>2
  <2> QED BY <1>2, <2>1 DEF WaitInv
<1> QED BY <1>3, <1>4, <1>5 DEF NameInv

(* An acknowledgement that takes a record of the name with it comes from a *)
(* device that knows the present name, or is sent it later.                *)
LEMMA AckKeeps ==
  ASSUME TypeOK, NameInv, group = "joined", NEW a \in acks, ProcessAck(a)
  PROVE  NameInv'
<1>1. /\ acks' \subseteq acks
      /\ UNCHANGED <<name, net, dev, current, app, updateId, inProgress, edits, sends>>
  BY DEF ProcessAck, update
<1>2. PICK old \in SUBSET rows : CleanWaitAck(old, {a})
  BY DEF ProcessAck
<1>3. \A r \in rows \intersect {a} :
        r.part = "name" => dev[r.dev].name = name \/ Owed(r.dev)
  BY DEF NameInv, AnswerInv
<1> QED BY <1>1, <1>2, <1>3, RecordsGo

LEMMA OtherAcksKeep ==
  ASSUME TypeOK, NameInv, ProcessOtherAcks
  PROVE  NameInv'
<1>1. UNCHANGED <<acks, name, net, dev, current, app, updateId, inProgress, edits, sends>>
  BY DEF ProcessOtherAcks, update
<1>2. PICK old \in SUBSET rows : CleanWaitAck(old, {})
  BY DEF ProcessOtherAcks
<1> QED BY <1>1, <1>2, RecordsGo

(* A device id is no update id, so nothing is ever sent again.             *)
LEMMA ResendKeeps ==
  ASSUME TypeOK, NameInv, NEW d \in Devices, ResendPending(d)
  PROVE  NameInv'
<1>1. \A r \in rows : r.id # d
  BY GroupUpdateAssumption DEF TypeOK, Ack
<1>2. net' = net
  BY <1>1 DEF ResendPending, HasWaitAckGroupDevice
<1>3. current = NoSet
  BY DEF NameInv, StampInv, ResendPending
<1>4. /\ app.pc = "sending" /\ app'.left \subseteq app.left
      /\ UNCHANGED <<name, rows, expired, dev, acks, current, updateId, inProgress, edits, sends>>
  BY DEF ResendPending, store, update, ghosts, counts, TypeOK, App
<1>5. updateId' <= sends
  BY <1>4 DEF NameInv, IdsInv
<1> QED BY <1>2, <1>3, <1>4, <1>5, ThreadKeeps DEF Owed

(* The other steps of the application thread.                              *)
LEMMA SendingKeeps ==
  ASSUME TypeOK, LeftInv, NameInv, group = "joined",
         \/ StartSending \/ GroupUpdateSendDone
         \/ \E d \in Devices : CreateFromEmptySet(d) \/ CreateInconsistent(d)
  PROVE  NameInv'
<1>1. updateId <= sends /\ sends \in Nat
  BY NameTypes DEF NameInv, IdsInv
<1>2. CASE StartSending
  <2>1. /\ app.pc = "prepared" /\ app'.left = app.left
        /\ UNCHANGED <<name, rows, expired, net, dev, acks, current, updateId, inProgress,
                       edits, sends>>
    BY <1>2 DEF StartSending, store, update, ghosts, counts
  <2> QED BY <1>1, <2>1, ThreadKeeps DEF Owed
<1>3. CASE GroupUpdateSendDone
  <2>1. /\ app.left = {} /\ app' = Idle /\ updateId' = 0
        /\ current' # NoSet => current' = current
        /\ UNCHANGED <<name, rows, expired, net, dev, acks, edits, sends>>
    BY <1>3 DEF GroupUpdateSendDone, ghosts, counts
  <2> QED BY <1>1, <2>1, ThreadKeeps DEF Owed, Idle
<1>4. ASSUME NEW d \in Devices, CreateFromEmptySet(d) PROVE NameInv'
  <2>1. /\ app.pc = "sending" /\ app'.left = app.left
        /\ UNCHANGED <<name, rows, expired, net, dev, acks, current, updateId, inProgress,
                       edits, sends>>
    BY <1>4 DEF CreateFromEmptySet, store, update, ghosts, counts, TypeOK, App
  <2> QED BY <1>1, <2>1, ThreadKeeps DEF Owed
<1>5. ASSUME NEW d \in Devices, CreateInconsistent(d) PROVE NameInv'
  <2>1. /\ app.pc = "sending" /\ app'.left \subseteq app.left /\ current = NoSet
        /\ UNCHANGED <<name, rows, expired, net, dev, acks, current, updateId, inProgress,
                       edits, sends>>
    BY <1>5 DEF CreateInconsistent, store, update, ghosts, counts, TypeOK, App
  <2> QED BY <1>1, <2>1, ThreadKeeps DEF Owed
<1> QED BY <1>2, <1>3, <1>4, <1>5

(* A message without a current change set.                                 *)
LEMMA PlainKeeps ==
  ASSUME TypeOK, LeftInv, NameInv, NEW to, PrepareChangeSetSend(to), current = NoSet,
         UNCHANGED <<group, name, members, update, ghosts>>
  PROVE  NameInv'
<1>1. /\ sends \in Nat /\ sends' = sends + 1 /\ current = NoSet /\ current' = NoSet
      /\ UNCHANGED <<name, rows, expired, net, dev, acks, updateId, edits>>
  BY DEF PrepareChangeSetSend, TypeOK, update, ghosts
<1>2. StampInv' /\ NamesInv'
  BY <1>1 DEF NameInv, StampInv, NamesInv
<1>3. IdsInv'
  <2>1. /\ updateId <= sends'
        /\ \A d \in Devices : \A cs \in net[d] : cs.nameId <= sends'
        /\ \A a \in acks : a.part = "name" => a.id <= sends'
    BY <1>1, NameTypes DEF NameInv, IdsInv
  <2> QED BY <1>1, <2>1 DEF IdsInv
<1>4. AnswerInv' /\ WaitInv'
  BY <1>1 DEF NameInv, AnswerInv, WaitInv, Waits, Expired, Owed
<1> QED BY <1>2, <1>3, <1>4 DEF NameInv

LEMMA InvInit == Init => IInv
<1> SUFFICES ASSUME Init PROVE IInv
  OBVIOUS
<1>1. TypeOK /\ LeftInv
  BY InitType DEF Init, LeftInv, Idle
<1>2. StampInv /\ AnswerInv /\ WaitInv
  BY DEF Init, StampInv, AnswerInv, WaitInv
<1>3. NamesInv /\ IdsInv
  BY DEF Init, NamesInv, IdsInv
<1> QED BY <1>1, <1>2, <1>3 DEF IInv, NameInv

(* No step makes a group regular again.                                    *)
LEMMA RegularStep ==
  ASSUME TypeOK, [Next]_vars, Regular'
  PROVE  Regular
<1> USE DEF Regular
<1>1. ASSUME NEW cs, Edit(cs) PROVE Regular
  BY <1>1 DEF Edit, store, ghosts
<1>2. ASSUME NEW to, PrepareChangeSetSend(to) PROVE Regular
  <2>1. group' = "joined" => group = "joined"
    BY <1>2 DEF PrepareChangeSetSend, Prepare
  <2>2. crashes' = crashes
    BY <1>2 DEF PrepareChangeSetSend
  <2>3. ~partial' => ~partial
    BY <1>2, Zenon DEF PrepareChangeSetSend, ghosts
  <2> QED BY <2>1, <2>2, <2>3
<1>3. CASE PrepareFails \/ StartSending \/ GroupUpdateSendDone
  BY <1>3 DEF PrepareFails, StartSending, GroupUpdateSendDone, store, ghosts, counts
<1>4. ASSUME NEW d \in Devices,
             \/ CreateChangeSetDevice(d) \/ CreateFromEmptySet(d) \/ CreateInconsistent(d)
             \/ ResendPending(d)
      PROVE  Regular
  BY <1>4 DEF CreateChangeSetDevice, CreateFromEmptySet, CreateInconsistent, ResendPending,
              store, ghosts, counts
<1>9. ASSUME NEW d \in Devices, NEW cs \in net[d], Receive(d, cs) \/ Lose(d, cs) PROVE Regular
  BY <1>9 DEF Receive, Lose, store, ghosts, counts
<1>5. CASE (\E a \in acks : ProcessAck(a)) \/ ProcessOtherAcks
  <2>1. UNCHANGED <<group, crashes, partial>>
    BY <1>5 DEF ProcessAck, ProcessOtherAcks
  <2> QED BY <2>1
<1>6. CASE ProcessLeaveGroup
  BY <1>6 DEF ProcessLeaveGroup
<1>7. CASE Crash
  BY <1>7 DEF Crash, TypeOK
<1>8. CASE UNCHANGED vars
  BY <1>8 DEF vars, store, ghosts, counts
<1> QED BY <1>1, <1>2, <1>3, <1>4, <1>5, <1>6, <1>7, <1>8, <1>9
        DEF Next, SetGroupName, RemoveGroupName, CancelGroupChangeSet, AddUser, RemoveUser,
            RemoveUserFromAddUpdate, RemoveUserFromRemoveUpdate

LEMMA InvStep == IInv /\ [Next]_vars => IInv'
<1> SUFFICES ASSUME IInv, [Next]_vars PROVE IInv'
  OBVIOUS
<1>1. TypeOK /\ LeftInv /\ TypeOK' /\ LeftInv'
  BY TypeStep, LeftStep DEF IInv
<1>2. SUFFICES ASSUME Regular' PROVE NameInv'
  BY <1>1 DEF IInv
<1>3. Regular /\ NameInv
  BY <1>1, <1>2, RegularStep DEF IInv
<1>4. ASSUME NEW to \in Targets, PrepareChangeSetSend(to) PROVE NameInv'
  <2>1. CASE current = NoSet /\ UNCHANGED <<group, name, members, update, ghosts>>
    BY <1>1, <1>3, <1>4, <2>1, PlainKeeps
  <2>2. CASE current # NoSet /\ Prepare(sends') /\ partial' = (partial \/ to # Devices)
    <3>1. to = Devices
      BY <1>2, <2>2 DEF Regular
    <3> QED BY <1>1, <1>3, <1>4, <2>2, <3>1, PrepareKeeps
  <2> QED BY <1>4, <2>1, <2>2 DEF PrepareChangeSetSend
<1>5. CASE ProcessLeaveGroup \/ Crash
  BY <1>1, <1>2, <1>5 DEF ProcessLeaveGroup, Crash, Regular, TypeOK
<1>6. CASE UNCHANGED vars
  BY <1>3, <1>6 DEF vars, store, update, ghosts, counts, NameInv, StampInv, NamesInv, IdsInv,
                    AnswerInv, WaitInv, Owed, Waits, Expired
<1>7. group = "joined"
  BY <1>3 DEF Regular
<1> QED BY <1>1, <1>3, <1>4, <1>5, <1>6, <1>7, EditsKeep, PrepareFailsKeeps, SendingKeeps,
           CreateKeeps, ResendKeeps, ReceiveKeeps, LoseKeeps, AckKeeps, OtherAcksKeep DEF Next

(* While the group stands, the process lives and no message went to one    *)
(* member only: a device that does not know the name is waited for, until  *)
(* its record is dropped by age.                                           *)
THEOREM NobodyForgotten == Spec => []NameAwaited
<1>1. IInv => NameAwaited
  BY DEF IInv, NameInv, WaitInv, NameAwaited, Owed, StillToSend
<1> QED BY <1>1, InvInit, InvStep, PTL DEF Spec

-----------------------------------------------------------------------------
(* What is settled.  Without losses, the record of a name is answered by a *)
(* message on its way or by an acknowledgement, until it is removed.       *)

Answers(r) == r \in acks \/ \E cs \in net[r.dev] : cs.nameId = r.id

SettleInv ==
  /\ app.pc # "idle" /\ current # NoSet /\ current.nameId # Absent => current.nameId = updateId
  /\ group = "joined" /\ losses = 0 => \A r \in rows : r.part = "name" => Answers(r)

(* The first part: a change set gets the id of its update when it is       *)
(* prepared, and nobody edits it while it is sent.                         *)
LEMMA SettleStamp ==
  ASSUME TypeOK, SettleInv, [Next]_vars,
         app'.pc # "idle", current' # NoSet, current'.nameId # Absent
  PROVE  current'.nameId = updateId'
<1> USE DEF SettleInv
<1>1. ASSUME NEW cs, Edit(cs) PROVE FALSE
  BY <1>1 DEF Edit
<1>2. ASSUME NEW to, PrepareChangeSetSend(to) PROVE current'.nameId = updateId'
  <2>1. CASE current = NoSet /\ UNCHANGED <<group, name, members, update, ghosts>>
    BY <2>1 DEF update
  <2>2. CASE current # NoSet /\ Prepare(sends')
    <3>1. sends' \in 0 .. MaxSends
      BY <1>2, NextId DEF PrepareChangeSetSend
    <3> QED BY <2>2, <3>1, PrepareType
  <2> QED BY <1>2, <2>1, <2>2 DEF PrepareChangeSetSend
<1>3. CASE PrepareFails
  BY <1>3 DEF PrepareFails
<1>4. CASE StartSending \/ GroupUpdateSendDone \/ Crash
  <2>1. app' = Idle \/ (app.pc = "prepared" /\ UNCHANGED update)
    BY <1>4 DEF StartSending, GroupUpdateSendDone, Crash
  <2> QED BY <2>1 DEF Idle, update
<1>5. ASSUME NEW d \in Devices, CreateChangeSetDevice(d) PROVE current'.nameId = updateId'
  <2>1. app.pc = "sending" /\ current # NoSet /\ current' = Collapsed(d) /\ updateId' = updateId
    BY <1>5 DEF CreateChangeSetDevice
  <2> QED BY <2>1, CollapsedType
<1>6. ASSUME NEW d \in Devices,
             \/ CreateFromEmptySet(d) \/ CreateInconsistent(d) \/ ResendPending(d)
             \/ \E cs \in net[d] : Receive(d, cs) \/ Lose(d, cs)
      PROVE  current'.nameId = updateId'
  <2>1. UNCHANGED update /\ (app.pc = "sending" \/ app' = app)
    BY <1>6 DEF CreateFromEmptySet, CreateInconsistent, ResendPending, Receive, Lose
  <2> QED BY <2>1 DEF update
<1>7. CASE (\E a \in acks : ProcessAck(a)) \/ ProcessOtherAcks
  BY <1>7 DEF ProcessAck, ProcessOtherAcks, update
<1>8. CASE ProcessLeaveGroup \/ UNCHANGED vars
  BY <1>8 DEF ProcessLeaveGroup, vars, update
<1> QED BY <1>1, <1>2, <1>3, <1>4, <1>5, <1>6, <1>7, <1>8
        DEF Next, SetGroupName, RemoveGroupName, CancelGroupChangeSet, AddUser, RemoveUser,
            RemoveUserFromAddUpdate, RemoveUserFromRemoveUpdate

(* A record is answered as long as its message or acknowledgement stays.   *)
LEMMA StillAnswered ==
  ASSUME SettleInv, group = "joined", losses = 0,
         rows' \subseteq rows,
         \A r \in rows' : r.part = "name" /\ r \in acks => r \in acks',
         \A r \in rows' : r.part = "name" => net[r.dev] \subseteq net[r.dev]'
  PROVE  \A r \in rows' : r.part = "name" => Answers(r)'
  BY DEF SettleInv, Answers

LEMMA CreateAnswers ==
  ASSUME TypeOK, SettleInv, group = "joined", losses = 0,
         NEW d \in Devices, CreateChangeSetDevice(d)
  PROVE  \A r \in rows' : r.part = "name" => Answers(r)'
<1> DEFINE cs == Collapsed(d)
<1>1. /\ app.pc = "sending" /\ current # NoSet
      /\ rows' = RowsFor(d, cs) /\ net' = [net EXCEPT ![d] = @ \union {cs}] /\ acks' = acks
  BY DEF CreateChangeSetDevice
<1>2. cs.nameId # Absent => cs.nameId = updateId
  BY <1>1, CollapsedType DEF SettleInv
<1>3. ASSUME NEW r \in rows', r.part = "name"
      PROVE  r \in rows \/ (r.dev = d /\ r.id = updateId /\ cs.nameId # Absent)
  BY <1>1, <1>3 DEF RowsFor, PartsOf, IdOf
<1> HIDE DEF cs
<1>4. /\ \A e \in Devices : net[e] \subseteq net'[e]
      /\ cs \in net'[d]
  <2>1. /\ \A e \in Devices \ {d} : net'[e] = net[e]
        /\ net'[d] = net[d] \union {cs}
    BY <1>1, SentMessages
  <2> QED BY <2>1
<1>5. ASSUME NEW r \in rows, r.part = "name" PROVE Answers(r)'
  BY <1>1, <1>4, <1>5 DEF SettleInv, Answers, TypeOK, Ack
<1>6. ASSUME NEW r \in rows', r.part = "name" PROVE Answers(r)'
  BY <1>2, <1>3, <1>4, <1>5, <1>6 DEF Answers
<1> QED BY <1>6

LEMMA ReceiveAnswers ==
  ASSUME TypeOK, SettleInv, group = "joined", losses = 0, NEW d \in Devices,
         NEW cs \in net[d], Receive(d, cs)
  PROVE  \A r \in rows' : r.part = "name" => Answers(r)'
<1>1. /\ rows' = rows /\ net' = [net EXCEPT ![d] = @ \ {cs}]
      /\ acks' = acks \union {[dev |-> d, part |-> p, id |-> IdOf(cs, p)] : p \in Answered(cs)}
  BY DEF Receive, store
<1>2. cs.nameId # Absent => NameRow(d, cs.nameId) \in acks'
  BY <1>1 DEF NameRow, Answered, PartsOf, IdOf, Parts
<1>3. /\ \A e \in Devices \ {d} : net'[e] = net[e]
      /\ net[d] \subseteq net'[d] \union {cs}
  BY <1>1 DEF TypeOK
<1>4. ASSUME NEW r \in rows, r.part = "name" PROVE Answers(r)'
  <2>0. r \in Ack
    BY DEF TypeOK
  <2>1. r.dev \in Devices /\ r.id # Absent /\ r = NameRow(r.dev, r.id)
    BY <1>4, <2>0 DEF Ack, NameRow
  <2>2. CASE r \in acks
    BY <1>1, <2>2 DEF Answers
  <2>3. ASSUME NEW m \in net[r.dev], m.nameId = r.id PROVE Answers(r)'
    BY <1>2, <1>3, <2>1, <2>3 DEF Answers
  <2> QED BY <1>4, <2>2, <2>3 DEF SettleInv, Answers
<1> QED BY <1>1, <1>4

LEMMA SettleStep == TypeOK /\ SettleInv /\ [Next]_vars => SettleInv'
<1> SUFFICES ASSUME TypeOK, SettleInv, [Next]_vars, group' = "joined", losses' = 0
             PROVE  \A r \in rows' : r.part = "name" => Answers(r)'
  BY SettleStamp DEF SettleInv
<1>1. ASSUME NEW cs, Edit(cs) PROVE \A r \in rows' : r.part = "name" => Answers(r)'
  BY <1>1, StillAnswered DEF Edit, store
<1>2. ASSUME NEW to, PrepareChangeSetSend(to) PROVE \A r \in rows' : r.part = "name" => Answers(r)'
  <2>1. group = "joined"
    BY <1>2 DEF PrepareChangeSetSend, Prepare
  <2> QED BY <1>2, <2>1, StillAnswered DEF PrepareChangeSetSend
<1>3. CASE PrepareFails \/ StartSending \/ GroupUpdateSendDone
  <2>1. UNCHANGED <<group, rows, net, acks, losses>>
    BY <1>3 DEF PrepareFails, StartSending, GroupUpdateSendDone, store, counts
  <2> QED BY <2>1, StillAnswered

<1>4. ASSUME NEW d \in Devices, CreateChangeSetDevice(d)
      PROVE  \A r \in rows' : r.part = "name" => Answers(r)'
  BY <1>4, CreateAnswers DEF CreateChangeSetDevice, counts
<1>5. ASSUME NEW d \in Devices, CreateFromEmptySet(d) \/ CreateInconsistent(d)
      PROVE  \A r \in rows' : r.part = "name" => Answers(r)'
  <2>1. UNCHANGED <<group, rows, net, acks, losses>>
    BY <1>5 DEF CreateFromEmptySet, CreateInconsistent, store, counts
  <2> QED BY <2>1, StillAnswered

<1>6. ASSUME NEW d \in Devices, ResendPending(d)
      PROVE  \A r \in rows' : r.part = "name" => Answers(r)'
  <2>1. \A r \in rows : r.id # d
    BY GroupUpdateAssumption DEF TypeOK, Ack
  <2>2. UNCHANGED <<group, rows, net, acks, losses>>
    BY <1>6, <2>1 DEF ResendPending, HasWaitAckGroupDevice, store, counts
  <2> QED BY <2>2, StillAnswered

<1>7. ASSUME NEW d \in Devices, NEW cs \in net[d], Receive(d, cs)
      PROVE  \A r \in rows' : r.part = "name" => Answers(r)'
  BY <1>7, ReceiveAnswers DEF Receive, store, counts
<1>8. ASSUME NEW d \in Devices, NEW cs \in net[d], Lose(d, cs) PROVE FALSE
  BY <1>8 DEF Lose, TypeOK
<1>9. ASSUME NEW a \in acks, ProcessAck(a)
      PROVE  \A r \in rows' : r.part = "name" => Answers(r)'
  <2>1. group = "joined" /\ losses = 0 /\ acks' = acks \ {a} /\ net' = net
    BY <1>9 DEF ProcessAck
  <2>2. rows' \subseteq rows \ {a}
    BY <1>9, <2>1 DEF ProcessAck, CleanWaitAck
  <2> QED BY <2>1, <2>2, StillAnswered
<1>12. CASE ProcessOtherAcks
  <2>1. UNCHANGED <<group, net, acks, losses>> /\ rows' \subseteq rows
    BY <1>12 DEF ProcessOtherAcks, CleanWaitAck
  <2> QED BY <2>1, StillAnswered
<1>10. CASE ProcessLeaveGroup
  BY <1>10 DEF ProcessLeaveGroup
<1>11. CASE Crash \/ UNCHANGED vars
  <2>1. UNCHANGED <<group, rows, net, acks, losses>>
    BY <1>11 DEF Crash, vars, store, counts
  <2> QED BY <2>1, StillAnswered

<1> QED BY <1>1, <1>2, <1>3, <1>4, <1>5, <1>6, <1>7, <1>8, <1>9, <1>10, <1>11, <1>12
        DEF Next, SetGroupName, RemoveGroupName, CancelGroupChangeSet, AddUser, RemoveUser,
            RemoveUserFromAddUpdate, RemoveUserFromRemoveUpdate

(* Once all messages and acknowledgements have arrived and none was lost,  *)
(* no record of a name is left.                                            *)
THEOREM EveryNameSettles == Spec => []NameSettled
<1>1. Init => SettleInv
  BY DEF Init, Idle, SettleInv
<1>2. TypeOK /\ SettleInv => NameSettled
  <2> SUFFICES ASSUME TypeOK, SettleInv, group = "joined", losses = 0, acks = {},
                      \A d \in Devices : net[d] = {},
                      NEW r \in rows, r.part = "name"
               PROVE  FALSE
    BY DEF NameSettled, Waits
  <2>1. Answers(r) /\ r.dev \in Devices
    BY DEF SettleInv, TypeOK, Ack
  <2> QED BY <2>1 DEF Answers
<1> QED BY <1>1, <1>2, InitType, TypeStep, SettleStep, PTL DEF Spec
=============================================================================
