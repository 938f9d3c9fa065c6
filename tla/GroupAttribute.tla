--------------------------- MODULE GroupAttribute ---------------------------
(***************************************************************************)
(* One attribute of a group (its name; avatar and burn time have the same  *)
(* code) on all devices of its members: every device may change it at any  *)
(* time, change sets arrive in any order, and vector clocks with an update *)
(* id as tie-break decide which one stays.  A device also sends what it    *)
(* has to a new member, under a new update id, and it may leave and join   *)
(* again.  On each device the thread of the application changes, and the   *)
(* command thread receives; no lock is common to what they do with clock   *)
(* and value, which are two rows of the store, read and written one by one.*)
(***************************************************************************)
EXTENDS Integers, FiniteSets, Functions

CONSTANTS
  Devices,
  MaxEvents   \* bound: changes, change sets for new members, and leaves

ASSUME GroupAttributeAssumption ==
  /\ IsFiniteSet(Devices)
  /\ MaxEvents \in Nat

VARIABLES
  group,   \* devices that have the group
  local,   \* what each device has stored: value, vector clock, update id
  job,     \* what each thread of a device is doing
  sent,    \* change sets that were sent to all other devices
  got,     \* the change sets each device has processed, or taken no notice of
  overlapped, \* history: devices where a change and an update that was accepted
              \* were between reading the clock and their last write together
  changes, hellos, leaves

vars == <<group, local, job, sent, got, overlapped, changes, hellos, leaves>>

Threads == {"application", "command"}

(* Update ids are random: any that is not in use.  A value is named by the *)
(* update id of the change that made it, and 0 is the empty one.           *)
Ids == 1 .. MaxEvents
Clocks == [Devices -> Nat]
Stored == [name : Ids \union {0}, clock : Clocks, id : Ids \union {0}]
Update == [name : Ids \union {0}, clock : Clocks, id : Ids, from : Devices, adds : BOOLEAN]

(* A thread that works: what it does next, and the value, the clock and    *)
(* the update id that it has in hand.                                      *)
Steps == {"store clock", "set name", "send", "read clock",
          "compare", "accept name", "accept clock"}

NoClock == [d \in Devices |-> 0]
Nothing == [name |-> 0, clock |-> NoClock, id |-> 0]
Idle == [at |-> "idle", name |-> 0, clock |-> NoClock, id |-> 0]

Job ==
  [at : Steps, name : Ids \union {0}, clock : Clocks, id : Ids]
    \union [at : {"idle", "delete group"}, name : {0}, clock : {NoClock}, id : {0}]

TypeOK ==
  /\ group \subseteq Devices
  /\ local \in [Devices -> Stored]
  /\ job \in [Devices -> [Threads -> Job]]
  /\ sent \subseteq Update
  /\ got \in [Devices -> SUBSET Ids]
  /\ overlapped \subseteq Devices
  /\ {changes, hellos, leaves} \subseteq Nat

(* All devices are in the group, and nobody has set the attribute yet.     *)
Init ==
  /\ group = Devices
  /\ local = [d \in Devices |-> Nothing]
  /\ job = [d \in Devices |-> [t \in Threads |-> Idle]]
  /\ sent = {}
  /\ got = [d \in Devices |-> {}]
  /\ overlapped = {}
  /\ changes = 0 /\ hellos = 0 /\ leaves = 0

-----------------------------------------------------------------------------
(* Vector clocks.                                                          *)

SumOfValues(c) == SumFunction(c)

(* compare: the result After, and Concurrent.                              *)
Dominates(c, e) == \A d \in Devices : c[d] >= e[d]
After(c, e) == Dominates(c, e) /\ c # e
Concurrent(c, e) == ~Dominates(c, e) /\ ~Dominates(e, c)

(* A mutant of ResolveConflict: the device prefers what it has.            *)
ResolveLocal(remote, stored) == FALSE

ResolveConflict(remote, stored) ==
  \/ SumOfValues(remote.clock) > SumOfValues(stored.clock)
  \/ SumOfValues(remote.clock) = SumOfValues(stored.clock) /\ remote.id > stored.id

(* A mutant of Accepts: the clocks are not compared.                       *)
AcceptsById(remote, stored) == remote.id > stored.id

Accepts(remote, stored) ==
  \/ After(remote.clock, stored.clock)
  \/ Concurrent(remote.clock, stored.clock) /\ ResolveConflict(remote, stored)

-----------------------------------------------------------------------------
Events == changes + hellos + leaves

InHand == {job[d][t].id : d \in Devices, t \in Threads}

(* A mutant of UnusedIds: the id of nobody's change is taken, too.         *)
UnusedOrZero == (Ids \union {0}) \ {u.id : u \in sent}

UnusedIds == Ids \ (InHand \union {u.id : u \in sent})

Incremented(c, d) == [c EXCEPT ![d] = @ + 1]

Becomes(d, t, j) == job' = [job EXCEPT ![d][t] = j]
GoesOn(d, t, at) == job' = [job EXCEPT ![d][t].at = at]
Ends(d, t) == Becomes(d, t, Idle)

SetGroupName(d, name) ==
  local' = [local EXCEPT ![d].name = IF d \in group THEN name ELSE @]
StoreClock(d, j) ==
  local' = [local EXCEPT ![d].clock = j.clock, ![d].id = j.id]

Unmoved == UNCHANGED <<group, sent, got, changes, hellos, leaves>>

(* A change of the attribute: prepareChangeSetSend reads the clock and     *)
(* increments it, ...                                                      *)
Change(d) ==
  /\ d \in group /\ job[d]["application"] = Idle
  /\ Events < MaxEvents
  /\ \E id \in UnusedIds :
       Becomes(d, "application", [at |-> "store clock", name |-> id,
                                  clock |-> Incremented(local[d].clock, d), id |-> id])
  /\ changes' = changes + 1
  /\ UNCHANGED <<group, local, sent, got, hellos, leaves>>

(* ... stores it with the update id, ...                                   *)
StoreChangedClock(d) ==
  /\ job[d]["application"].at = "store clock"
  /\ StoreClock(d, job[d]["application"])
  /\ GoesOn(d, "application", "set name")
  /\ Unmoved

(* ... and sets the value;                                                 *)
SetChangedName(d) ==
  /\ job[d]["application"].at = "set name"
  /\ SetGroupName(d, job[d]["application"].name)
  /\ GoesOn(d, "application", "send")
  /\ Unmoved

(* then the change set goes to the members, if the group is still there.   *)
SendChange(d) ==
  LET j == job[d]["application"]
      u == [name |-> j.name, clock |-> j.clock, id |-> j.id, from |-> d, adds |-> FALSE]
  IN /\ j.at = "send"
     /\ sent' = IF d \in group THEN sent \union {u} ELSE sent
     /\ Ends(d, "application")
     /\ UNCHANGED <<group, local, got, changes, hellos, leaves>>

(* Members are added, or a new device is found by the command thread:      *)
(* addMissingMetaData reads what the device has, and then its clock, which *)
(* it sends as it is under a new update id.                                *)
ReadMetaData(d, t) ==
  /\ d \in group /\ job[d][t] = Idle
  /\ Events < MaxEvents
  /\ \E id \in UnusedIds :
       Becomes(d, t, [at |-> "read clock", name |-> local[d].name, clock |-> NoClock, id |-> id])
  /\ hellos' = hellos + 1
  /\ UNCHANGED <<group, local, sent, got, changes, leaves>>

SendMetaData(d, t) ==
  LET j == job[d][t]
  IN /\ j.at = "read clock"
     /\ sent' = sent \union {[name |-> j.name, clock |-> local[d].clock, id |-> j.id,
                              from |-> d, adds |-> TRUE]}
     /\ Ends(d, t)
     /\ UNCHANGED <<group, local, got, changes, hellos, leaves>>

(* processReceivedChangeSet.  Members that are added make a new group,     *)
(* which has no clock yet; a device without the group takes no notice of   *)
(* anything else.                                                          *)
Receive(d, u) ==
  /\ u \in sent /\ u.from # d /\ u.id \notin got[d]
  /\ job[d]["command"] = Idle
  /\ group' = IF u.adds THEN group \union {d} ELSE group
  /\ local' = [local EXCEPT ![d].name = IF d \in group' \ group THEN u.name ELSE @]
  /\ IF d \in group'
       THEN /\ Becomes(d, "command", [at |-> "compare", name |-> u.name,
                                      clock |-> u.clock, id |-> u.id])
            /\ UNCHANGED got
       ELSE /\ got' = [got EXCEPT ![d] = @ \union {u.id}]
            /\ UNCHANGED job
  /\ UNCHANGED <<sent, changes, hellos, leaves>>

Finish(d) ==
  /\ got' = [got EXCEPT ![d] = @ \union {job[d]["command"].id}]
  /\ Ends(d, "command")
  /\ UNCHANGED <<group, sent, changes, hellos, leaves>>

(* processUpdateName reads the clock and compares: what the device has     *)
(* stays, ...                                                              *)
Refuse(d) ==
  /\ job[d]["command"].at = "compare"
  /\ ~Accepts(job[d]["command"], local[d])
  /\ Finish(d)
  /\ UNCHANGED local

(* ... or the update is accepted.                                          *)
Accept(d) ==
  /\ job[d]["command"].at = "compare"
  /\ Accepts(job[d]["command"], local[d])
  /\ GoesOn(d, "command", "accept name")
  /\ Unmoved /\ UNCHANGED local

SetAcceptedName(d) ==
  /\ job[d]["command"].at = "accept name"
  /\ SetGroupName(d, job[d]["command"].name)
  /\ GoesOn(d, "command", "accept clock")
  /\ Unmoved

StoreAcceptedClock(d) ==
  /\ job[d]["command"].at = "accept clock"
  /\ StoreClock(d, job[d]["command"])
  /\ Finish(d)

(* leaveGroup, or processLeaveGroup for a sibling: the clocks go, and then *)
(* the group.                                                              *)
DeleteClocks(d, t) ==
  /\ d \in group /\ job[d][t] = Idle
  /\ Events < MaxEvents
  /\ StoreClock(d, Nothing)
  /\ Becomes(d, t, [Idle EXCEPT !.at = "delete group"])
  /\ leaves' = leaves + 1
  /\ UNCHANGED <<group, sent, got, changes, hellos>>

DeleteGroup(d, t) ==
  /\ job[d][t].at = "delete group"
  /\ group' = group \ {d}
  /\ local' = [local EXCEPT ![d].name = 0]
  /\ Ends(d, t)
  /\ UNCHANGED <<sent, got, changes, hellos, leaves>>

(* A change and an update that was accepted, each with a clock it read and *)
(* something to write.                                                     *)
Overlap(d) ==
  /\ job[d]["application"].at \in {"store clock", "set name"}
  /\ job[d]["command"].at \in {"accept name", "accept clock"}

ChangeStep(d) == Change(d) \/ StoreChangedClock(d) \/ SetChangedName(d) \/ SendChange(d)

UpdateStep(d) ==
  \/ \E u \in sent : Receive(d, u)
  \/ Refuse(d) \/ Accept(d) \/ SetAcceptedName(d) \/ StoreAcceptedClock(d)

OtherStep(d, t) ==
  ReadMetaData(d, t) \/ SendMetaData(d, t) \/ DeleteClocks(d, t) \/ DeleteGroup(d, t)

Next ==
  \E d \in Devices :
    /\ ChangeStep(d) \/ UpdateStep(d) \/ \E t \in Threads : OtherStep(d, t)
    /\ overlapped' = IF Overlap(d)' THEN overlapped \union {d} ELSE overlapped

Spec == Init /\ [][Next]_vars

-----------------------------------------------------------------------------
(* Properties.                                                             *)

(* No change is under way, and every change set has been processed.        *)
Quiet ==
  /\ \A d \in Devices : job[d]["application"] = Idle
  /\ \A d \in Devices : \A u \in sent : u.from # d => u.id \in got[d]

(* Nobody left, and no change set went to new members.  Those bring the    *)
(* clock of an earlier change under an id of their own, so that the        *)
(* tie-break may decide differently on two devices; and a device that      *)
(* leaves starts its count again.                                          *)
OnlyChanges == hellos = 0 /\ leaves = 0

(* No two changes carry the same clock.  Devices replace clocks and do not  *)
(* merge them, so that a count may go back, and this may fail: see          *)
(* ClockNamesValue.                                                        *)
ClocksDiffer == \A u, v \in sent : u.clock = v.clock => u = v

(* Where a change and an accepted update overlap, one of them may be lost, *)
(* or the value of one stored with the clock of the other.                 *)
Orderly == Devices \ overlapped

(* When all change sets have arrived everywhere, in whatever order, all    *)
(* orderly devices show the same value, the changes of the others          *)
(* included, unless two changes carry the same clock.                      *)
Converged ==
  OnlyChanges /\ ClocksDiffer /\ Quiet
    => \A d, e \in Orderly : local[d].name = local[e].name

(* A change that was made in knowledge of all the others wins on every     *)
(* orderly device.                                                         *)
LatestWins ==
  OnlyChanges /\ Quiet =>
    \A u \in sent : (\A v \in sent \ {u} : After(u.clock, v.clock)) =>
      \A d \in Orderly : local[d].name = u.name

(* An orderly device never goes back to what was there before the value it *)
(* shows, in whatever order the changes reach it, unless it leaves.        *)
NeverBack ==
  [][\A d \in Orderly : leaves' = leaves => ~After(local[d].clock, local'[d].clock)]_vars

-----------------------------------------------------------------------------
(* What a comment of the code says, and the code does not do.              *)

(* One clock stands for one value on all devices, so that an update with   *)
(* an equal clock may be ignored: "The local data and the remote data are  *)
(* equal."  Asked of orderly devices that are between changes.             *)
ClockNamesValue ==
  OnlyChanges =>
    \A d, e \in {x \in Orderly : \A t \in Threads : job[x][t] = Idle} :
      local[d].clock = local[e].clock => local[d].name = local[e].name
=============================================================================
