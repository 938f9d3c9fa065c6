------------------------ MODULE GroupAttribute_proofs ------------------------
(* What holds of a group attribute for any number of devices and changes.   *)
EXTENDS GroupAttribute, TLAPS, FiniteSetTheorems

App(d) == job[d]["application"]
Cmd(d) == job[d]["command"]

(* A step of one device, without the history.                               *)
Step(d) == ChangeStep(d) \/ UpdateStep(d) \/ \E t \in Threads : OtherStep(d, t)

LEMMA NoClockIsClock == NoClock \in Clocks
BY DEF NoClock, Clocks

LEMMA AcceptsNothingOlder ==
  ASSUME NEW u, NEW s, u.clock \in Clocks, s.clock \in Clocks, Accepts(u, s)
  PROVE  ~After(s.clock, u.clock)
<1>1. CASE After(u.clock, s.clock)
  <2>1. SUFFICES ASSUME Dominates(s.clock, u.clock) PROVE s.clock = u.clock
    BY <1>1 DEF After
  <2>2. \A d \in Devices : s.clock[d] = u.clock[d]
    BY <1>1, <2>1 DEF After, Dominates, Clocks
  <2> QED BY <2>2 DEF Clocks
<1>2. CASE Concurrent(u.clock, s.clock)
  BY <1>2 DEF Concurrent, After
<1> QED BY <1>1, <1>2 DEF Accepts

(* A change is not before what it changes.                                  *)
LEMMA IncrementedIsLater ==
  ASSUME NEW c \in Clocks, NEW d \in Devices
  PROVE  Incremented(c, d) \in Clocks /\ ~After(c, Incremented(c, d))
  BY DEF Incremented, Clocks, After, Dominates

LEMMA NothingIsNotLater ==
  ASSUME NEW c \in Clocks
  PROVE  ~After(NoClock, c)
<1>1. SUFFICES ASSUME Dominates(NoClock, c) PROVE NoClock = c
  BY DEF After
<1>2. \A d \in Devices : c[d] = 0
  BY <1>1 DEF Dominates, NoClock, Clocks
<1> QED BY <1>2 DEF NoClock, Clocks

-----------------------------------------------------------------------------
(* What the parts of the actions do.                                        *)

LEMMA JobBecomes ==
  ASSUME TypeOK, NEW d \in Devices, NEW t \in Threads, NEW j \in Job, Becomes(d, t, j)
  PROVE  /\ job' \in [Devices -> [Threads -> Job]]
         /\ job'[d][t] = j
         /\ \A e \in Devices : \A s \in Threads : e # d \/ s # t => job'[e][s] = job[e][s]
         /\ \A e \in Devices \ {d} : job'[e] = job[e]
BY DEF Becomes, TypeOK

LEMMA JobInWork ==
  ASSUME TypeOK, NEW d \in Devices, NEW t \in Threads, job[d][t].at \in Steps
  PROVE  job[d][t] \in [at : Steps, name : Ids \union {0}, clock : Clocks, id : Ids]
<1>1. job[d][t] \in Job
  BY DEF TypeOK
<1> QED BY <1>1 DEF Job, Steps

LEMMA JobGoesOn ==
  ASSUME TypeOK, NEW d \in Devices, NEW t \in Threads, NEW at \in Steps,
         job[d][t].at \in Steps, GoesOn(d, t, at)
  PROVE  /\ job' \in [Devices -> [Threads -> Job]]
         /\ job'[d][t].at = at /\ job'[d][t].name = job[d][t].name
         /\ job'[d][t].clock = job[d][t].clock /\ job'[d][t].id = job[d][t].id
         /\ \A e \in Devices : \A s \in Threads : e # d \/ s # t => job'[e][s] = job[e][s]
         /\ \A e \in Devices \ {d} : job'[e] = job[e]
<1> DEFINE j == [job[d][t] EXCEPT !.at = at]
<1>1. j \in Job /\ j.at = at /\ j.name = job[d][t].name /\ j.clock = job[d][t].clock
      /\ j.id = job[d][t].id
  BY JobInWork DEF Job
<1>2. Becomes(d, t, j)
  BY DEF GoesOn, Becomes, TypeOK
<1> HIDE DEF j
<1> QED BY <1>1, <1>2, JobBecomes

LEMMA JobEnds ==
  ASSUME TypeOK, NEW d \in Devices, NEW t \in Threads, Ends(d, t)
  PROVE  /\ job' \in [Devices -> [Threads -> Job]]
         /\ job'[d][t].at = "idle"
         /\ \A e \in Devices : \A s \in Threads : e # d \/ s # t => job'[e][s] = job[e][s]
         /\ \A e \in Devices \ {d} : job'[e] = job[e]
<1>1. Idle \in Job /\ Idle.at = "idle"
  BY NoClockIsClock DEF Idle, Job, Steps
<1> QED BY <1>1, JobBecomes DEF Ends

(* The same for each of the two threads.                                    *)
LEMMA AppStep ==
  ASSUME TypeOK, NEW d \in Devices
  PROVE  /\ \A j \in Job : Becomes(d, "application", j) => App(d)' = j /\ Cmd(d)' = Cmd(d)
         /\ \A at \in Steps :
              App(d).at \in Steps /\ GoesOn(d, "application", at) =>
                /\ App(d)'.at = at /\ App(d)'.name = App(d).name
                /\ App(d)'.clock = App(d).clock /\ App(d)'.id = App(d).id
                /\ Cmd(d)' = Cmd(d)
         /\ Ends(d, "application") => App(d)'.at = "idle" /\ Cmd(d)' = Cmd(d)
<1>1. "application" \in Threads /\ "command" \in Threads /\ "application" # "command"
  BY DEF Threads
<1>2. ASSUME NEW j \in Job, Becomes(d, "application", j)
      PROVE  App(d)' = j /\ Cmd(d)' = Cmd(d)
  <2>1. job'[d]["application"] = j /\ job'[d]["command"] = job[d]["command"]
    BY <1>1, <1>2, JobBecomes
  <2> QED BY <2>1 DEF App, Cmd
<1>3. ASSUME NEW at \in Steps, App(d).at \in Steps, GoesOn(d, "application", at)
      PROVE  /\ App(d)'.at = at /\ App(d)'.name = App(d).name
             /\ App(d)'.clock = App(d).clock /\ App(d)'.id = App(d).id
             /\ Cmd(d)' = Cmd(d)
  <2>0. job[d]["application"].at \in Steps
    BY <1>3 DEF App
  <2>1. /\ job'[d]["application"].at = at
        /\ job'[d]["application"].name = job[d]["application"].name
        /\ job'[d]["application"].clock = job[d]["application"].clock
        /\ job'[d]["application"].id = job[d]["application"].id
        /\ job'[d]["command"] = job[d]["command"]
    BY <1>1, <1>3, <2>0, JobGoesOn
  <2> QED BY <2>1 DEF App, Cmd
<1>4. ASSUME Ends(d, "application") PROVE App(d)'.at = "idle" /\ Cmd(d)' = Cmd(d)
  <2>1. job'[d]["application"].at = "idle" /\ job'[d]["command"] = job[d]["command"]
    BY <1>1, <1>4, JobEnds
  <2> QED BY <2>1 DEF App, Cmd
<1> QED BY <1>2, <1>3, <1>4

LEMMA CmdStep ==
  ASSUME TypeOK, NEW d \in Devices
  PROVE  /\ \A j \in Job : Becomes(d, "command", j) => Cmd(d)' = j /\ App(d)' = App(d)
         /\ \A at \in Steps :
              Cmd(d).at \in Steps /\ GoesOn(d, "command", at) =>
                /\ Cmd(d)'.at = at /\ Cmd(d)'.name = Cmd(d).name
                /\ Cmd(d)'.clock = Cmd(d).clock /\ Cmd(d)'.id = Cmd(d).id
                /\ App(d)' = App(d)
         /\ Ends(d, "command") => Cmd(d)'.at = "idle" /\ App(d)' = App(d)
<1>1. "application" \in Threads /\ "command" \in Threads /\ "application" # "command"
  BY DEF Threads
<1>2. ASSUME NEW j \in Job, Becomes(d, "command", j)
      PROVE  Cmd(d)' = j /\ App(d)' = App(d)
  <2>1. job'[d]["command"] = j /\ job'[d]["application"] = job[d]["application"]
    BY <1>1, <1>2, JobBecomes
  <2> QED BY <2>1 DEF App, Cmd
<1>3. ASSUME NEW at \in Steps, Cmd(d).at \in Steps, GoesOn(d, "command", at)
      PROVE  /\ Cmd(d)'.at = at /\ Cmd(d)'.name = Cmd(d).name
             /\ Cmd(d)'.clock = Cmd(d).clock /\ Cmd(d)'.id = Cmd(d).id
             /\ App(d)' = App(d)
  <2>0. job[d]["command"].at \in Steps
    BY <1>3 DEF Cmd
  <2>1. /\ job'[d]["command"].at = at
        /\ job'[d]["command"].name = job[d]["command"].name
        /\ job'[d]["command"].clock = job[d]["command"].clock
        /\ job'[d]["command"].id = job[d]["command"].id
        /\ job'[d]["application"] = job[d]["application"]
    BY <1>1, <1>3, <2>0, JobGoesOn
  <2> QED BY <2>1 DEF App, Cmd
<1>4. ASSUME Ends(d, "command") PROVE Cmd(d)'.at = "idle" /\ App(d)' = App(d)
  <2>1. job'[d]["command"].at = "idle" /\ job'[d]["application"] = job[d]["application"]
    BY <1>1, <1>4, JobEnds
  <2> QED BY <2>1 DEF App, Cmd
<1> QED BY <1>2, <1>3, <1>4

LEMMA NameIsSet ==
  ASSUME TypeOK, NEW d \in Devices, NEW n \in Ids \union {0}, SetGroupName(d, n)
  PROVE  /\ local' \in [Devices -> Stored]
         /\ \A e \in Devices : local'[e].clock = local[e].clock /\ local'[e].id = local[e].id
         /\ \A e \in Devices \ {d} : local'[e] = local[e]
         /\ d \in group => local'[d].name = n
BY DEF SetGroupName, TypeOK, Stored

LEMMA ClockIsStored ==
  ASSUME TypeOK, NEW d \in Devices, NEW j, j.clock \in Clocks, j.id \in Ids \union {0},
         StoreClock(d, j)
  PROVE  /\ local' \in [Devices -> Stored]
         /\ local'[d].clock = j.clock /\ local'[d].id = j.id
         /\ local'[d].name = local[d].name
         /\ \A e \in Devices \ {d} : local'[e] = local[e]
BY DEF StoreClock, TypeOK, Stored

LEMMA JobType ==
  ASSUME TypeOK, NEW d \in Devices
  PROVE  /\ App(d) \in Job /\ Cmd(d) \in Job /\ \A t \in Threads : job[d][t] \in Job
         /\ App(d).at \in Steps => App(d).name \in Ids \union {0} /\ App(d).id \in Ids
         /\ Cmd(d).at \in Steps => Cmd(d).name \in Ids \union {0} /\ Cmd(d).id \in Ids
         /\ App(d).clock \in Clocks /\ Cmd(d).clock \in Clocks
         /\ local[d] \in Stored /\ local[d].clock \in Clocks
         /\ "application" \in Threads /\ "command" \in Threads
<1>1. "application" \in Threads /\ "command" \in Threads
  BY DEF Threads
<1>2. /\ App(d) \in Job /\ Cmd(d) \in Job /\ \A t \in Threads : job[d][t] \in Job
      /\ local[d] \in Stored /\ local[d].clock \in Clocks
  BY <1>1 DEF TypeOK, App, Cmd, Stored
<1>3. App(d).clock \in Clocks /\ Cmd(d).clock \in Clocks
  BY <1>2, NoClockIsClock DEF Job
<1> QED BY <1>1, <1>2, <1>3, JobInWork DEF App, Cmd

-----------------------------------------------------------------------------
LEMMA InitType == Init => TypeOK
  BY GroupAttributeAssumption, NoClockIsClock
  DEF Init, TypeOK, Nothing, Idle, Stored, Job, Steps

(* The types, but for the history.                                          *)
StoreType ==
  /\ group \subseteq Devices
  /\ local \in [Devices -> Stored]
  /\ job \in [Devices -> [Threads -> Job]]
  /\ sent \subseteq Update
  /\ got \in [Devices -> SUBSET Ids]
  /\ {changes, hellos, leaves} \subseteq Nat

LEMMA ChangeType ==
  ASSUME TypeOK, NEW d \in Devices, ChangeStep(d)
  PROVE  StoreType'
<1> USE GroupAttributeAssumption
<1>0. /\ local[d].clock \in Clocks /\ "application" \in Threads /\ App(d).clock \in Clocks
      /\ App(d).at \in Steps => App(d).name \in Ids \union {0} /\ App(d).id \in Ids
  BY JobType
<1>1. CASE Change(d)
  <2>1. PICK id \in UnusedIds :
          Becomes(d, "application", [at |-> "store clock", name |-> id,
                                     clock |-> Incremented(local[d].clock, d), id |-> id])
    BY <1>1 DEF Change
  <2>2. id \in Ids /\ Incremented(local[d].clock, d) \in Clocks
    BY <1>0, <2>1, IncrementedIsLater DEF UnusedIds
  <2>3. [at |-> "store clock", name |-> id, clock |-> Incremented(local[d].clock, d),
         id |-> id] \in Job
    BY <2>2 DEF Job, Steps
  <2>4. job' \in [Devices -> [Threads -> Job]]
    BY <1>0, <2>1, <2>3, JobBecomes
  <2>5. UNCHANGED <<group, local, sent, got, hellos, leaves>> /\ changes' = changes + 1
    BY <1>1 DEF Change
  <2> QED BY <2>4, <2>5 DEF TypeOK, StoreType
<1>2. CASE StoreChangedClock(d)
  <2>0. App(d).at \in Steps /\ App(d).at = job[d]["application"].at
    BY <1>2 DEF StoreChangedClock, App, Steps
  <2>1. local' \in [Devices -> Stored]
    BY <1>0, <1>2, <2>0, ClockIsStored DEF StoreChangedClock, App
  <2>2. job' \in [Devices -> [Threads -> Job]]
    BY <1>0, <1>2, <2>0, JobGoesOn DEF StoreChangedClock, Steps
  <2> QED BY <1>2, <2>1, <2>2 DEF StoreChangedClock, Unmoved, TypeOK, StoreType
<1>3. CASE SetChangedName(d)
  <2>0. App(d).at \in Steps /\ App(d).at = job[d]["application"].at
    BY <1>3 DEF SetChangedName, App, Steps
  <2>1. local' \in [Devices -> Stored]
    BY <1>0, <1>3, <2>0, NameIsSet DEF SetChangedName, App
  <2>2. job' \in [Devices -> [Threads -> Job]]
    BY <1>0, <1>3, <2>0, JobGoesOn DEF SetChangedName, Steps
  <2> QED BY <1>3, <2>1, <2>2 DEF SetChangedName, Unmoved, TypeOK, StoreType
<1>4. CASE SendChange(d)
  <2> DEFINE u == [name |-> App(d).name, clock |-> App(d).clock, id |-> App(d).id,
                   from |-> d, adds |-> FALSE]
  <2>0. App(d).at \in Steps
    BY <1>4 DEF SendChange, App, Steps
  <2>1. u \in Update
    BY <1>0, <2>0 DEF Update
  <2>2. job' \in [Devices -> [Threads -> Job]]
    BY <1>0, <1>4, JobEnds DEF SendChange
  <2>3. sent' \subseteq sent \union {u}
    BY <1>4 DEF SendChange, App
  <2> HIDE DEF u
  <2>4. sent' \subseteq Update
    BY <2>1, <2>3 DEF TypeOK
  <2> QED BY <1>4, <2>2, <2>4 DEF SendChange, TypeOK, StoreType
<1> QED BY <1>1, <1>2, <1>3, <1>4 DEF ChangeStep

LEMMA UpdateType ==
  ASSUME TypeOK, NEW d \in Devices, UpdateStep(d)
  PROVE  StoreType'
<1> USE GroupAttributeAssumption
<1>0. /\ local[d] \in Stored /\ "command" \in Threads /\ Cmd(d).clock \in Clocks
      /\ Cmd(d).at \in Steps => Cmd(d).name \in Ids \union {0} /\ Cmd(d).id \in Ids
  BY JobType
<1>f. ASSUME Finish(d), local' \in [Devices -> Stored], Cmd(d).at \in Steps PROVE StoreType'
  <2>1. job' \in [Devices -> [Threads -> Job]]
    BY <1>0, <1>f, JobEnds DEF Finish
  <2>2. got' \in [Devices -> SUBSET Ids]
    <3>1. got' = [got EXCEPT ![d] = @ \union {Cmd(d).id}]
      BY <1>f DEF Finish, Cmd
    <3> QED BY <1>0, <1>f, <3>1 DEF TypeOK
  <2> QED BY <1>f, <2>1, <2>2 DEF Finish, TypeOK, StoreType
<1>1. ASSUME NEW u \in sent, Receive(d, u) PROVE StoreType'
  <2>1. /\ u \in Update /\ group' \subseteq Devices
        /\ UNCHANGED <<sent, changes, hellos, leaves>>
    BY <1>1 DEF TypeOK, Receive
  <2>2. local' \in [Devices -> Stored]
    BY <1>1, <2>1 DEF Receive, TypeOK, Stored, Update
  <2>3. CASE d \in group'
    <3>1. [at |-> "compare", name |-> u.name, clock |-> u.clock, id |-> u.id] \in Job
      BY <2>1 DEF Update, Job, Steps
    <3>2. job' \in [Devices -> [Threads -> Job]]
      BY <1>0, <1>1, <2>3, <3>1, JobBecomes DEF Receive
    <3>3. got' = got
      BY <1>1, <2>3 DEF Receive
    <3> QED BY <2>1, <2>2, <3>2, <3>3 DEF TypeOK, StoreType
  <2>4. CASE d \notin group'
    <3>1. got' = [got EXCEPT ![d] = @ \union {u.id}] /\ job' = job
      BY <1>1, <2>4 DEF Receive
    <3>2. got' \in [Devices -> SUBSET Ids]
      BY <2>1, <3>1 DEF TypeOK, Update
    <3> QED BY <2>1, <2>2, <3>1, <3>2 DEF TypeOK, StoreType
  <2> QED BY <2>3, <2>4
<1>2. CASE Refuse(d)
  BY <1>f, <1>2 DEF Refuse, Cmd, Steps, TypeOK
<1>3. CASE Accept(d)
  <2>1. job' \in [Devices -> [Threads -> Job]]
    BY <1>0, <1>3, JobGoesOn DEF Accept, Steps
  <2> QED BY <1>3, <2>1 DEF Accept, Unmoved, TypeOK, StoreType
<1>4. CASE SetAcceptedName(d)
  <2>0. Cmd(d).at \in Steps /\ Cmd(d).at = job[d]["command"].at
    BY <1>4 DEF SetAcceptedName, Cmd, Steps
  <2>1. local' \in [Devices -> Stored]
    BY <1>0, <1>4, <2>0, NameIsSet DEF SetAcceptedName, Cmd
  <2>2. job' \in [Devices -> [Threads -> Job]]
    BY <1>0, <1>4, <2>0, JobGoesOn DEF SetAcceptedName, Steps
  <2> QED BY <1>4, <2>1, <2>2 DEF SetAcceptedName, Unmoved, TypeOK, StoreType
<1>5. CASE StoreAcceptedClock(d)
  <2>0. Cmd(d).at \in Steps
    BY <1>5 DEF StoreAcceptedClock, Cmd, Steps
  <2>1. local' \in [Devices -> Stored]
    BY <1>0, <1>5, <2>0, ClockIsStored DEF StoreAcceptedClock, Cmd
  <2> QED BY <1>f, <1>5, <2>0, <2>1 DEF StoreAcceptedClock
<1> QED BY <1>1, <1>2, <1>3, <1>4, <1>5 DEF UpdateStep

LEMMA OtherType ==
  ASSUME TypeOK, NEW d \in Devices, NEW t \in Threads, OtherStep(d, t)
  PROVE  StoreType'
<1> USE GroupAttributeAssumption
<1>0. local[d] \in Stored /\ local[d].clock \in Clocks /\ local[d].name \in Ids \union {0}
  BY JobType DEF Stored
<1>1. CASE ReadMetaData(d, t)
  <2>1. PICK id \in UnusedIds :
          Becomes(d, t, [at |-> "read clock", name |-> local[d].name, clock |-> NoClock,
                         id |-> id])
    BY <1>1 DEF ReadMetaData
  <2>2. [at |-> "read clock", name |-> local[d].name, clock |-> NoClock, id |-> id] \in Job
    BY <1>0, <2>1, NoClockIsClock DEF UnusedIds, Job, Steps
  <2>3. job' \in [Devices -> [Threads -> Job]]
    BY <2>1, <2>2, JobBecomes
  <2>4. UNCHANGED <<group, local, sent, got, changes, leaves>> /\ hellos' = hellos + 1
    BY <1>1 DEF ReadMetaData
  <2> QED BY <2>3, <2>4 DEF TypeOK, StoreType
<1>2. CASE SendMetaData(d, t)
  <2> DEFINE u == [name |-> job[d][t].name, clock |-> local[d].clock, id |-> job[d][t].id,
                   from |-> d, adds |-> TRUE]
  <2>1. u \in Update
    BY <1>0, <1>2, JobInWork DEF SendMetaData, Steps, Update
  <2>2. job' \in [Devices -> [Threads -> Job]]
    BY <1>2, JobEnds DEF SendMetaData
  <2>3. sent' = sent \union {u}
    BY <1>2 DEF SendMetaData
  <2> HIDE DEF u
  <2>4. sent' \subseteq Update
    BY <2>1, <2>3 DEF TypeOK
  <2>5. UNCHANGED <<group, local, got, changes, hellos, leaves>>
    BY <1>2 DEF SendMetaData
  <2>6. group' \subseteq Devices /\ local' \in [Devices -> Stored]
        /\ got' \in [Devices -> SUBSET Ids] /\ {changes', hellos', leaves'} \subseteq Nat
    BY <2>5 DEF TypeOK
  <2> QED BY <2>2, <2>4, <2>6 DEF StoreType
<1>3. CASE DeleteClocks(d, t)
  <2>1. [Idle EXCEPT !.at = "delete group"] \in Job
    BY DEF Idle, Job
  <2>2. job' \in [Devices -> [Threads -> Job]]
    BY <1>3, <2>1, JobBecomes DEF DeleteClocks
  <2>3. local' \in [Devices -> Stored]
    BY <1>3, ClockIsStored, NoClockIsClock DEF DeleteClocks, Nothing
  <2>4. UNCHANGED <<group, sent, got, changes, hellos>> /\ leaves' = leaves + 1
    BY <1>3 DEF DeleteClocks
  <2> QED BY <2>2, <2>3, <2>4 DEF TypeOK, StoreType
<1>4. CASE DeleteGroup(d, t)
  <2>1. job' \in [Devices -> [Threads -> Job]]
    BY <1>4, JobEnds DEF DeleteGroup
  <2>2. local' \in [Devices -> Stored]
    BY <1>4 DEF DeleteGroup, TypeOK, Stored
  <2> QED BY <1>4, <2>1, <2>2 DEF DeleteGroup, TypeOK, StoreType
<1> QED BY <1>1, <1>2, <1>3, <1>4 DEF OtherStep

LEMMA TypeStep == TypeOK /\ [Next]_vars => TypeOK'
<1> SUFFICES ASSUME TypeOK, [Next]_vars PROVE TypeOK'
  OBVIOUS
<1>1. ASSUME NEW d \in Devices, Step(d),
             overlapped' = IF Overlap(d)' THEN overlapped \union {d} ELSE overlapped
      PROVE  TypeOK'
  <2>1. StoreType'
    BY <1>1, ChangeType, UpdateType, OtherType DEF Step
  <2>2. overlapped' \subseteq Devices
    BY <1>1 DEF TypeOK
  <2> QED BY <2>1, <2>2 DEF StoreType, TypeOK
<1>2. CASE UNCHANGED vars
  BY <1>2 DEF vars, TypeOK
<1> QED BY <1>1, <1>2 DEF Next, Step

(* What devices store, send and work on are values, clocks and update ids.  *)
THEOREM TypeCorrect == Spec => []TypeOK
  BY InitType, TypeStep, PTL DEF Spec

-----------------------------------------------------------------------------
(* No device goes back.  What a thread is about to store on an orderly      *)
(* device is not before what the device has.                                *)

Accepting(d) == Cmd(d).at \in {"accept name", "accept clock"}

ClockInv ==
  \A d \in Orderly :
    /\ ~Overlap(d)
    /\ App(d).at = "store clock" => ~After(local[d].clock, App(d).clock)
    /\ Accepting(d) => ~After(local[d].clock, Cmd(d).clock)

LEMMA OrderlyStep ==
  ASSUME TypeOK, NEW d \in Devices,
         overlapped' = IF Overlap(d)' THEN overlapped \union {d} ELSE overlapped
  PROVE  \A e \in Orderly' : e \in Orderly /\ e \in Devices /\ (e = d => ~Overlap(d)')
BY DEF Orderly

(* A step of a device leaves the others alone.                              *)
LEMMA OthersKept ==
  ASSUME TypeOK, NEW d \in Devices, Step(d), NEW e \in Devices, e # d
  PROVE  local'[e] = local[e] /\ job'[e] = job[e] /\ got'[e] = got[e]
<1>0. \A t \in Threads : job[d][t] \in Job
  BY JobType
<1>1. ASSUME NEW t \in Threads, NEW j, Becomes(d, t, j) PROVE job'[e] = job[e]
  BY <1>1 DEF Becomes, TypeOK
<1>2. ASSUME NEW t \in Threads, NEW at, GoesOn(d, t, at) PROVE job'[e] = job[e]
  BY <1>2 DEF GoesOn, TypeOK
<1>3. ASSUME NEW n, SetGroupName(d, n) PROVE local'[e] = local[e]
  BY <1>3 DEF SetGroupName, TypeOK
<1>4. ASSUME NEW j, StoreClock(d, j) PROVE local'[e] = local[e]
  BY <1>4 DEF StoreClock, TypeOK
<1>5. "application" \in Threads /\ "command" \in Threads
  BY DEF Threads
<1>6. CASE ChangeStep(d)
  <2>1. CASE Change(d)
    BY <1>1, <1>5, <2>1 DEF Change
  <2>2. CASE StoreChangedClock(d)
    BY <1>2, <1>4, <1>5, <2>2 DEF StoreChangedClock, Unmoved
  <2>3. CASE SetChangedName(d)
    BY <1>2, <1>3, <1>5, <2>3 DEF SetChangedName, Unmoved
  <2>4. CASE SendChange(d)
    BY <1>1, <1>5, <2>4 DEF SendChange, Ends
  <2> QED BY <1>6, <2>1, <2>2, <2>3, <2>4 DEF ChangeStep
<1>7. CASE UpdateStep(d)
  <2>1. ASSUME Finish(d) PROVE job'[e] = job[e] /\ got'[e] = got[e]
    BY <1>1, <1>5, <2>1 DEF Finish, Ends, TypeOK
  <2>2. ASSUME NEW u \in sent, Receive(d, u)
        PROVE  local'[e] = local[e] /\ job'[e] = job[e] /\ got'[e] = got[e]
    <3>1. local'[e] = local[e]
      BY <2>2 DEF Receive, TypeOK
    <3>2. job'[e] = job[e] /\ got'[e] = got[e]
      BY <1>1, <1>5, <2>2 DEF Receive, TypeOK
    <3> QED BY <3>1, <3>2
  <2>3. CASE Refuse(d)
    BY <2>1, <2>3 DEF Refuse
  <2>4. CASE Accept(d)
    BY <1>2, <1>5, <2>4 DEF Accept, Unmoved
  <2>5. CASE SetAcceptedName(d)
    BY <1>2, <1>3, <1>5, <2>5 DEF SetAcceptedName, Unmoved
  <2>6. CASE StoreAcceptedClock(d)
    BY <1>4, <2>1, <2>6 DEF StoreAcceptedClock
  <2> QED BY <1>7, <2>2, <2>3, <2>4, <2>5, <2>6 DEF UpdateStep
<1>8. ASSUME NEW t \in Threads, OtherStep(d, t)
      PROVE  local'[e] = local[e] /\ job'[e] = job[e] /\ got'[e] = got[e]
  <2>1. CASE ReadMetaData(d, t)
    BY <1>1, <2>1 DEF ReadMetaData
  <2>2. CASE SendMetaData(d, t)
    BY <1>1, <2>2 DEF SendMetaData, Ends
  <2>3. CASE DeleteClocks(d, t)
    BY <1>1, <1>4, <2>3 DEF DeleteClocks
  <2>4. CASE DeleteGroup(d, t)
    BY <1>1, <2>4 DEF DeleteGroup, Ends, TypeOK
  <2> QED BY <1>8, <2>1, <2>2, <2>3, <2>4 DEF OtherStep
<1> QED BY <1>6, <1>7, <1>8 DEF Step

(* The threads of an orderly device when one of them takes a step.          *)
ClockOf(d) ==
  /\ App(d).at = "store clock" => ~After(local[d].clock, App(d).clock)
  /\ Accepting(d) => ~After(local[d].clock, Cmd(d).clock)

LEMMA ClockStep ==
  ASSUME TypeOK, NEW d \in Devices, Step(d), ~Overlap(d), ClockOf(d)
  PROVE  ClockOf(d)' /\ (leaves' = leaves => ~After(local[d].clock, local'[d].clock))
<1>0. /\ local[d] \in Stored /\ local[d].clock \in Clocks
      /\ "application" \in Threads /\ "command" \in Threads
      /\ App(d).clock \in Clocks /\ Cmd(d).clock \in Clocks
      /\ App(d).at \in Steps => App(d).name \in Ids \union {0} /\ App(d).id \in Ids
      /\ Cmd(d).at \in Steps => Cmd(d).name \in Ids \union {0} /\ Cmd(d).id \in Ids
  BY JobType
<1>r. \A c : ~After(c, c)
  BY DEF After
<1> DEFINE Goal == ClockOf(d)' /\ (leaves' = leaves => ~After(local[d].clock, local'[d].clock))
(* A step that stores no clock, and begins nothing that will.               *)
<1>k. ASSUME local'[d].clock = local[d].clock,
             App(d)'.at = "store clock" =>
               App(d).at = "store clock" /\ App(d)'.clock = App(d).clock,
             Accepting(d)' => Accepting(d) /\ Cmd(d)'.clock = Cmd(d).clock
      PROVE  Goal
  BY <1>k, <1>r DEF ClockOf
<1>1. CASE Change(d)
  <2>1. PICK id \in UnusedIds :
          Becomes(d, "application", [at |-> "store clock", name |-> id,
                                     clock |-> Incremented(local[d].clock, d), id |-> id])
    BY <1>1 DEF Change
  <2> DEFINE j == [at |-> "store clock", name |-> id,
                   clock |-> Incremented(local[d].clock, d), id |-> id]
  <2>2. j \in Job /\ j.clock = Incremented(local[d].clock, d)
    BY <1>0, <2>1, IncrementedIsLater DEF Job, Steps, UnusedIds
  <2>5. Becomes(d, "application", j)
    BY <2>1
  <2> HIDE DEF j
  <2>3. App(d)'.clock = Incremented(local[d].clock, d) /\ Cmd(d)' = Cmd(d)
    BY <2>2, <2>5, AppStep
  <2>4. local' = local
    BY <1>1 DEF Change
  <2> QED BY <1>0, <1>r, <2>3, <2>4, IncrementedIsLater DEF ClockOf, Accepting
<1>2. CASE StoreChangedClock(d)
  <2>0. App(d).at = "store clock" /\ App(d).at \in Steps
    BY <1>2 DEF StoreChangedClock, App, Steps
  <2>1. local'[d].clock = App(d).clock
    BY <1>0, <1>2, <2>0, ClockIsStored DEF StoreChangedClock, App
  <2>2. App(d)'.at = "set name" /\ Cmd(d)' = Cmd(d)
    BY <1>2, <2>0, AppStep DEF StoreChangedClock, Steps
  <2>3. ~Accepting(d)'
    BY <2>0, <2>2 DEF Overlap, Accepting, App, Cmd
  <2> QED BY <2>0, <2>1, <2>2, <2>3 DEF ClockOf
<1>3. CASE SetChangedName(d)
  <2>0. App(d).at \in Steps
    BY <1>3 DEF SetChangedName, App, Steps
  <2>1. local'[d].clock = local[d].clock
    BY <1>0, <1>3, <2>0, NameIsSet DEF SetChangedName, App
  <2>2. App(d)'.at = "send" /\ Cmd(d)' = Cmd(d)
    BY <1>3, <2>0, AppStep DEF SetChangedName, Steps
  <2> QED BY <1>k, <2>1, <2>2 DEF Accepting
<1>4. CASE SendChange(d)
  <2>1. App(d)'.at = "idle" /\ Cmd(d)' = Cmd(d)
    BY <1>4, AppStep DEF SendChange
  <2>2. local' = local
    BY <1>4 DEF SendChange
  <2> QED BY <1>k, <2>1, <2>2 DEF Accepting
<1>5. ASSUME NEW u \in sent, Receive(d, u) PROVE Goal
  <2>1. local'[d].clock = local[d].clock
    BY <1>0, <1>5 DEF Receive, TypeOK, Stored
  <2>2. App(d)' = App(d) /\ (Cmd(d)' = Cmd(d) \/ Cmd(d)'.at = "compare")
    <3>1. [at |-> "compare", name |-> u.name, clock |-> u.clock, id |-> u.id] \in Job
      BY DEF TypeOK, Update, Job, Steps
    <3>2. CASE d \in group'
      BY <1>5, <3>1, <3>2, CmdStep DEF Receive
    <3>3. CASE d \notin group'
      BY <1>5, <3>3 DEF Receive, App, Cmd
    <3> QED BY <3>2, <3>3
  <2> QED BY <1>k, <2>1, <2>2 DEF Accepting
<1>6. CASE Refuse(d)
  <2>1. App(d)' = App(d) /\ Cmd(d)'.at = "idle"
    BY <1>6, CmdStep DEF Refuse, Finish
  <2>2. local' = local
    BY <1>6 DEF Refuse
  <2> QED BY <1>k, <2>1, <2>2 DEF Accepting
<1>7. CASE Accept(d)
  <2>0. Cmd(d).at \in Steps
    BY <1>7 DEF Accept, Cmd, Steps
  <2>1. App(d)' = App(d) /\ Cmd(d)'.clock = Cmd(d).clock
    BY <1>7, <2>0, CmdStep DEF Accept, Steps
  <2>2. local' = local
    BY <1>7 DEF Accept
  <2>3. ~After(local[d].clock, Cmd(d).clock)
    BY <1>0, <1>7, AcceptsNothingOlder DEF Accept, Cmd
  <2> QED BY <1>r, <2>1, <2>2, <2>3 DEF ClockOf
<1>8. CASE SetAcceptedName(d)
  <2>0. Cmd(d).at \in Steps /\ Accepting(d)
    BY <1>8 DEF SetAcceptedName, Accepting, Cmd, Steps
  <2>1. local'[d].clock = local[d].clock
    BY <1>0, <1>8, <2>0, NameIsSet DEF SetAcceptedName, Cmd
  <2>2. App(d)' = App(d) /\ Cmd(d)'.clock = Cmd(d).clock
    BY <1>8, <2>0, CmdStep DEF SetAcceptedName, Steps
  <2> QED BY <1>k, <2>0, <2>1, <2>2
<1>9. CASE StoreAcceptedClock(d)
  <2>0. Cmd(d).at \in Steps /\ Accepting(d) /\ Cmd(d).at = "accept clock"
    BY <1>9 DEF StoreAcceptedClock, Accepting, Cmd, Steps
  <2>1. local'[d].clock = Cmd(d).clock
    BY <1>0, <1>9, <2>0, ClockIsStored DEF StoreAcceptedClock, Cmd
  <2>2. App(d)' = App(d) /\ Cmd(d)'.at = "idle"
    BY <1>9, CmdStep DEF StoreAcceptedClock, Finish
  <2>3. App(d).at # "store clock"
    BY <2>0 DEF Overlap, Accepting, App, Cmd
  <2> QED BY <2>0, <2>1, <2>2, <2>3 DEF ClockOf, Accepting
<1>10. ASSUME NEW t \in Threads, OtherStep(d, t) PROVE Goal
  <2>0. t = "application" \/ t = "command"
    BY DEF Threads
  <2>1. CASE ReadMetaData(d, t)
    <3>1. PICK id \in UnusedIds :
            Becomes(d, t, [at |-> "read clock", name |-> local[d].name, clock |-> NoClock,
                           id |-> id])
      BY <2>1 DEF ReadMetaData
    <3> DEFINE j == [at |-> "read clock", name |-> local[d].name, clock |-> NoClock, id |-> id]
    <3>2. j \in Job /\ j.at = "read clock"
      BY <1>0, <3>1, NoClockIsClock DEF UnusedIds, Job, Steps, Stored
    <3>3. Becomes(d, t, j)
      BY <3>1
    <3> HIDE DEF j
    <3>4. \/ App(d)' = j /\ Cmd(d)' = Cmd(d)
          \/ Cmd(d)' = j /\ App(d)' = App(d)
      BY <2>0, <3>2, <3>3, AppStep, CmdStep
    <3>5. local' = local
      BY <2>1 DEF ReadMetaData
    <3> QED BY <1>k, <3>2, <3>4, <3>5 DEF Accepting
  <2>2. CASE SendMetaData(d, t)
    <3>1. \/ App(d)'.at = "idle" /\ Cmd(d)' = Cmd(d)
          \/ Cmd(d)'.at = "idle" /\ App(d)' = App(d)
      BY <2>0, <2>2, AppStep, CmdStep DEF SendMetaData
    <3>2. local' = local
      BY <2>2 DEF SendMetaData
    <3> QED BY <1>k, <3>1, <3>2 DEF Accepting
  <2>3. CASE DeleteClocks(d, t)
    <3> DEFINE j == [Idle EXCEPT !.at = "delete group"]
    <3>1. j \in Job /\ j.at = "delete group"
      BY DEF Idle, Job
    <3>2. Becomes(d, t, j)
      BY <2>3 DEF DeleteClocks
    <3> HIDE DEF j
    <3>3. \/ App(d)' = j /\ Cmd(d)' = Cmd(d)
          \/ Cmd(d)' = j /\ App(d)' = App(d)
      BY <2>0, <3>1, <3>2, AppStep, CmdStep
    <3>4. local'[d].clock = NoClock
      <4>1. Nothing.clock = NoClock /\ Nothing.id = 0
        BY DEF Nothing
      <4> QED BY <2>3, <4>1, ClockIsStored, NoClockIsClock DEF DeleteClocks
    <3>5. leaves' # leaves
      <4>1. leaves \in Nat /\ leaves' = leaves + 1
        BY <2>3 DEF DeleteClocks, TypeOK
      <4> QED BY <4>1
    <3> QED BY <1>0, <3>1, <3>3, <3>4, <3>5, NothingIsNotLater DEF ClockOf, Accepting
  <2>4. CASE DeleteGroup(d, t)
    <3>1. \/ App(d)'.at = "idle" /\ Cmd(d)' = Cmd(d)
          \/ Cmd(d)'.at = "idle" /\ App(d)' = App(d)
      BY <2>0, <2>4, AppStep, CmdStep DEF DeleteGroup
    <3>2. local'[d].clock = local[d].clock
      BY <1>0, <2>4 DEF DeleteGroup, TypeOK, Stored
    <3> QED BY <1>k, <3>1, <3>2 DEF Accepting
  <2> QED BY <1>10, <2>1, <2>2, <2>3, <2>4 DEF OtherStep
<1> QED BY <1>1, <1>2, <1>3, <1>4, <1>5, <1>6, <1>7, <1>8, <1>9, <1>10
        DEF Step, ChangeStep, UpdateStep

LEMMA InitClock == Init => ClockInv
<1>1. ASSUME Init PROVE ClockInv
  <2>1. ASSUME NEW d \in Orderly PROVE App(d).at = "idle" /\ Cmd(d).at = "idle"
    BY <1>1 DEF Init, Orderly, App, Cmd, Idle, Threads
  <2> QED BY <2>1 DEF ClockInv, Overlap, Accepting, App, Cmd
<1> QED BY <1>1

LEMMA ClockInvStep ==
  TypeOK /\ ClockInv /\ [Next]_vars
    => /\ ClockInv'
       /\ [\A d \in Orderly : leaves' = leaves => ~After(local[d].clock, local'[d].clock)]_vars
<1> SUFFICES ASSUME TypeOK, ClockInv, [Next]_vars
             PROVE  /\ ClockInv'
                    /\ [\A d \in Orderly : leaves' = leaves
                          => ~After(local[d].clock, local'[d].clock)]_vars
  OBVIOUS
<1>1. ASSUME NEW d \in Devices, Step(d),
             overlapped' = IF Overlap(d)' THEN overlapped \union {d} ELSE overlapped
      PROVE  /\ ClockInv'
             /\ \A e \in Orderly : leaves' = leaves => ~After(local[e].clock, local'[e].clock)
  <2>1. ASSUME NEW e \in Orderly, e # d
        PROVE  /\ ~Overlap(e)' /\ ClockOf(e)'
               /\ ~After(local[e].clock, local'[e].clock)
    <3>1. local'[e] = local[e] /\ job'[e] = job[e]
      BY <1>1, <2>1, OthersKept DEF Orderly
    <3>2. ~Overlap(e) /\ ClockOf(e)
      BY <2>1 DEF ClockInv, ClockOf
    <3> QED BY <3>1, <3>2 DEF Overlap, ClockOf, Accepting, App, Cmd, After
  <2>2. ASSUME d \in Orderly
        PROVE  ClockOf(d)' /\ (leaves' = leaves => ~After(local[d].clock, local'[d].clock))
    BY <1>1, <2>2, ClockStep DEF ClockInv, ClockOf
  <2>3. ClockInv'
    <3>1. ASSUME NEW e \in Orderly' PROVE ~Overlap(e)' /\ ClockOf(e)'
      <4>1. e \in Orderly /\ (e = d => ~Overlap(d)')
        BY <1>1, OrderlyStep
      <4>2. CASE e = d
        BY <2>2, <4>1, <4>2
      <4>3. CASE e # d
        BY <2>1, <4>1, <4>3
      <4> QED BY <4>2, <4>3
    <3> QED BY <3>1 DEF ClockInv, ClockOf
  <2> QED BY <2>1, <2>2, <2>3
<1>2. CASE UNCHANGED vars
  BY <1>2 DEF vars, ClockInv, Orderly, Overlap, Accepting, App, Cmd
<1> QED BY <1>1, <1>2 DEF Next, Step

LEMMA ClocksAlways == Spec => [](TypeOK /\ ClockInv)
  BY InitType, TypeStep, InitClock, ClockInvStep, PTL DEF Spec

(* No orderly device goes back to an older value, in whatever order changes *)
(* arrive, unless it leaves.                                                *)
THEOREM NoDeviceGoesBack == Spec => NeverBack
  BY ClocksAlways, ClockInvStep, PTL DEF Spec, NeverBack

-----------------------------------------------------------------------------
(* The sum of a clock.  The library defines it by a recursion over the      *)
(* subsets of its domain; what holds for all of them follows from a         *)
(* smallest subset for which it would not hold.                             *)

(* A set of numbers with 0, and with n + 1 for each n in it, has them all. *)
LEMMA AllNumbers ==
  ASSUME NEW T \in SUBSET Nat, 0 \in T, \A n \in T : n + 1 \in T
  PROVE  T = Nat
<1> SUFFICES ASSUME Nat \ T # {} PROVE FALSE
  OBVIOUS
<1>1. IsWellFoundedOn(OpToRel(<, Nat), Nat)
  BY NatLessThanWellFounded
<1>2. PICK n \in Nat \ T : \A m \in Nat \ T : <<m, n>> \notin OpToRel(<, Nat)
  BY <1>1, WFMin
<1>3. n # 0 /\ n - 1 \in Nat /\ n - 1 < n
  OBVIOUS
<1>4. <<n - 1, n>> \in OpToRel(<, Nat)
  BY <1>3 DEF OpToRel
<1>5. n - 1 \in T
  BY <1>2, <1>3, <1>4
<1> QED BY <1>3, <1>5

(* What holds of a set when it holds of its proper subsets holds of all    *)
(* subsets of a finite set.                                                *)
LEMMA AllSubsets ==
  ASSUME NEW S, IsFiniteSet(S), NEW T \in SUBSET SUBSET S,
         \A s \in SUBSET S : (\A r \in SUBSET s : r # s => r \in T) => s \in T
  PROVE  T = SUBSET S
<1> SUFFICES ASSUME (SUBSET S) \ T # {} PROVE FALSE
  OBVIOUS
<1> DEFINE U == (SUBSET S) \ T
<1>1. IsWellFoundedOn(StrictSubsetOrdering(S), SUBSET S)
  <2>1. FiniteSubsetsOf(S) = SUBSET S
    BY FS_FiniteSubsetsOfFinite
  <2>2. IsWellFoundedOn(StrictSubsetOrdering(S), FiniteSubsetsOf(S))
    BY FS_StrictSubsetOrderingWellFounded
  <2> QED BY <2>1, <2>2
<1>2. PICK s \in U : \A r \in U : <<r, s>> \notin StrictSubsetOrdering(S)
  <2>1. U \subseteq SUBSET S /\ U # {}
    OBVIOUS
  <2>2. \E s \in U : \A r \in U : ~(<<r, s>> \in StrictSubsetOrdering(S))
    <3> HIDE DEF U
    <3> QED BY ONLY <1>1, <2>1, WFMin, Zenon
  <2> QED BY <2>2
<1>3. ASSUME NEW r \in SUBSET s, r # s PROVE r \in T
  <2>1. <<r, s>> \in StrictSubsetOrdering(S)
    BY <1>3 DEF StrictSubsetOrdering
  <2> QED BY <1>2, <2>1
<1> QED BY <1>2, <1>3

Some(s) == CHOOSE x \in s : TRUE

(* g has the partial sums of clock c.                                      *)
SumsAt(c, g, s) == g[s] = IF s = {} THEN 0 ELSE c[Some(s)] + g[s \ {Some(s)}]
Sums(c) ==
  CHOOSE g : g = [s \in SUBSET Devices |->
                    IF s = {} THEN 0 ELSE c[Some(s)] + g[s \ {Some(s)}]]

LEMMA SumIsSums ==
  ASSUME NEW c \in Clocks
  PROVE  SumOfValues(c) = Sums(c)[Devices]
<1>1. DOMAIN c = Devices
  BY DEF Clocks
<1>2. SumOfValues(c) = MapThenFoldSet(+, 0, LAMBDA i : c[i], LAMBDA s : CHOOSE x \in s : TRUE, Devices)
  BY <1>1 DEF SumOfValues, SumFunction, SumFunctionOnSet, FoldFunctionOnSet
<1> QED BY <1>2 DEF MapThenFoldSet, Sums, Some

(* The recursion defines a function, whose values are numbers.             *)
LEMMA SumsExist ==
  ASSUME NEW c \in Clocks
  PROVE  \E g : g = [s \in SUBSET Devices |->
                       IF s = {} THEN 0 ELSE c[Some(s)] + g[s \ {Some(s)}]]
<1> DEFINE Fits(g, n) == \A s \in SUBSET Devices : Cardinality(s) < n => SumsAt(c, g, s)
           T == {n \in Nat : \E g \in [SUBSET Devices -> Nat] : Fits(g, n)}
<1>0. \A s \in SUBSET Devices : IsFiniteSet(s) /\ Cardinality(s) \in Nat
  BY GroupAttributeAssumption, FS_Subset, FS_CardinalityType
<1>1. 0 \in T
  <2>1. [s \in SUBSET Devices |-> 0] \in [SUBSET Devices -> Nat]
    OBVIOUS
  <2>2. Fits([s \in SUBSET Devices |-> 0], 0)
    BY <1>0
  <2> QED BY <2>1, <2>2
<1>2. ASSUME NEW n \in T PROVE n + 1 \in T
  <2>1. PICK g \in [SUBSET Devices -> Nat] : Fits(g, n)
    BY <1>2
  <2> DEFINE h == [s \in SUBSET Devices |->
                     IF s = {} THEN 0 ELSE c[Some(s)] + g[s \ {Some(s)}]]
  <2>2. \A s \in SUBSET Devices : s # {} => Some(s) \in s /\ s \ {Some(s)} \in SUBSET Devices
    BY DEF Some
  <2>3. h \in [SUBSET Devices -> Nat]
    BY <2>2 DEF Clocks
  <2>4. ASSUME NEW s \in SUBSET Devices, Cardinality(s) < n + 1 PROVE SumsAt(c, h, s)
    <3>1. CASE s = {}
      BY <3>1 DEF SumsAt
    <3>2. CASE s # {}
      <4> DEFINE r == s \ {Some(s)}
      <4>1. r \in SUBSET Devices /\ Cardinality(r) < n
        BY <1>0, <2>2, <2>4, <3>2, FS_RemoveElement
      <4>2. h[r] = g[r]
        BY <2>1, <4>1 DEF SumsAt
      <4>3. h[s] = c[Some(s)] + g[r]
        BY <3>2
      <4> QED BY <3>2, <4>2, <4>3 DEF SumsAt
    <3> QED BY <3>1, <3>2
  <2> HIDE DEF h
  <2>5. Fits(h, n + 1)
    BY <2>4
  <2>6. n + 1 \in Nat
    BY <1>2
  <2> QED BY <2>3, <2>5, <2>6
<1>3. T = Nat
  <2> HIDE DEF T
  <2>1. T \in SUBSET Nat
    BY DEF T
  <2> QED BY <1>1, <1>2, <2>1, AllNumbers
<1>4. Cardinality(Devices) + 1 \in T
  <2>1. Cardinality(Devices) \in Nat
    BY <1>0
  <2> HIDE DEF T
  <2> QED BY <1>3, <2>1
<1>5. PICK g \in [SUBSET Devices -> Nat] : Fits(g, Cardinality(Devices) + 1)
  BY <1>4
<1>6. ASSUME NEW s \in SUBSET Devices PROVE SumsAt(c, g, s)
  <2>1. Cardinality(s) <= Cardinality(Devices)
    BY GroupAttributeAssumption, FS_Subset
  <2>2. Cardinality(s) < Cardinality(Devices) + 1
    BY <1>0, <2>1
  <2> QED BY <1>5, <2>2
<1>7. g = [s \in SUBSET Devices |-> g[s]]
  OBVIOUS
<1>8. g = [s \in SUBSET Devices |->
             IF s = {} THEN 0 ELSE c[Some(s)] + g[s \ {Some(s)}]]
  BY <1>6, <1>7 DEF SumsAt
<1> QED BY <1>8

LEMMA SumsValue ==
  ASSUME NEW c \in Clocks, NEW s \in SUBSET Devices
  PROVE  SumsAt(c, Sums(c), s)
<1>1. Sums(c) = [r \in SUBSET Devices |->
                   IF r = {} THEN 0 ELSE c[Some(r)] + Sums(c)[r \ {Some(r)}]]
  BY SumsExist DEF Sums
<1> HIDE DEF Sums
<1> QED BY <1>1 DEF SumsAt

LEMMA SomeIn ==
  ASSUME NEW s, s # {}
  PROVE  Some(s) \in s
BY DEF Some

LEMMA SumsType ==
  ASSUME NEW c \in Clocks, NEW s \in SUBSET Devices
  PROVE  Sums(c)[s] \in Nat
<1> DEFINE T == {r \in SUBSET Devices : Sums(c)[r] \in Nat}
<1>1. ASSUME NEW r \in SUBSET Devices, \A q \in SUBSET r : q # r => q \in T PROVE r \in T
  <2>0. SumsAt(c, Sums(c), r)
    BY SumsValue
  <2>1. CASE r = {}
    BY <2>0, <2>1 DEF SumsAt
  <2>2. CASE r # {}
    <3>1. Some(r) \in r
      BY <2>2, SomeIn
    <3>2. r \ {Some(r)} \in T
      BY <1>1, <3>1
    <3>3. c[Some(r)] \in Nat
      BY <3>1 DEF Clocks
    <3> QED BY <2>0, <2>2, <3>2, <3>3 DEF SumsAt
  <2> QED BY <2>1, <2>2
<1> HIDE DEF T
<1>2. T \in SUBSET SUBSET Devices
  BY DEF T
<1>3. T = SUBSET Devices
  BY <1>1, <1>2, AllSubsets, GroupAttributeAssumption
<1> QED BY <1>3 DEF T

LEMMA SumsGrow ==
  ASSUME NEW c \in Clocks, NEW e \in Clocks, Dominates(c, e), NEW s \in SUBSET Devices
  PROVE  /\ Sums(c)[s] >= Sums(e)[s]
         /\ (\E x \in s : c[x] > e[x]) => Sums(c)[s] > Sums(e)[s]
<1> DEFINE Grows(r) == /\ Sums(c)[r] >= Sums(e)[r]
                       /\ (\E x \in r : c[x] > e[x]) => Sums(c)[r] > Sums(e)[r]
           T == {r \in SUBSET Devices : Grows(r)}
<1>1. ASSUME NEW r \in SUBSET Devices, \A q \in SUBSET r : q # r => q \in T PROVE r \in T
  <2>0. SumsAt(c, Sums(c), r) /\ SumsAt(e, Sums(e), r)
    BY SumsValue
  <2>1. CASE r = {}
    BY <2>0, <2>1 DEF SumsAt
  <2>2. CASE r # {}
    <3> DEFINE x == Some(r)
               q == r \ {x}
    <3>1. x \in r
      BY <2>2, SomeIn
    <3>2. Grows(q)
      BY <1>1, <3>1
    <3>3. c[x] \in Nat /\ e[x] \in Nat /\ c[x] >= e[x]
      BY <3>1 DEF Clocks, Dominates
    <3>4. Sums(c)[q] \in Nat /\ Sums(e)[q] \in Nat
      BY SumsType
    <3>5. Sums(c)[r] = c[x] + Sums(c)[q] /\ Sums(e)[r] = e[x] + Sums(e)[q]
      BY <2>0, <2>2 DEF SumsAt
    <3>6. (\E y \in r : c[y] > e[y]) => c[x] > e[x] \/ \E y \in q : c[y] > e[y]
      OBVIOUS
    <3> HIDE DEF q, x
    <3> QED BY <3>2, <3>3, <3>4, <3>5, <3>6
  <2> QED BY <2>1, <2>2
<1> HIDE DEF T
<1>2. T \in SUBSET SUBSET Devices
  BY DEF T
<1>3. T = SUBSET Devices
  BY <1>1, <1>2, AllSubsets, GroupAttributeAssumption
<1> QED BY <1>3 DEF T

(* A clock that is after another one has the greater sum.                  *)
LEMMA SumGrows ==
  ASSUME NEW c \in Clocks, NEW e \in Clocks
  PROVE  /\ SumOfValues(c) \in Nat
         /\ After(c, e) => SumOfValues(c) > SumOfValues(e)
<1>1. SumOfValues(c) \in Nat
  BY SumIsSums, SumsType
<1>2. ASSUME After(c, e) PROVE SumOfValues(c) > SumOfValues(e)
  <2>1. \E x \in Devices : c[x] # e[x]
    BY <1>2 DEF After, Clocks
  <2>2. \E x \in Devices : c[x] > e[x]
    BY <1>2, <2>1 DEF After, Dominates, Clocks
  <2>3. Dominates(c, e)
    BY <1>2 DEF After
  <2> QED BY <2>2, <2>3, SumsGrow, SumIsSums
<1> QED BY <1>1, <1>2

-----------------------------------------------------------------------------
(* The invariant as long as there is nothing but changes.  An orderly device *)
(* shows a change; no change that it stored or received has a greater sum    *)
(* than what it shows, and of those with the same sum it shows the one with  *)
(* the greatest id, unless two changes carry the same clock.  While a thread *)
(* is at work, what it has in hand goes with what is stored.                 *)

Carries(v, u) == v.clock = u.clock /\ v.id = u.id

Knows(d, u) == u.from = d \/ u.id \in got[d]

(* A change that is not sent yet, and one whose clock is stored already.    *)
Pending(d) == App(d).at \in {"store clock", "set name", "send"}
Stamped(d) == App(d).at \in {"set name", "send"}
Comparing(d) == Cmd(d).at = "compare" \/ Accepting(d)

SentInv ==
  /\ group = Devices
  /\ \A u \in sent : ~u.adds /\ u.name = u.id /\ After(u.clock, NoClock)
  /\ \A u, v \in sent : u.id = v.id => u = v
  /\ \A d \in Devices : got[d] \subseteq {u.id : u \in sent}

PendingOf(d) ==
  /\ App(d).name = App(d).id
  /\ App(d).clock \in Clocks /\ After(App(d).clock, NoClock)
  /\ \A u \in sent : u.id # App(d).id

TakenOf(d) ==
  \E u \in sent : u.from # d /\ u.id \notin got[d] /\ Cmd(d).name = u.name /\ Carries(Cmd(d), u)

WorkInv ==
  /\ \A d \in Devices :
       /\ App(d).at \in {"idle", "store clock", "set name", "send"}
       /\ Cmd(d).at \in {"idle", "compare", "accept name", "accept clock"}
       /\ Pending(d) => PendingOf(d)
       /\ Comparing(d) => TakenOf(d)
  /\ \A d, e \in Devices : Pending(d) /\ Pending(e) /\ App(d).id = App(e).id => d = e

(* No two changes carry the same clock, those not yet sent included.        *)
Marks == {<<u.clock, u.id>> : u \in sent}
           \union {<<App(d).clock, App(d).id>> : d \in {e \in Devices : Pending(e)}}
MarksDiffer == \A m, n \in Marks : m[1] = n[1] => m[2] = n[2]

Bounds(v, u, differ) ==
  /\ SumOfValues(v.clock) >= SumOfValues(u.clock)
  /\ differ /\ SumOfValues(v.clock) = SumOfValues(u.clock) => v.id >= u.id

ShowsOf(d) ==
  /\ \/ Carries(local[d], Nothing)
     \/ \E u \in sent : Carries(local[d], u)
     \/ Stamped(d) /\ Carries(local[d], App(d))
  /\ App(d).at # "set name" /\ Cmd(d).at # "accept clock" => local[d].name = local[d].id
  /\ App(d).at = "store clock" => App(d).clock = Incremented(local[d].clock, d)
  /\ App(d).at = "set name" => Carries(local[d], App(d))
  /\ Accepting(d) => Accepts(Cmd(d), local[d])
  /\ Cmd(d).at = "accept clock" => local[d].name = Cmd(d).id

BoundsOf(d) ==
  /\ \A u \in sent : Knows(d, u) => Bounds(local[d], u, MarksDiffer)
  /\ Stamped(d) => Bounds(local[d], App(d), MarksDiffer)

OrderlyInv == \A d \in Orderly : ~Overlap(d) /\ ShowsOf(d) /\ BoundsOf(d)

ChangesInv == OnlyChanges => SentInv /\ WorkInv /\ OrderlyInv

LEMMA InitChanges == Init => ChangesInv
<1> SUFFICES ASSUME Init PROVE SentInv /\ WorkInv /\ OrderlyInv
  BY DEF ChangesInv
<1>1. \A d \in Devices : App(d).at = "idle" /\ Cmd(d).at = "idle" /\ local[d] = Nothing
  BY DEF Init, App, Cmd, Idle, Threads
<1>2. SentInv
  BY DEF Init, SentInv
<1>3. WorkInv
  BY <1>1 DEF WorkInv, Pending, Comparing, Accepting
<1>4. OrderlyInv
  <2>1. Nothing.name = Nothing.id
    BY DEF Nothing
  <2>2. ASSUME NEW d \in Orderly PROVE ~Overlap(d) /\ ShowsOf(d) /\ BoundsOf(d)
    <3>1. App(d).at = "idle" /\ Cmd(d).at = "idle" /\ local[d] = Nothing
      BY <1>1 DEF Orderly
    <3>2. sent = {}
      BY DEF Init
    <3> QED BY <2>1, <3>1, <3>2 DEF Overlap, ShowsOf, BoundsOf, Stamped, Accepting, Carries,
                                   App, Cmd
  <2> QED BY <2>2 DEF OrderlyInv
<1> QED BY <1>2, <1>3, <1>4

LEMMA IncrementedAfter ==
  ASSUME NEW c \in Clocks, NEW d \in Devices
  PROVE  After(Incremented(c, d), c) /\ After(Incremented(c, d), NoClock)
<1> DEFINE e == Incremented(c, d)
<1>1. e \in Clocks /\ e[d] = c[d] + 1 /\ \A x \in Devices \ {d} : e[x] = c[x]
  BY DEF Incremented, Clocks
<1>2. c[d] \in Nat /\ \A x \in Devices : c[x] \in Nat /\ NoClock[x] = 0
  BY DEF Clocks, NoClock
<1> HIDE DEF e
<1>3. Dominates(e, c) /\ Dominates(e, NoClock)
  BY <1>1, <1>2 DEF Dominates
<1>4. e[d] # c[d] /\ e[d] # NoClock[d]
  BY <1>1, <1>2
<1> QED BY <1>3, <1>4 DEF After, e

(* What a device accepts bounds all that was bounded before.               *)
LEMMA AcceptedBounds ==
  ASSUME NEW u, NEW s, NEW v, NEW w, NEW differ,
         u.clock \in Clocks, s.clock \in Clocks, v.clock \in Clocks, w.clock \in Clocks,
         u.id \in Int, s.id \in Int, v.id \in Int, w.id \in Int,
         Accepts(u, s), Bounds(s, v, differ), Carries(w, u)
  PROVE  Bounds(w, v, differ)
<1>1. /\ SumOfValues(u.clock) \in Nat
      /\ SumOfValues(s.clock) \in Nat
      /\ SumOfValues(v.clock) \in Nat
  BY SumGrows
<1>2. \/ SumOfValues(u.clock) > SumOfValues(s.clock)
      \/ SumOfValues(u.clock) = SumOfValues(s.clock) /\ u.id > s.id
  BY SumGrows DEF Accepts, ResolveConflict
<1>3. w.clock = u.clock /\ w.id = u.id
  BY DEF Carries
<1> HIDE DEF SumOfValues
<1> QED BY <1>1, <1>2, <1>3 DEF Bounds

(* What a device does not accept is bounded by what it shows.              *)
LEMMA RefusedIsBounded ==
  ASSUME NEW u, NEW s, NEW differ, u.clock \in Clocks, s.clock \in Clocks,
         u.id \in Int, s.id \in Int, ~Accepts(u, s),
         differ /\ u.clock = s.clock => s.id = u.id
  PROVE  Bounds(s, u, differ)
<1>3. SumOfValues(u.clock) \in Nat /\ SumOfValues(s.clock) \in Nat
  BY SumGrows
<1>4. CASE u.clock = s.clock
  BY <1>3, <1>4 DEF Bounds
<1>5. CASE Concurrent(u.clock, s.clock)
  <2>1. ~ResolveConflict(u, s)
    BY <1>5 DEF Accepts
  <2> QED BY <2>1, <1>3 DEF Bounds, ResolveConflict
<1>6. CASE u.clock # s.clock /\ ~Concurrent(u.clock, s.clock)
  <2>1. After(s.clock, u.clock)
    BY <1>6 DEF Accepts, Concurrent, After
  <2>2. SumOfValues(s.clock) > SumOfValues(u.clock)
    BY <2>1, SumGrows
  <2> QED BY <1>3, <2>2 DEF Bounds
<1> QED BY <1>4, <1>5, <1>6

(* A greater clock bounds what a smaller one did.                          *)
LEMMA LaterBounds ==
  ASSUME NEW w, NEW s, NEW v, NEW differ, NEW later,
         w.clock \in Clocks, s.clock \in Clocks, v.clock \in Clocks,
         After(w.clock, s.clock), Bounds(s, v, differ)
  PROVE  Bounds(w, v, later)
<1>1. /\ SumOfValues(w.clock) \in Nat
      /\ SumOfValues(s.clock) \in Nat
      /\ SumOfValues(v.clock) \in Nat
      /\ SumOfValues(w.clock) > SumOfValues(s.clock)
  BY SumGrows
<1>2. SumOfValues(s.clock) >= SumOfValues(v.clock)
  BY DEF Bounds
<1> HIDE DEF SumOfValues
<1> QED BY <1>1, <1>2 DEF Bounds

LEMMA BoundsItself ==
  ASSUME NEW w, NEW u, NEW differ, u.clock \in Clocks, u.id \in Int, Carries(w, u)
  PROVE  Bounds(w, u, differ)
<1>1. SumOfValues(u.clock) \in Nat
  BY SumGrows
<1> QED BY <1>1 DEF Bounds, Carries

-----------------------------------------------------------------------------
(* What a step of device d leaves to be shown.  In all of these lemmas the   *)
(* other devices keep what they have, and at most d sends a change.          *)

OthersSame(d) ==
  \A e \in Devices \ {d} : local'[e] = local[e] /\ job'[e] = job[e] /\ got'[e] = got[e]

SentBy(d) ==
  /\ sent \subseteq sent'
  /\ \A u \in sent' \ sent :
       /\ Pending(d) /\ u.from = d /\ u.id = App(d).id
       /\ \A v \in sent : v.id # u.id

LEMMA MarksFrom ==
  ASSUME NEW d \in Devices, OthersSame(d), sent \subseteq sent',
         Pending(d) =>
           \/ Pending(d)' /\ App(d)'.clock = App(d).clock /\ App(d)'.id = App(d).id
           \/ \E u \in sent' : u.clock = App(d).clock /\ u.id = App(d).id
  PROVE  MarksDiffer' => MarksDiffer
<1>1. ASSUME NEW e \in Devices, Pending(e) PROVE <<App(e).clock, App(e).id>> \in Marks'
  <2>1. CASE e = d
    BY <1>1, <2>1 DEF Marks
  <2>2. CASE e # d
    <3>1. Pending(e)' /\ App(e)' = App(e)
      BY <1>1, <2>2 DEF OthersSame, Pending, App
    <3> QED BY <3>1 DEF Marks
  <2> QED BY <2>1, <2>2
<1>2. Marks \subseteq Marks'
  BY <1>1 DEF Marks
<1> QED BY <1>2 DEF MarksDiffer

LEMMA WorkFrom ==
  ASSUME TypeOK, SentInv, WorkInv, NEW d \in Devices, OthersSame(d), SentBy(d),
         App(d)'.at \in {"idle", "store clock", "set name", "send"},
         Cmd(d)'.at \in {"idle", "compare", "accept name", "accept clock"},
         Pending(d)' => PendingOf(d)',
         Comparing(d)' => TakenOf(d)',
         Pending(d)' => \A e \in Devices : Pending(e) /\ App(e).id = App(d)'.id => e = d
  PROVE  WorkInv'
<1>1. ASSUME NEW e \in Devices \ {d}
      PROVE  /\ App(e)' = App(e) /\ Cmd(e)' = Cmd(e) /\ got'[e] = got[e]
             /\ (Pending(e)' <=> Pending(e)) /\ (Comparing(e)' <=> Comparing(e))
  BY <1>1 DEF OthersSame, App, Cmd, Pending, Comparing, Accepting
<1>2. ASSUME NEW e \in Devices \ {d}, Pending(e) PROVE PendingOf(e)'
  <2>1. PendingOf(e)
    BY <1>2 DEF WorkInv
  <2>2. \A u \in sent' : u.id # App(e).id
    <3>1. SUFFICES ASSUME NEW u \in sent' \ sent PROVE u.id # App(e).id
      BY <2>1 DEF PendingOf
    <3>2. Pending(d) /\ u.id = App(d).id
      BY DEF SentBy
    <3>3. App(d).id # App(e).id
      BY <1>2, <3>2 DEF WorkInv
    <3> QED BY <3>2, <3>3
  <2> QED BY <1>1, <2>1, <2>2 DEF PendingOf
<1>3. ASSUME NEW e \in Devices \ {d}, Comparing(e) PROVE TakenOf(e)'
  <2>1. TakenOf(e)
    BY <1>3 DEF WorkInv
  <2> QED BY <1>1, <2>1 DEF TakenOf, SentBy, Carries
<1>4. \A e \in Devices :
        /\ App(e)'.at \in {"idle", "store clock", "set name", "send"}
        /\ Cmd(e)'.at \in {"idle", "compare", "accept name", "accept clock"}
        /\ Pending(e)' => PendingOf(e)'
        /\ Comparing(e)' => TakenOf(e)'
  <2>1. SUFFICES ASSUME NEW e \in Devices \ {d}
                 PROVE  /\ App(e)'.at \in {"idle", "store clock", "set name", "send"}
                        /\ Cmd(e)'.at \in {"idle", "compare", "accept name", "accept clock"}
                        /\ Pending(e)' => PendingOf(e)'
                        /\ Comparing(e)' => TakenOf(e)'
    OBVIOUS
  <2> QED BY <1>1, <1>2, <1>3 DEF WorkInv
<1>5. ASSUME NEW e \in Devices, NEW f \in Devices, Pending(e)', Pending(f)', App(e)'.id = App(f)'.id
      PROVE  e = f
  BY <1>1, <1>5 DEF WorkInv
<1> QED BY <1>4, <1>5 DEF WorkInv

LEMMA TakenStays ==
  ASSUME WorkInv, NEW d \in Devices, Comparing(d), Cmd(d)' = Cmd(d), got' = got,
         sent \subseteq sent'
  PROVE  TakenOf(d)'
<1>1. TakenOf(d)
  BY DEF WorkInv
<1> QED BY <1>1 DEF TakenOf, Carries

LEMMA BoundsStay ==
  ASSUME NEW v, NEW u, NEW differ, NEW later, Bounds(v, u, differ), later => differ
  PROVE  Bounds(v, u, later)
BY DEF Bounds

LEMMA OrderlyFrom ==
  ASSUME TypeOK, SentInv, OrderlyInv, NEW d \in Devices, OthersSame(d), SentBy(d),
         overlapped' = IF Overlap(d)' THEN overlapped \union {d} ELSE overlapped,
         MarksDiffer' => MarksDiffer,
         d \in Orderly /\ ~Overlap(d)' => ShowsOf(d)' /\ BoundsOf(d)'
  PROVE  OrderlyInv'
<1> SUFFICES ASSUME NEW e \in Orderly' PROVE ~Overlap(e)' /\ ShowsOf(e)' /\ BoundsOf(e)'
  BY DEF OrderlyInv
<1>1. e \in Orderly /\ e \in Devices /\ (e = d => ~Overlap(d)')
  BY OrderlyStep
<1>2. CASE e = d
  BY <1>1, <1>2
<1>3. CASE e # d
  <2>1. /\ local'[e] = local[e] /\ App(e)' = App(e) /\ Cmd(e)' = Cmd(e) /\ got'[e] = got[e]
        /\ (Overlap(e)' <=> Overlap(e)) /\ (Stamped(e)' <=> Stamped(e))
        /\ (Accepting(e)' <=> Accepting(e))
    BY <1>1, <1>3 DEF OthersSame, App, Cmd, Stamped, Accepting, Overlap
  <2>2. ~Overlap(e) /\ ShowsOf(e) /\ BoundsOf(e)
    BY <1>1 DEF OrderlyInv
  <2>3. ShowsOf(e)'
    BY <2>1, <2>2 DEF ShowsOf, Carries, Accepts, SentBy, ResolveConflict
  <2>4. ASSUME NEW u \in sent', Knows(e, u)' PROVE Bounds(local'[e], u, MarksDiffer')
    <3>1. u \in sent
      BY <1>1, <1>3, <2>1, <2>4 DEF SentBy, Knows, SentInv
    <3>2. Bounds(local[e], u, MarksDiffer)
      BY <2>1, <2>2, <2>4, <3>1 DEF BoundsOf, Knows
    <3> QED BY <2>1, <3>2, BoundsStay
  <2>5. ASSUME Stamped(e)' PROVE Bounds(local'[e], App(e)', MarksDiffer')
    <3>1. Bounds(local[e], App(e), MarksDiffer)
      BY <2>1, <2>2, <2>5 DEF BoundsOf
    <3> QED BY <2>1, <3>1, BoundsStay
  <2>6. BoundsOf(e)'
    BY <2>4, <2>5 DEF BoundsOf, Bounds
  <2> QED BY <2>1, <2>2, <2>3, <2>6
<1> QED BY <1>2, <1>3

-----------------------------------------------------------------------------
LEMMA ChangeKeeps ==
  ASSUME TypeOK, SentInv, WorkInv, OrderlyInv, NEW d \in Devices, Change(d),
         overlapped' = IF Overlap(d)' THEN overlapped \union {d} ELSE overlapped
  PROVE  SentInv' /\ WorkInv' /\ OrderlyInv'
<1> USE GroupAttributeAssumption
<1>0. /\ local[d] \in Stored /\ local[d].clock \in Clocks
      /\ App(d).clock \in Clocks /\ Cmd(d).clock \in Clocks
      /\ App(d).at \in Steps => App(d).name \in Ids \union {0} /\ App(d).id \in Ids
      /\ Cmd(d).at \in Steps => Cmd(d).name \in Ids \union {0} /\ Cmd(d).id \in Ids
      /\ local[d].id \in Int /\ (App(d).id \in Ids => App(d).id \in Int)
      /\ (Cmd(d).id \in Ids => Cmd(d).id \in Int)
  BY JobType DEF Stored, Ids
<1>s. /\ d \in group
      /\ \A u \in sent : u \in Update /\ u.clock \in Clocks /\ u.id \in Int
  BY DEF SentInv, TypeOK, Update, Ids
<1>o. OthersSame(d)
  BY OthersKept DEF OthersSame, Step, ChangeStep
<1>1. PICK id \in UnusedIds :
        Becomes(d, "application", [at |-> "store clock", name |-> id,
                                   clock |-> Incremented(local[d].clock, d), id |-> id])
  BY DEF Change
<1> DEFINE c == Incremented(local[d].clock, d)
           j == [at |-> "store clock", name |-> id, clock |-> c, id |-> id]
<1>2. j \in Job /\ j.at = "store clock" /\ j.name = id /\ j.clock = c /\ j.id = id
  BY <1>0, <1>1, IncrementedIsLater DEF Job, Steps, UnusedIds
<1>3. Becomes(d, "application", j)
  BY <1>1
<1>4. c \in Clocks /\ After(c, NoClock)
  BY <1>0, IncrementedIsLater, IncrementedAfter
<1> HIDE DEF j
<1>5. App(d)' = j /\ Cmd(d)' = Cmd(d)
  BY <1>2, <1>3, AppStep
<1>6. UNCHANGED <<group, local, sent, got>> /\ App(d).at = "idle"
  <2>1. Idle.at = "idle" /\ App(d) = Idle
    BY DEF Change, App, Idle
  <2> QED BY <2>1 DEF Change
<1>7. /\ \A u \in sent : u.id # id
      /\ \A e \in Devices : App(e).id # id
  <2>1. id \notin InHand /\ \A u \in sent : u.id # id
    BY <1>1 DEF UnusedIds
  <2>2. \A e \in Devices : App(e).id \in InHand
    BY DEF InHand, App, Threads
  <2> QED BY <2>1, <2>2
<1>8. Pending(d)' /\ ~Stamped(d)' /\ ~Pending(d) /\ PendingOf(d)'
  BY <1>2, <1>4, <1>5, <1>6, <1>7 DEF Pending, Stamped, PendingOf
<1>9. SentBy(d)
  BY <1>6 DEF SentBy
<1>10. (Comparing(d)' <=> Comparing(d)) /\ (Accepting(d)' <=> Accepting(d))
  BY <1>5 DEF Comparing, Accepting
<1>11. SentInv'
  BY <1>6 DEF SentInv
<1>12. WorkInv'
  <2>1. Comparing(d)' => TakenOf(d)'
    BY <1>5, <1>6, <1>10, TakenStays
  <2>2. App(d)'.at = "store clock" /\ Cmd(d)'.at = Cmd(d).at /\ App(d)'.id = id
    BY <1>2, <1>5
  <2>3. Cmd(d).at \in {"idle", "compare", "accept name", "accept clock"}
    BY DEF WorkInv
  <2> QED BY <1>o, <1>7, <1>8, <1>9, <2>1, <2>2, <2>3, WorkFrom
<1>13. MarksDiffer' => MarksDiffer
  BY <1>o, <1>6, <1>8, MarksFrom
<1>14. ASSUME d \in Orderly PROVE ShowsOf(d)' /\ BoundsOf(d)'
  <2>1. ShowsOf(d) /\ BoundsOf(d)
    BY <1>14 DEF OrderlyInv
  <2>2. ShowsOf(d)'
    BY <1>2, <1>5, <1>6, <1>8, <1>10, <2>1
    DEF ShowsOf, Carries, Stamped, Pending, Accepts, ResolveConflict
  <2>3. BoundsOf(d)'
    BY <1>6, <1>8, <1>13, <2>1 DEF BoundsOf, Knows, Bounds
  <2> QED BY <2>2, <2>3
<1>15. OrderlyInv'
  BY <1>o, <1>9, <1>13, <1>14, OrderlyFrom
<1> QED BY <1>11, <1>12, <1>15

LEMMA StoreChangedClockKeeps ==
  ASSUME TypeOK, SentInv, WorkInv, OrderlyInv, NEW d \in Devices, StoreChangedClock(d),
         overlapped' = IF Overlap(d)' THEN overlapped \union {d} ELSE overlapped
  PROVE  SentInv' /\ WorkInv' /\ OrderlyInv'
<1> USE GroupAttributeAssumption
<1>0. /\ local[d] \in Stored /\ local[d].clock \in Clocks
      /\ App(d).clock \in Clocks /\ Cmd(d).clock \in Clocks
      /\ App(d).at \in Steps => App(d).name \in Ids \union {0} /\ App(d).id \in Ids
      /\ Cmd(d).at \in Steps => Cmd(d).name \in Ids \union {0} /\ Cmd(d).id \in Ids
      /\ local[d].id \in Int /\ (App(d).id \in Ids => App(d).id \in Int)
      /\ (Cmd(d).id \in Ids => Cmd(d).id \in Int)
  BY JobType DEF Stored, Ids
<1>s. /\ d \in group
      /\ \A u \in sent : u \in Update /\ u.clock \in Clocks /\ u.id \in Int
  BY DEF SentInv, TypeOK, Update, Ids
<1>o. OthersSame(d)
  BY OthersKept DEF OthersSame, Step, ChangeStep
<1>1. App(d).at = "store clock" /\ App(d).at \in Steps /\ Pending(d)
  BY DEF StoreChangedClock, App, Steps, Pending
<1>2. /\ App(d)'.at = "set name" /\ App(d)'.name = App(d).name
      /\ App(d)'.clock = App(d).clock /\ App(d)'.id = App(d).id /\ Cmd(d)' = Cmd(d)
  BY <1>1, AppStep DEF StoreChangedClock, Steps
<1>3. local'[d].clock = App(d).clock /\ local'[d].id = App(d).id
  BY <1>0, <1>1, ClockIsStored DEF StoreChangedClock, App
<1>4. UNCHANGED <<group, sent, got>>
  BY DEF StoreChangedClock, Unmoved
<1>5. Pending(d)' /\ Stamped(d)' /\ PendingOf(d)'
  BY <1>1, <1>2, <1>4 DEF Pending, Stamped, PendingOf, WorkInv
<1>6. SentBy(d)
  BY <1>4 DEF SentBy
<1>7. (Comparing(d)' <=> Comparing(d)) /\ (Accepting(d)' <=> Accepting(d))
  BY <1>2 DEF Comparing, Accepting
<1>8. SentInv'
  BY <1>4 DEF SentInv
<1>9. WorkInv'
  <2>1. Comparing(d)' => TakenOf(d)'
    BY <1>2, <1>4, <1>7, TakenStays
  <2>2. Cmd(d)'.at \in {"idle", "compare", "accept name", "accept clock"}
    BY <1>2 DEF WorkInv
  <2>3. \A e \in Devices : Pending(e) /\ App(e).id = App(d)'.id => e = d
    BY <1>1, <1>2 DEF WorkInv
  <2> QED BY <1>o, <1>2, <1>5, <1>6, <2>1, <2>2, <2>3, WorkFrom
<1>10. MarksDiffer' => MarksDiffer
  BY <1>o, <1>2, <1>4, <1>5, MarksFrom
<1>11. ASSUME d \in Orderly PROVE ShowsOf(d)' /\ BoundsOf(d)'
  <2>1. ShowsOf(d) /\ BoundsOf(d) /\ ~Accepting(d)
    BY <1>1, <1>11 DEF OrderlyInv, Overlap, Accepting, App, Cmd
  <2>2. Carries(local[d], App(d))'
    BY <1>2, <1>3 DEF Carries
  <2>3. ShowsOf(d)'
    BY <1>2, <1>5, <1>7, <2>1, <2>2 DEF ShowsOf, Accepting
  <2>4. After(App(d).clock, local[d].clock)
    BY <1>0, <1>1, <2>1, IncrementedAfter DEF ShowsOf
  <2>5. ASSUME NEW u \in sent, Knows(d, u) PROVE Bounds(local'[d], u, MarksDiffer')
    <3>1. Bounds(local[d], u, MarksDiffer)
      BY <2>1, <2>5 DEF BoundsOf
    <3> QED BY <1>0, <1>s, <1>3, <2>4, <3>1, LaterBounds
  <2>6. Bounds(local'[d], App(d)', MarksDiffer')
    BY <1>0, <1>1, <1>2, <2>2, BoundsItself DEF Carries
  <2>7. BoundsOf(d)'
    BY <1>4, <2>5, <2>6 DEF BoundsOf, Knows, Bounds
  <2> QED BY <2>3, <2>7
<1>12. OrderlyInv'
  BY <1>o, <1>6, <1>10, <1>11, OrderlyFrom
<1> QED BY <1>8, <1>9, <1>12

LEMMA SetChangedNameKeeps ==
  ASSUME TypeOK, SentInv, WorkInv, OrderlyInv, NEW d \in Devices, SetChangedName(d),
         overlapped' = IF Overlap(d)' THEN overlapped \union {d} ELSE overlapped
  PROVE  SentInv' /\ WorkInv' /\ OrderlyInv'
<1> USE GroupAttributeAssumption
<1>0. /\ local[d] \in Stored /\ local[d].clock \in Clocks
      /\ App(d).clock \in Clocks /\ Cmd(d).clock \in Clocks
      /\ App(d).at \in Steps => App(d).name \in Ids \union {0} /\ App(d).id \in Ids
      /\ Cmd(d).at \in Steps => Cmd(d).name \in Ids \union {0} /\ Cmd(d).id \in Ids
      /\ local[d].id \in Int /\ (App(d).id \in Ids => App(d).id \in Int)
      /\ (Cmd(d).id \in Ids => Cmd(d).id \in Int)
  BY JobType DEF Stored, Ids
<1>s. /\ d \in group
      /\ \A u \in sent : u \in Update /\ u.clock \in Clocks /\ u.id \in Int
  BY DEF SentInv, TypeOK, Update, Ids
<1>o. OthersSame(d)
  BY OthersKept DEF OthersSame, Step, ChangeStep
<1>1. App(d).at = "set name" /\ App(d).at \in Steps /\ Pending(d) /\ Stamped(d)
  BY DEF SetChangedName, App, Steps, Pending, Stamped
<1>2. /\ App(d)'.at = "send" /\ App(d)'.name = App(d).name
      /\ App(d)'.clock = App(d).clock /\ App(d)'.id = App(d).id /\ Cmd(d)' = Cmd(d)
  BY <1>1, AppStep DEF SetChangedName, Steps
<1>3. /\ local'[d].clock = local[d].clock /\ local'[d].id = local[d].id
      /\ local'[d].name = App(d).name
  BY <1>0, <1>s, <1>1, NameIsSet DEF SetChangedName, App
<1>4. UNCHANGED <<group, sent, got>>
  BY DEF SetChangedName, Unmoved
<1>5. Pending(d)' /\ Stamped(d)' /\ PendingOf(d)'
  BY <1>1, <1>2, <1>4 DEF Pending, Stamped, PendingOf, WorkInv
<1>6. SentBy(d)
  BY <1>4 DEF SentBy
<1>7. (Comparing(d)' <=> Comparing(d)) /\ (Accepting(d)' <=> Accepting(d))
  BY <1>2 DEF Comparing, Accepting
<1>8. SentInv'
  BY <1>4 DEF SentInv
<1>9. WorkInv'
  <2>1. Comparing(d)' => TakenOf(d)'
    BY <1>2, <1>4, <1>7, TakenStays
  <2>2. Cmd(d)'.at \in {"idle", "compare", "accept name", "accept clock"}
    BY <1>2 DEF WorkInv
  <2>3. \A e \in Devices : Pending(e) /\ App(e).id = App(d)'.id => e = d
    BY <1>1, <1>2 DEF WorkInv
  <2> QED BY <1>o, <1>2, <1>5, <1>6, <2>1, <2>2, <2>3, WorkFrom
<1>10. MarksDiffer' => MarksDiffer
  BY <1>o, <1>2, <1>4, <1>5, MarksFrom
<1>11. ASSUME d \in Orderly PROVE ShowsOf(d)' /\ BoundsOf(d)'
  <2>1. ShowsOf(d) /\ BoundsOf(d) /\ ~Accepting(d)
    BY <1>1, <1>11 DEF OrderlyInv, Overlap, Accepting, App, Cmd
  <2>2. Carries(local[d], App(d)) /\ App(d).name = App(d).id
    BY <1>1, <2>1 DEF ShowsOf, WorkInv, PendingOf
  <2>3. ShowsOf(d)'
    BY <1>2, <1>3, <1>5, <1>7, <2>1, <2>2 DEF ShowsOf, Accepting, Carries
  <2>4. BoundsOf(d)'
    BY <1>1, <1>2, <1>3, <1>4, <1>10, <2>1 DEF BoundsOf, Knows, Bounds
  <2> QED BY <2>3, <2>4
<1>12. OrderlyInv'
  BY <1>o, <1>6, <1>10, <1>11, OrderlyFrom
<1> QED BY <1>8, <1>9, <1>12

LEMMA SendChangeKeeps ==
  ASSUME TypeOK, SentInv, WorkInv, OrderlyInv, NEW d \in Devices, SendChange(d),
         overlapped' = IF Overlap(d)' THEN overlapped \union {d} ELSE overlapped
  PROVE  SentInv' /\ WorkInv' /\ OrderlyInv'
<1> USE GroupAttributeAssumption
<1>0. /\ local[d] \in Stored /\ local[d].clock \in Clocks
      /\ App(d).clock \in Clocks /\ Cmd(d).clock \in Clocks
      /\ App(d).at \in Steps => App(d).name \in Ids \union {0} /\ App(d).id \in Ids
      /\ Cmd(d).at \in Steps => Cmd(d).name \in Ids \union {0} /\ Cmd(d).id \in Ids
      /\ local[d].id \in Int /\ (App(d).id \in Ids => App(d).id \in Int)
      /\ (Cmd(d).id \in Ids => Cmd(d).id \in Int)
  BY JobType DEF Stored, Ids
<1>s. /\ d \in group
      /\ \A u \in sent : u \in Update /\ u.clock \in Clocks /\ u.id \in Int
  BY DEF SentInv, TypeOK, Update, Ids
<1>o. OthersSame(d)
  BY OthersKept DEF OthersSame, Step, ChangeStep
<1>1. App(d).at = "send" /\ App(d).at \in Steps /\ Pending(d) /\ Stamped(d) /\ PendingOf(d)
  BY DEF SendChange, App, Steps, Pending, Stamped, WorkInv
<1>2. App(d)'.at = "idle" /\ Cmd(d)' = Cmd(d)
  BY AppStep DEF SendChange
<1> DEFINE u == [name |-> App(d).name, clock |-> App(d).clock, id |-> App(d).id,
                 from |-> d, adds |-> FALSE]
<1>3. /\ sent' = sent \union {u} /\ UNCHANGED <<group, local, got>>
  BY <1>s DEF SendChange, App
<1>4. /\ u.name = App(d).name /\ u.clock = App(d).clock /\ u.id = App(d).id
      /\ u.from = d /\ u.adds = FALSE
  OBVIOUS
<1> HIDE DEF u
<1>5. ~Pending(d)' /\ ~Stamped(d)'
  BY <1>2 DEF Pending, Stamped
<1>6. SentBy(d)
  BY <1>1, <1>3, <1>4 DEF SentBy, PendingOf
<1>7. (Comparing(d)' <=> Comparing(d)) /\ (Accepting(d)' <=> Accepting(d))
  BY <1>2 DEF Comparing, Accepting
<1>8. SentInv'
  <2>1. \A v \in sent : v.id # u.id
    BY <1>1, <1>4 DEF PendingOf
  <2>2. After(u.clock, NoClock) /\ u.name = u.id /\ ~u.adds
    BY <1>1, <1>4 DEF PendingOf
  <2>3. \A e \in Devices : got'[e] \subseteq {v.id : v \in sent'}
    BY <1>3 DEF SentInv
  <2> QED BY <1>3, <2>1, <2>2, <2>3 DEF SentInv
<1>9. WorkInv'
  <2>1. Comparing(d)' => TakenOf(d)'
    BY <1>2, <1>3, <1>7, TakenStays
  <2>2. Cmd(d)'.at \in {"idle", "compare", "accept name", "accept clock"}
    BY <1>2 DEF WorkInv
  <2> QED BY <1>o, <1>2, <1>5, <1>6, <2>1, <2>2, WorkFrom
<1>10. MarksDiffer' => MarksDiffer
  BY <1>o, <1>3, <1>4, MarksFrom
<1>11. ASSUME d \in Orderly PROVE ShowsOf(d)' /\ BoundsOf(d)'
  <2>1. ShowsOf(d) /\ BoundsOf(d)
    BY <1>11 DEF OrderlyInv
  <2>2. ShowsOf(d)'
    <3>1. \/ Carries(local[d], Nothing)' \/ \E v \in sent' : Carries(local'[d], v)
      BY <1>3, <1>4, <2>1 DEF ShowsOf, Carries, Nothing
    <3> QED BY <1>1, <1>2, <1>3, <1>7, <2>1, <3>1
            DEF ShowsOf, Accepting, Carries, Accepts, ResolveConflict
  <2>3. ASSUME NEW v \in sent', Knows(d, v)' PROVE Bounds(local'[d], v, MarksDiffer')
    <3>1. CASE v = u
      BY <1>1, <1>3, <1>4, <1>10, <2>1, <3>1 DEF BoundsOf, Bounds
    <3>2. CASE v \in sent
      BY <1>3, <1>10, <2>1, <2>3, <3>2 DEF BoundsOf, Bounds, Knows
    <3> QED BY <1>3, <3>1, <3>2
  <2>4. BoundsOf(d)'
    BY <1>5, <2>3 DEF BoundsOf, Bounds
  <2> QED BY <2>2, <2>4
<1>12. OrderlyInv'
  BY <1>o, <1>6, <1>10, <1>11, OrderlyFrom
<1> QED BY <1>8, <1>9, <1>12

LEMMA ReceiveKeeps ==
  ASSUME TypeOK, SentInv, WorkInv, OrderlyInv, NEW d \in Devices, NEW u \in sent, Receive(d, u),
         overlapped' = IF Overlap(d)' THEN overlapped \union {d} ELSE overlapped
  PROVE  SentInv' /\ WorkInv' /\ OrderlyInv'
<1> USE GroupAttributeAssumption
<1>0. /\ local[d] \in Stored /\ local[d].clock \in Clocks
      /\ App(d).clock \in Clocks /\ Cmd(d).clock \in Clocks
      /\ App(d).at \in Steps => App(d).name \in Ids \union {0} /\ App(d).id \in Ids
      /\ Cmd(d).at \in Steps => Cmd(d).name \in Ids \union {0} /\ Cmd(d).id \in Ids
      /\ local[d].id \in Int /\ (App(d).id \in Ids => App(d).id \in Int)
      /\ (Cmd(d).id \in Ids => Cmd(d).id \in Int)
  BY JobType DEF Stored, Ids
<1>s. /\ d \in group
      /\ \A w \in sent : w \in Update /\ w.clock \in Clocks /\ w.id \in Int
  BY DEF SentInv, TypeOK, Update, Ids
<1>o. OthersSame(d)
  BY OthersKept DEF OthersSame, Step, UpdateStep
<1>1. /\ UNCHANGED <<group, sent, got>> /\ local'[d] = local[d]
      /\ Becomes(d, "command", [at |-> "compare", name |-> u.name,
                                clock |-> u.clock, id |-> u.id])
  BY <1>s DEF Receive, TypeOK, Stored
<1> DEFINE j == [at |-> "compare", name |-> u.name, clock |-> u.clock, id |-> u.id]
<1>2. j \in Job /\ j.at = "compare" /\ j.name = u.name /\ Carries(j, u)
  BY <1>s DEF Update, Job, Steps, Carries
<1>3. Becomes(d, "command", j)
  BY <1>1
<1> HIDE DEF j
<1>4. Cmd(d)' = j /\ App(d)' = App(d)
  BY <1>2, <1>3, CmdStep
<1>5. (Pending(d)' <=> Pending(d)) /\ (Stamped(d)' <=> Stamped(d)) /\ ~Accepting(d)'
  BY <1>2, <1>4 DEF Pending, Stamped, Accepting
<1>6. SentBy(d) /\ SentInv'
  BY <1>1 DEF SentBy, SentInv
<1>7. WorkInv'
  <2>1. TakenOf(d)'
    BY <1>1, <1>2, <1>4 DEF Receive, TakenOf, Carries
  <2>2. Pending(d)' => PendingOf(d)'
    BY <1>1, <1>4, <1>5 DEF WorkInv, PendingOf
  <2>3. Pending(d)' => \A e \in Devices : Pending(e) /\ App(e).id = App(d)'.id => e = d
    BY <1>4, <1>5 DEF WorkInv
  <2>4. App(d)'.at \in {"idle", "store clock", "set name", "send"} /\ Cmd(d)'.at = "compare"
    BY <1>2, <1>4 DEF WorkInv
  <2> QED BY <1>o, <1>6, <2>1, <2>2, <2>3, <2>4, WorkFrom
<1>8. MarksDiffer' => MarksDiffer
  BY <1>o, <1>1, <1>4, <1>5, MarksFrom
<1>9. ASSUME d \in Orderly PROVE ShowsOf(d)' /\ BoundsOf(d)'
  <2>1. ShowsOf(d) /\ BoundsOf(d)
    BY <1>9 DEF OrderlyInv
  <2>2. Cmd(d).at = "idle"
    BY DEF Receive, Cmd, Idle
  <2>3. ShowsOf(d)'
    BY <1>1, <1>2, <1>4, <1>5, <2>1, <2>2 DEF ShowsOf, Carries
  <2>4. BoundsOf(d)'
    BY <1>1, <1>4, <1>5, <1>8, <2>1 DEF BoundsOf, Knows, Bounds
  <2> QED BY <2>3, <2>4
<1>10. OrderlyInv'
  BY <1>o, <1>6, <1>8, <1>9, OrderlyFrom
<1> QED BY <1>6, <1>7, <1>10

(* Refusing, or accepting at last, an update that the command thread has.   *)
LEMMA FinishWork ==
  ASSUME TypeOK, SentInv, WorkInv, OrderlyInv, NEW d \in Devices, UpdateStep(d), Finish(d), Comparing(d),
         overlapped' = IF Overlap(d)' THEN overlapped \union {d} ELSE overlapped
  PROVE  /\ SentInv' /\ WorkInv' /\ SentBy(d) /\ OthersSame(d) /\ (MarksDiffer' => MarksDiffer)
         /\ Cmd(d)'.at = "idle" /\ App(d)' = App(d) /\ sent' = sent
         /\ (Stamped(d)' <=> Stamped(d)) /\ ~Accepting(d)'
         /\ \A u \in sent : Knows(d, u)' => Knows(d, u) \/ u.id = Cmd(d).id
<1>o. OthersSame(d)
  BY OthersKept DEF OthersSame, Step, Step
<1>1. Cmd(d)'.at = "idle" /\ App(d)' = App(d)
  BY CmdStep DEF Finish
<1>2. UNCHANGED <<group, sent>> /\ got' = [got EXCEPT ![d] = @ \union {Cmd(d).id}]
  BY DEF Finish, Cmd
<1>3. got'[d] = got[d] \union {Cmd(d).id} /\ \A e \in Devices \ {d} : got'[e] = got[e]
  BY <1>2 DEF TypeOK
<1>4. PICK u \in sent : Carries(Cmd(d), u)
  BY DEF WorkInv, TakenOf
<1>5. /\ (Pending(d)' <=> Pending(d)) /\ (Stamped(d)' <=> Stamped(d))
      /\ ~Accepting(d)' /\ ~Comparing(d)'
  BY <1>1 DEF Pending, Stamped, Accepting, Comparing
<1>6. SentBy(d)
  BY <1>2 DEF SentBy
<1>7. SentInv'
  <2>1. \A e \in Devices : got'[e] \subseteq {v.id : v \in sent'}
    BY <1>2, <1>3, <1>4 DEF SentInv, Carries
  <2> QED BY <1>2, <2>1 DEF SentInv
<1>8. WorkInv'
  <2>1. Pending(d)' => PendingOf(d)'
    BY <1>1, <1>2, <1>5 DEF WorkInv, PendingOf
  <2>2. Pending(d)' => \A e \in Devices : Pending(e) /\ App(e).id = App(d)'.id => e = d
    BY <1>1, <1>5 DEF WorkInv
  <2>3. App(d)'.at \in {"idle", "store clock", "set name", "send"}
    BY <1>1 DEF WorkInv
  <2> QED BY <1>o, <1>1, <1>5, <1>6, <2>1, <2>2, <2>3, WorkFrom
<1>9. MarksDiffer' => MarksDiffer
  BY <1>o, <1>1, <1>2, <1>5, MarksFrom
<1>10. \A v \in sent : Knows(d, v)' => Knows(d, v) \/ v.id = Cmd(d).id
  BY <1>3 DEF Knows
<1> QED BY <1>o, <1>1, <1>2, <1>5, <1>6, <1>7, <1>8, <1>9, <1>10

LEMMA RefuseKeeps ==
  ASSUME TypeOK, SentInv, WorkInv, OrderlyInv, NEW d \in Devices, Refuse(d),
         overlapped' = IF Overlap(d)' THEN overlapped \union {d} ELSE overlapped
  PROVE  SentInv' /\ WorkInv' /\ OrderlyInv'
<1> USE GroupAttributeAssumption
<1>0. /\ local[d] \in Stored /\ local[d].clock \in Clocks
      /\ App(d).clock \in Clocks /\ Cmd(d).clock \in Clocks
      /\ App(d).at \in Steps => App(d).name \in Ids \union {0} /\ App(d).id \in Ids
      /\ Cmd(d).at \in Steps => Cmd(d).name \in Ids \union {0} /\ Cmd(d).id \in Ids
      /\ local[d].id \in Int /\ (App(d).id \in Ids => App(d).id \in Int)
      /\ (Cmd(d).id \in Ids => Cmd(d).id \in Int)
  BY JobType DEF Stored, Ids
<1>s. /\ d \in group
      /\ \A u \in sent : u \in Update /\ u.clock \in Clocks /\ u.id \in Int
  BY DEF SentInv, TypeOK, Update, Ids
<1>o. OthersSame(d)
  BY OthersKept DEF OthersSame, Step, UpdateStep
<1>1. Cmd(d).at = "compare" /\ Comparing(d) /\ Cmd(d).at \in Steps
      /\ ~Accepts(Cmd(d), local[d]) /\ local' = local /\ Finish(d) /\ UpdateStep(d)
  BY DEF Refuse, Cmd, Comparing, Steps, UpdateStep
<1>2. /\ SentInv' /\ WorkInv' /\ SentBy(d) /\ OthersSame(d) /\ (MarksDiffer' => MarksDiffer)
      /\ Cmd(d)'.at = "idle" /\ App(d)' = App(d) /\ sent' = sent
      /\ (Stamped(d)' <=> Stamped(d)) /\ ~Accepting(d)'
      /\ \A u \in sent : Knows(d, u)' => Knows(d, u) \/ u.id = Cmd(d).id
  BY <1>1, FinishWork
<1>3. PICK u \in sent : Carries(Cmd(d), u)
  BY <1>1 DEF WorkInv, TakenOf
<1>4. ASSUME d \in Orderly PROVE ShowsOf(d)' /\ BoundsOf(d)'
  <2>1. ShowsOf(d) /\ BoundsOf(d)
    BY <1>4 DEF OrderlyInv
  <2>2. ShowsOf(d)'
    BY <1>1, <1>2, <2>1 DEF ShowsOf, Carries
  <2>3. MarksDiffer /\ u.clock = local[d].clock => local[d].id = u.id
    <3>1. <<u.clock, u.id>> \in Marks
      BY DEF Marks
    <3>2. CASE Carries(local[d], Nothing)
      BY <1>3, <3>2 DEF SentInv, Nothing, After, Carries
    <3>3. CASE \E v \in sent : Carries(local[d], v)
      <4>1. <<local[d].clock, local[d].id>> \in Marks
        BY <3>3 DEF Marks, Carries
      <4> QED BY <3>1, <4>1 DEF MarksDiffer
    <3>4. CASE Stamped(d) /\ Carries(local[d], App(d))
      <4>1. <<local[d].clock, local[d].id>> \in Marks
        BY <3>4 DEF Marks, Carries, Stamped, Pending
      <4> QED BY <3>1, <4>1 DEF MarksDiffer
    <3> QED BY <2>1, <3>2, <3>3, <3>4 DEF ShowsOf
  <2>4. ~Accepts(u, local[d])
    BY <1>1, <1>3 DEF Accepts, ResolveConflict, Carries
  <2>5. Bounds(local[d], u, MarksDiffer)
    BY <1>0, <1>s, <2>3, <2>4, RefusedIsBounded
  <2>6. ASSUME NEW v \in sent, Knows(d, v)' PROVE Bounds(local[d], v, MarksDiffer)
    <3>1. CASE Knows(d, v)
      BY <2>1, <3>1 DEF BoundsOf
    <3>2. CASE v.id = Cmd(d).id
      <4>1. v = u
        BY <1>3, <3>2 DEF SentInv, Carries
      <4> QED BY <2>5, <4>1
    <3> QED BY <1>2, <2>6, <3>1, <3>2
  <2>7. BoundsOf(d)'
    BY <1>1, <1>2, <2>1, <2>6 DEF BoundsOf, Bounds
  <2> QED BY <2>2, <2>7
<1>5. OrderlyInv'
  BY <1>2, <1>4, OrderlyFrom
<1> QED BY <1>2, <1>5

(* The command thread goes on with an update that it accepts.                *)
LEMMA GoOn ==
  ASSUME TypeOK, SentInv, WorkInv, OrderlyInv, NEW d \in Devices, UpdateStep(d),
         Comparing(d), NEW at \in {"accept name", "accept clock"},
         GoesOn(d, "command", at), group' = group, sent' = sent, got' = got,
         overlapped' = IF Overlap(d)' THEN overlapped \union {d} ELSE overlapped
  PROVE  /\ SentInv' /\ WorkInv' /\ SentBy(d) /\ OthersSame(d) /\ (MarksDiffer' => MarksDiffer)
         /\ Cmd(d)'.at = at /\ Carries(Cmd(d)', Cmd(d)) /\ Cmd(d)'.name = Cmd(d).name
         /\ App(d)' = App(d) /\ (Stamped(d)' <=> Stamped(d))
<1>o. OthersSame(d)
  BY OthersKept DEF OthersSame, Step, Step
<1>a. at \in Steps /\ Cmd(d).at \in Steps
  BY DEF Comparing, Accepting, Steps
<1>1. /\ Cmd(d)'.at = at /\ Cmd(d)'.name = Cmd(d).name
      /\ Cmd(d)'.clock = Cmd(d).clock /\ Cmd(d)'.id = Cmd(d).id /\ App(d)' = App(d)
  BY <1>a, CmdStep
<1>2. (Pending(d)' <=> Pending(d)) /\ (Stamped(d)' <=> Stamped(d))
  BY <1>1 DEF Pending, Stamped
<1>3. SentBy(d) /\ SentInv'
  BY DEF SentBy, SentInv
<1>4. WorkInv'
  <2>1. TakenOf(d)'
    <3>1. TakenOf(d)
      BY DEF WorkInv
    <3> QED BY <1>1, <3>1 DEF TakenOf, Carries
  <2>2. Pending(d)' => PendingOf(d)'
    BY <1>1, <1>2 DEF WorkInv, PendingOf
  <2>3. Pending(d)' => \A e \in Devices : Pending(e) /\ App(e).id = App(d)'.id => e = d
    BY <1>1, <1>2 DEF WorkInv
  <2>4. App(d)'.at \in {"idle", "store clock", "set name", "send"}
    BY <1>1 DEF WorkInv
  <2> QED BY <1>o, <1>1, <1>3, <2>1, <2>2, <2>3, <2>4, WorkFrom
<1>5. MarksDiffer' => MarksDiffer
  BY <1>o, <1>1, <1>2, MarksFrom
<1> QED BY <1>o, <1>1, <1>2, <1>3, <1>4, <1>5 DEF Carries

LEMMA AcceptKeeps ==
  ASSUME TypeOK, SentInv, WorkInv, OrderlyInv, NEW d \in Devices, Accept(d),
         overlapped' = IF Overlap(d)' THEN overlapped \union {d} ELSE overlapped
  PROVE  SentInv' /\ WorkInv' /\ OrderlyInv'
<1> USE GroupAttributeAssumption
<1>0. /\ local[d] \in Stored /\ local[d].clock \in Clocks
      /\ App(d).clock \in Clocks /\ Cmd(d).clock \in Clocks
      /\ App(d).at \in Steps => App(d).name \in Ids \union {0} /\ App(d).id \in Ids
      /\ Cmd(d).at \in Steps => Cmd(d).name \in Ids \union {0} /\ Cmd(d).id \in Ids
      /\ local[d].id \in Int /\ (App(d).id \in Ids => App(d).id \in Int)
      /\ (Cmd(d).id \in Ids => Cmd(d).id \in Int)
  BY JobType DEF Stored, Ids
<1>s. /\ d \in group
      /\ \A u \in sent : u \in Update /\ u.clock \in Clocks /\ u.id \in Int
  BY DEF SentInv, TypeOK, Update, Ids
<1>o. OthersSame(d)
  BY OthersKept DEF OthersSame, Step, UpdateStep
<1>1. Cmd(d).at = "compare" /\ Comparing(d) /\ UpdateStep(d)
      /\ Accepts(Cmd(d), local[d]) /\ GoesOn(d, "command", "accept name")
      /\ UNCHANGED <<group, sent, got>> /\ local' = local
  BY DEF Accept, Cmd, Comparing, UpdateStep, Unmoved
<1>2. /\ SentInv' /\ WorkInv' /\ SentBy(d) /\ OthersSame(d) /\ (MarksDiffer' => MarksDiffer)
      /\ Cmd(d)'.at = "accept name" /\ Carries(Cmd(d)', Cmd(d))
      /\ App(d)' = App(d) /\ (Stamped(d)' <=> Stamped(d))
  BY <1>1, GoOn
<1>4. ASSUME d \in Orderly PROVE ShowsOf(d)' /\ BoundsOf(d)'
  <2>1. ShowsOf(d) /\ BoundsOf(d)
    BY <1>4 DEF OrderlyInv
  <2>2. Accepts(Cmd(d)', local'[d])
    BY <1>1, <1>2 DEF Accepts, ResolveConflict, Carries
  <2>3. ShowsOf(d)'
    BY <1>1, <1>2, <2>1, <2>2 DEF ShowsOf, Carries
  <2>4. BoundsOf(d)'
    BY <1>1, <1>2, <2>1 DEF BoundsOf, Bounds, Knows
  <2> QED BY <2>3, <2>4
<1>5. OrderlyInv'
  BY <1>2, <1>4, OrderlyFrom
<1> QED BY <1>2, <1>5

LEMMA SetAcceptedNameKeeps ==
  ASSUME TypeOK, SentInv, WorkInv, OrderlyInv, NEW d \in Devices, SetAcceptedName(d),
         overlapped' = IF Overlap(d)' THEN overlapped \union {d} ELSE overlapped
  PROVE  SentInv' /\ WorkInv' /\ OrderlyInv'
<1> USE GroupAttributeAssumption
<1>0. /\ local[d] \in Stored /\ local[d].clock \in Clocks
      /\ App(d).clock \in Clocks /\ Cmd(d).clock \in Clocks
      /\ App(d).at \in Steps => App(d).name \in Ids \union {0} /\ App(d).id \in Ids
      /\ Cmd(d).at \in Steps => Cmd(d).name \in Ids \union {0} /\ Cmd(d).id \in Ids
      /\ local[d].id \in Int /\ (App(d).id \in Ids => App(d).id \in Int)
      /\ (Cmd(d).id \in Ids => Cmd(d).id \in Int)
  BY JobType DEF Stored, Ids
<1>s. /\ d \in group
      /\ \A u \in sent : u \in Update /\ u.clock \in Clocks /\ u.id \in Int
  BY DEF SentInv, TypeOK, Update, Ids
<1>o. OthersSame(d)
  BY OthersKept DEF OthersSame, Step, UpdateStep
<1>1. Cmd(d).at = "accept name" /\ Cmd(d).at \in Steps /\ Comparing(d) /\ Accepting(d)
      /\ UpdateStep(d) /\ GoesOn(d, "command", "accept clock") /\ UNCHANGED <<group, sent, got>>
  BY DEF SetAcceptedName, Cmd, Comparing, Accepting, UpdateStep, Unmoved, Steps
<1>2. /\ SentInv' /\ WorkInv' /\ SentBy(d) /\ OthersSame(d) /\ (MarksDiffer' => MarksDiffer)
      /\ Cmd(d)'.at = "accept clock" /\ Carries(Cmd(d)', Cmd(d))
      /\ App(d)' = App(d) /\ (Stamped(d)' <=> Stamped(d))
  BY <1>1, GoOn
<1>3. /\ local'[d].clock = local[d].clock /\ local'[d].id = local[d].id
      /\ local'[d].name = Cmd(d).name
  BY <1>0, <1>s, <1>1, NameIsSet DEF SetAcceptedName, Cmd
<1>4. ASSUME d \in Orderly PROVE ShowsOf(d)' /\ BoundsOf(d)'
  <2>1. ShowsOf(d) /\ BoundsOf(d)
    BY <1>4 DEF OrderlyInv
  <2>2. Cmd(d).name = Cmd(d).id
    <3>1. TakenOf(d)
      BY <1>1 DEF WorkInv
    <3> QED BY <3>1 DEF TakenOf, SentInv, Carries
  <2>3. Accepts(Cmd(d)', local'[d])
    BY <1>1, <1>2, <1>3, <2>1 DEF ShowsOf, Accepts, ResolveConflict, Carries
  <2>4. ShowsOf(d)'
    BY <1>1, <1>2, <1>3, <2>1, <2>2, <2>3 DEF ShowsOf, Carries
  <2>5. BoundsOf(d)'
    BY <1>1, <1>2, <1>3, <2>1 DEF BoundsOf, Bounds, Knows
  <2> QED BY <2>4, <2>5
<1>5. OrderlyInv'
  BY <1>2, <1>4, OrderlyFrom
<1> QED BY <1>2, <1>5

LEMMA StoreAcceptedClockKeeps ==
  ASSUME TypeOK, SentInv, WorkInv, OrderlyInv, NEW d \in Devices, StoreAcceptedClock(d),
         overlapped' = IF Overlap(d)' THEN overlapped \union {d} ELSE overlapped
  PROVE  SentInv' /\ WorkInv' /\ OrderlyInv'
<1> USE GroupAttributeAssumption
<1>0. /\ local[d] \in Stored /\ local[d].clock \in Clocks
      /\ App(d).clock \in Clocks /\ Cmd(d).clock \in Clocks
      /\ App(d).at \in Steps => App(d).name \in Ids \union {0} /\ App(d).id \in Ids
      /\ Cmd(d).at \in Steps => Cmd(d).name \in Ids \union {0} /\ Cmd(d).id \in Ids
      /\ local[d].id \in Int /\ (App(d).id \in Ids => App(d).id \in Int)
      /\ (Cmd(d).id \in Ids => Cmd(d).id \in Int)
  BY JobType DEF Stored, Ids
<1>s. /\ d \in group
      /\ \A u \in sent : u \in Update /\ u.clock \in Clocks /\ u.id \in Int
  BY DEF SentInv, TypeOK, Update, Ids
<1>o. OthersSame(d)
  BY OthersKept DEF OthersSame, Step, UpdateStep
<1>1. Cmd(d).at = "accept clock" /\ Cmd(d).at \in Steps /\ Comparing(d) /\ Accepting(d)
      /\ UpdateStep(d) /\ Finish(d)
  BY DEF StoreAcceptedClock, Cmd, Comparing, Accepting, UpdateStep, Steps
<1>2. /\ SentInv' /\ WorkInv' /\ SentBy(d) /\ OthersSame(d) /\ (MarksDiffer' => MarksDiffer)
      /\ Cmd(d)'.at = "idle" /\ App(d)' = App(d) /\ sent' = sent
      /\ (Stamped(d)' <=> Stamped(d)) /\ ~Accepting(d)'
      /\ \A u \in sent : Knows(d, u)' => Knows(d, u) \/ u.id = Cmd(d).id
  BY <1>1, FinishWork
<1>3. /\ Carries(local'[d], Cmd(d)) /\ local'[d].name = local[d].name
      /\ local' \in [Devices -> Stored]
  BY <1>0, <1>1, ClockIsStored DEF StoreAcceptedClock, Cmd, Carries
<1>4. PICK u \in sent : Carries(Cmd(d), u)
  BY <1>1 DEF WorkInv, TakenOf
<1>5. ASSUME d \in Orderly PROVE ShowsOf(d)' /\ BoundsOf(d)'
  <2>1. ShowsOf(d) /\ BoundsOf(d) /\ Accepts(Cmd(d), local[d]) /\ local[d].name = Cmd(d).id
        /\ App(d).at # "store clock" /\ App(d).at # "set name"
    BY <1>1, <1>5 DEF OrderlyInv, ShowsOf, Overlap, Accepting, App, Cmd
  <2>2. ShowsOf(d)'
    BY <1>2, <1>3, <1>4, <2>1 DEF ShowsOf, Carries
  <2>3. local'[d].clock \in Clocks /\ local'[d].id \in Int
    BY <1>0, <1>1, <1>3 DEF Carries
  <2>4. ASSUME NEW v, v.clock \in Clocks, v.id \in Int, Bounds(local[d], v, MarksDiffer)
        PROVE  Bounds(local'[d], v, MarksDiffer)
    BY <1>0, <1>1, <1>3, <2>1, <2>3, <2>4, AcceptedBounds
  <2>5. ASSUME NEW v \in sent, Knows(d, v)' PROVE Bounds(local'[d], v, MarksDiffer)
    <3>1. CASE Knows(d, v)
      BY <1>s, <2>1, <2>4, <3>1 DEF BoundsOf
    <3>2. CASE v.id = Cmd(d).id
      <4>1. v = u
        BY <1>4, <3>2 DEF SentInv, Carries
      <4>2. Carries(local'[d], u)
        BY <1>3, <1>4 DEF Carries
      <4> QED BY <1>s, <4>1, <4>2, BoundsItself
    <3> QED BY <1>2, <2>5, <3>1, <3>2
  <2>6. Stamped(d) => Bounds(local'[d], App(d), MarksDiffer)
    BY <1>0, <2>1, <2>4 DEF BoundsOf, Stamped, Steps
  <2>7. BoundsOf(d)'
    BY <1>2, <2>5, <2>6 DEF BoundsOf, Bounds
  <2> QED BY <2>2, <2>7
<1>6. OrderlyInv'
  BY <1>2, <1>5, OrderlyFrom
<1> QED BY <1>2, <1>6

LEMMA ChangesStep == TypeOK /\ ChangesInv /\ [Next]_vars => ChangesInv'
<1> SUFFICES ASSUME TypeOK, ChangesInv, [Next]_vars, OnlyChanges'
             PROVE  SentInv' /\ WorkInv' /\ OrderlyInv'
  BY DEF ChangesInv
<1>1. ASSUME NEW d \in Devices, Step(d),
             overlapped' = IF Overlap(d)' THEN overlapped \union {d} ELSE overlapped
      PROVE  SentInv' /\ WorkInv' /\ OrderlyInv'
  <2>0. hellos \in Nat /\ leaves \in Nat
    BY DEF TypeOK
  <2>1. OnlyChanges
    <3>1. ChangeStep(d) => hellos' = hellos /\ leaves' = leaves
      BY DEF ChangeStep, Change, StoreChangedClock, SetChangedName, SendChange, Unmoved
    <3>2. UpdateStep(d) => hellos' = hellos /\ leaves' = leaves
      BY DEF UpdateStep, Unmoved, Receive, Refuse, Accept, SetAcceptedName,
             StoreAcceptedClock, Finish
    <3>3. ASSUME NEW t \in Threads, OtherStep(d, t) PROVE hellos' >= hellos /\ leaves' >= leaves
      <4>1. /\ hellos' = hellos \/ hellos' = hellos + 1
            /\ leaves' = leaves \/ leaves' = leaves + 1
        BY <3>3 DEF OtherStep, ReadMetaData, SendMetaData, DeleteClocks, DeleteGroup
      <4> QED BY <2>0, <4>1
    <3> QED BY <1>1, <2>0, <3>1, <3>2, <3>3 DEF Step, OnlyChanges
  <2>2. SentInv /\ WorkInv /\ OrderlyInv
    BY <2>1 DEF ChangesInv
  <2>3. ASSUME NEW t \in Threads, OtherStep(d, t) PROVE FALSE
    <3>1. job[d][t].at \notin {"read clock", "delete group"}
      BY <2>2 DEF WorkInv, App, Cmd, Threads
    <3>2. ReadMetaData(d, t) \/ DeleteClocks(d, t)
      BY <2>3, <3>1 DEF OtherStep, SendMetaData, DeleteGroup
    <3>3. hellos' = hellos + 1 \/ leaves' = leaves + 1
      BY <3>2 DEF ReadMetaData, DeleteClocks
    <3> QED BY <2>0, <3>3 DEF OnlyChanges
  <2>4. CASE ChangeStep(d)
    BY <1>1, <2>2, <2>4, ChangeKeeps, StoreChangedClockKeeps, SetChangedNameKeeps,
       SendChangeKeeps DEF ChangeStep
  <2>5. CASE UpdateStep(d)
    BY <1>1, <2>2, <2>5, ReceiveKeeps, RefuseKeeps, AcceptKeeps, SetAcceptedNameKeeps,
       StoreAcceptedClockKeeps DEF UpdateStep
  <2> QED BY <1>1, <2>3, <2>4, <2>5 DEF Step
<1>2. CASE UNCHANGED vars
  <2>1. OnlyChanges /\ SentInv /\ WorkInv /\ OrderlyInv
    BY <1>2 DEF vars, OnlyChanges, ChangesInv
  <2>2. UNCHANGED <<group, local, job, sent, got, overlapped>>
    BY <1>2 DEF vars
  <2>3. SentInv'
    BY <2>1, <2>2 DEF SentInv
  <2>4. WorkInv'
    <3>1. \A d \in Devices : App(d)' = App(d) /\ Cmd(d)' = Cmd(d)
                             /\ (Pending(d)' <=> Pending(d)) /\ (Comparing(d)' <=> Comparing(d))
      BY <2>2 DEF App, Cmd, Pending, Comparing, Accepting
    <3>2. \A d \in Devices : (PendingOf(d)' <=> PendingOf(d)) /\ (TakenOf(d)' <=> TakenOf(d))
      BY <2>2 DEF App, Cmd, PendingOf, TakenOf, Carries
    <3> QED BY <2>1, <3>1, <3>2 DEF WorkInv
  <2>5. MarksDiffer' = MarksDiffer
    BY <2>2 DEF MarksDiffer, Marks, Pending, App
  <2>6. OrderlyInv'
    BY <2>1, <2>2, <2>5
    DEF OrderlyInv, Orderly, Overlap, ShowsOf, BoundsOf, Bounds, Stamped, Accepting, Knows,
        Carries, Accepts, ResolveConflict, App, Cmd
  <2> QED BY <2>3, <2>4, <2>6
<1> QED BY <1>1, <1>2 DEF Next, Step

LEMMA ChangesAlways == Spec => [](TypeOK /\ ChangesInv)
  BY InitType, TypeStep, InitChanges, ChangesStep, PTL DEF Spec

(* With all changes everywhere, a device shows none only if there is none. *)
LEMMA ShowsAChange ==
  ASSUME TypeOK, ChangesInv, OnlyChanges, Quiet, NEW d \in Orderly
  PROVE  /\ local[d].name = local[d].id
         /\ \A u \in sent : Bounds(local[d], u, MarksDiffer)
         /\ sent = {} => local[d].id = 0
         /\ sent # {} => \E v \in sent : Carries(local[d], v)
<1>1. SentInv /\ WorkInv /\ ShowsOf(d) /\ BoundsOf(d) /\ d \in Devices
  BY DEF ChangesInv, OrderlyInv, Orderly
<1>2. App(d).at = "idle" /\ ~Stamped(d)
  <2>1. App(d) = Idle /\ Idle.at = "idle"
    BY <1>1 DEF Quiet, App, Idle
  <2> QED BY <2>1 DEF Stamped
<1>3. ~Comparing(d)
  BY <1>1 DEF WorkInv, TakenOf, Quiet
<1>4. local[d].name = local[d].id
  BY <1>1, <1>2, <1>3 DEF ShowsOf, Comparing, Accepting
<1>5. \A u \in sent : Bounds(local[d], u, MarksDiffer)
  BY <1>1 DEF BoundsOf, Knows, Quiet
<1>6. ASSUME NEW u \in sent PROVE ~Carries(local[d], Nothing)
  <2>1. SUFFICES ASSUME local[d].clock = NoClock PROVE FALSE
    BY DEF Carries, Nothing
  <2>2. u.clock \in Clocks
    BY DEF TypeOK, Update
  <2>3. SumOfValues(u.clock) > SumOfValues(NoClock)
    BY <1>1, <2>2, NoClockIsClock, SumGrows DEF SentInv
  <2>4. SumOfValues(NoClock) >= SumOfValues(u.clock)
    BY <1>5, <2>1 DEF Bounds
  <2>5. SumOfValues(u.clock) \in Nat /\ SumOfValues(NoClock) \in Nat
    BY <2>2, NoClockIsClock, SumGrows
  <2> QED BY <2>3, <2>4, <2>5
<1>7. Carries(local[d], Nothing) \/ \E v \in sent : Carries(local[d], v)
  BY <1>1, <1>2 DEF ShowsOf
<1> QED BY <1>4, <1>5, <1>6, <1>7 DEF Carries, Nothing

LEMMA ConvergedNow == TypeOK /\ ChangesInv => Converged
<1> SUFFICES ASSUME TypeOK, ChangesInv, OnlyChanges, ClocksDiffer, Quiet,
                    NEW d \in Orderly, NEW e \in Orderly
             PROVE  local[d].name = local[e].name
  BY DEF Converged
<1>1. CASE sent = {}
  BY <1>1, ShowsAChange
<1>2. CASE sent # {}
  <2>1. PICK u \in sent : Carries(local[d], u)
    BY <1>2, ShowsAChange
  <2>2. PICK v \in sent : Carries(local[e], v)
    BY <1>2, ShowsAChange
  <2>3. MarksDiffer
    <3>1. ASSUME NEW x \in Devices PROVE ~Pending(x)
      <4>1. App(x) = Idle /\ Idle.at = "idle"
        BY DEF Quiet, App, Idle
      <4> QED BY <4>1 DEF Pending
    <3>2. Marks = {<<w.clock, w.id>> : w \in sent}
      BY <3>1 DEF Marks
    <3> QED BY <3>2 DEF MarksDiffer, ClocksDiffer
  <2>4. Bounds(local[d], v, TRUE) /\ Bounds(local[e], u, TRUE)
    BY <2>3, ShowsAChange DEF Bounds
  <2>5. /\ SumOfValues(u.clock) \in Nat /\ SumOfValues(v.clock) \in Nat
        /\ u.id \in Int /\ v.id \in Int
    BY SumGrows DEF TypeOK, Update, Ids
  <2>6. u.id = v.id
    BY <2>1, <2>2, <2>4, <2>5 DEF Bounds, Carries
  <2> QED BY <2>1, <2>2, <2>6, ShowsAChange DEF Carries
<1> QED BY <1>1, <1>2

(* The orderly devices converge, whatever their number and that of the       *)
(* changes, those of other devices included, whatever the order in which the *)
(* change sets reach each of them, and whatever the two threads of each do   *)
(* at the same time.                                                         *)
THEOREM Converges == Spec => []Converged
  BY ChangesAlways, ConvergedNow, PTL

LEMMA LatestWinsNow == TypeOK /\ ChangesInv => LatestWins
<1> SUFFICES ASSUME TypeOK, ChangesInv, OnlyChanges, Quiet, NEW u \in sent,
                    \A v \in sent \ {u} : After(u.clock, v.clock), NEW d \in Orderly
             PROVE  local[d].name = u.name
  BY DEF LatestWins
<1>1. PICK v \in sent : Carries(local[d], v)
  BY ShowsAChange
<1>2. v = u
  <2>1. SUFFICES ASSUME After(u.clock, v.clock) PROVE FALSE
    OBVIOUS
  <2>2. u.clock \in Clocks /\ v.clock \in Clocks
    BY DEF TypeOK, Update
  <2>3. SumOfValues(v.clock) >= SumOfValues(u.clock)
    BY <1>1, ShowsAChange DEF Bounds, Carries
  <2> QED BY <2>1, <2>2, <2>3, SumGrows
<1>3. u.name = u.id
  BY DEF ChangesInv, SentInv
<1> QED BY <1>1, <1>2, <1>3, ShowsAChange DEF Carries

(* A change that was made in knowledge of all the others wins on every     *)
(* orderly device, also when two of the others carry the same clock.       *)
THEOREM LatestWinsEverywhere == Spec => []LatestWins
  BY ChangesAlways, LatestWinsNow, PTL
=============================================================================
