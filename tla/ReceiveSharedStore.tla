------------------------- MODULE ReceiveSharedStore -------------------------
(***************************************************************************)
(* ZinaReceive together with a further user of the same connection: an     *)
(* application thread that changes the members of a group.  insertMember,  *)
(* deleteMember and deleteAllMembers each run BEGIN, two statements on the *)
(* group tables, and COMMIT, or ROLLBACK when a statement failed.  The     *)
(* group tables are not those of ZinaReceive, the transaction is.          *)
(***************************************************************************)
EXTENDS ZinaReceive

CONSTANT MaxGroupOps   \* bound: member changes of the application thread

ASSUME GroupAssumption == MaxGroupOps \in Nat

VARIABLES
  grp,       \* the application thread: outside or inside its transaction
  groupOps

groupVars == <<grp, groupOps>>
sharedVars == <<vars, groupVars>>

SharedInit == Init /\ grp = "idle" /\ groupOps = 0

GroupBegin ==
  /\ grp = "idle"
  /\ groupOps < MaxGroupOps
  /\ BeginTransaction
  /\ grp' = "inside"
  /\ groupOps' = groupOps + 1
  /\ UNCHANGED <<threads, outcome, counts>>

GroupCommit ==
  /\ grp = "inside"
  /\ CommitTransaction
  /\ grp' = "idle"
  /\ UNCHANGED <<threads, outcome, counts, groupOps>>

GroupRollback ==
  /\ grp = "inside"
  /\ Fault
  /\ RollbackTransaction
  /\ grp' = "idle"
  /\ UNCHANGED <<threads, outcome, groupOps>>

SharedCrash == Crash /\ grp' = "idle" /\ UNCHANGED groupOps

SharedNext ==
  \/ (Network \/ Process \/ Application) /\ UNCHANGED groupVars
  \/ GroupBegin \/ GroupCommit \/ GroupRollback
  \/ SharedCrash

SharedSpec == SharedInit /\ [][SharedNext]_sharedVars

SharedFairSpec ==
  /\ SharedSpec
  /\ WF_sharedVars(Process /\ UNCHANGED groupVars)
  /\ WF_sharedVars((ReceiveGetSequence \/ ReceiveEnqueue) /\ UNCHANGED groupVars)
=============================================================================
