-------------------------- MODULE MCGroupAttribute --------------------------
(* The devices of the group are alike.                                     *)
EXTENDS GroupAttribute, TLC

CONSTANTS MaxInterleaved  \* bound: changes in any interleaving

Symmetry == Permutations(Devices)

Working == {w \in Devices \X Threads : job[w[1]][w[2]] # Idle}

OneAtATime == Cardinality(Working) <= 1

(* Any interleaving of a few events (of one more, if all are changes), and *)
(* more events one after the other.                                        *)
FewOverlap ==
  \/ Events < MaxInterleaved
  \/ Events = MaxInterleaved /\ (OnlyChanges \/ OneAtATime)
  \/ OnlyChanges /\ OneAtATime /\ overlapped = {}

(* A part of the behaviours: nothing but changes, one after the other,     *)
(* whose ids grow with the sum of their clocks, and two changes at most    *)
(* with the same sum.                                                      *)
FewIds ==
  /\ OnlyChanges
  /\ OneAtATime
  /\ \A u \in sent \union {job[w[1]][w[2]] : w \in Working} :
       u.id \in {2 * SumOfValues(u.clock) - 1, 2 * SumOfValues(u.clock)}
=============================================================================
