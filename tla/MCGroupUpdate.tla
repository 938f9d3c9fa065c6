---------------------------- MODULE MCGroupUpdate ----------------------------
(* Devices are alike, and so are users; and the part of the behaviours that *)
(* run GroupUpdate looks at.                                                *)
EXTENDS GroupUpdate, TLC

Symmetry == Permutations(Devices) \union Permutations(Users)

(* Two failures; or old records dropped once, with at most one message that *)
(* is lost.                                                                 *)
FailuresOrAge == cleanings = 0 \/ (cleanings = 1 /\ crashes + leaves + errors = 0)
=============================================================================
