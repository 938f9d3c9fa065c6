---------------------------- MODULE MCZinaReceive ----------------------------
(* The part of the behaviours that run ReceiveCrash looks at.               *)
EXTENDS ZinaReceive

(* Two envelopes and one failed statement or death of the process, or one   *)
(* envelope and any troubles.  Neither an arrival nor a trouble is fair, so *)
(* that no fair behaviour is cut off in the middle.                         *)
TrafficOrTroubles == receives <= 1 \/ faults + crashes <= 1
=============================================================================
