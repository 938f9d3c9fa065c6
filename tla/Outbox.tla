------------------------------- MODULE Outbox -------------------------------
(***************************************************************************)
(* What sendAxoMessage promises its caller: a message that was queued is   *)
(* handed to the network once, after all messages queued before it.        *)
(***************************************************************************)
EXTENDS Naturals, Sequences

CONSTANT Messages

VARIABLES
  waiting,  \* queued, in order
  handed    \* handed to the network or refused by it, in order

boxVars == <<waiting, handed>>

Init == waiting = <<>> /\ handed = <<>>

Queue(m) ==
  /\ waiting' = Append(waiting, m)
  /\ UNCHANGED handed

HandOver ==
  /\ waiting # <<>>
  /\ handed' = Append(handed, Head(waiting))
  /\ waiting' = Tail(waiting)

Next == HandOver \/ \E m \in Messages : Queue(m)

Spec == Init /\ [][Next]_boxVars
=============================================================================
