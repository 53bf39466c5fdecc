----------------------------- MODULE LossyFifo -----------------------------
(***************************************************************************)
(* What a listener may rely on: the frames that are heard are among those  *)
(* sent, in the order they were sent, none twice; some may be missing.     *)
(***************************************************************************)
EXTENDS Naturals

VARIABLES
  newest, \* number of frames sent
  last    \* the frame heard last, 0 if none was

Init == newest = 0 /\ last = 0

Send == newest' = newest + 1 /\ UNCHANGED last

Hear == last' \in (last + 1)..newest /\ UNCHANGED newest

Next == Send \/ Hear

Spec == Init /\ [][Next]_<<newest, last>>
=============================================================================
