--------------------------- MODULE FrameDelivery ---------------------------
(***************************************************************************)
(* What the receive path promises: a lossy FIFO.  Frames may be lost (full *)
(* buffer, link down, no pbuf, reset) but never duplicated, reordered,     *)
(* changed or made up, however the shared frame buffer is used meanwhile.  *)
(***************************************************************************)
EXTENDS Naturals, Sequences

CONSTANT Frame(_)          \* the n-th frame the network delivers

VARIABLES
  sent,        \* frames the network has delivered to the chip
  inFlight,    \* those neither lost nor given to lwIP, in order
  delivered    \* those given to lwIP, in order

fifoVars == <<sent, inFlight, delivered>>

Init == sent = 0 /\ inFlight = <<>> /\ delivered = <<>>

Arrive ==
  /\ sent' = sent + 1
  /\ inFlight' \in {inFlight, Append(inFlight, Frame(sent + 1))}
  /\ UNCHANGED delivered

\* The oldest frame goes to lwIP.
Deliver ==
  /\ inFlight # <<>>
  /\ delivered' = Append(delivered, Head(inFlight))
  /\ inFlight' = Tail(inFlight)
  /\ UNCHANGED sent

\* The oldest frame is lost, or all of them are.
Lose ==
  /\ inFlight # <<>>
  /\ inFlight' \in {Tail(inFlight), <<>>}
  /\ UNCHANGED <<sent, delivered>>

Next == Arrive \/ Deliver \/ Lose

Spec == Init /\ [][Next]_fifoVars
=============================================================================
