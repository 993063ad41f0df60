------------------------ MODULE W5x00DeliveryProofs ------------------------
(***************************************************************************)
(* What a lossy FIFO is worth to lwIP: the frames it is given are those    *)
(* the network delivered, each at most once and in order.  The argument is *)
(* about FrameDelivery alone; that the driver implements it is             *)
(* ReceivesInOrder of W5x00DriverTheorems.                                 *)
(***************************************************************************)
EXTENDS W5x00DriverTheorems

\* The frames given to lwIP come before those in flight, and both are in order.
OrderInv ==
  /\ DeliveredInOrder
  /\ Genuine(InFlight) /\ Rising(InFlight)
  /\ \A i \in 1..Len(delivered), j \in 1..Len(InFlight) :
       delivered[i][2] < InFlight[j][2]

\* The frames in flight, and those delivered, are sequences of frames.
LEMMA FramesTyped ==
  ASSUME ChipTypeOK, BufferTypeOK
  PROVE  InFlight \in Seq(Frames) /\ delivered \in Seq(Frames) /\ arrived \in Nat
<1>1. rx \in Seq(Frames) /\ ethFrame \in Frames
  BY RxFrames
<1>2. <<ethFrame>> \o rx \in Seq(Frames)
  BY <1>1
<1> QED
  BY <1>1, <1>2 DEF InFlight, ChipTypeOK, BufferTypeOK

\* Without its head a sequence keeps its order.
LEMMA TailElements ==
  ASSUME NEW S, NEW s \in Seq(S), s # <<>>
  PROVE  /\ Len(s) \in Nat /\ Len(s) > 0 /\ Head(s) = s[1]
         /\ Len(Tail(s)) = Len(s) - 1
         /\ \A i \in 1..Len(Tail(s)) : Tail(s)[i] = s[i + 1]
OBVIOUS

\* One frame at the end of a sequence.
LEMMA AppendElements ==
  ASSUME NEW S, NEW s \in Seq(S), NEW e
  PROVE  /\ Len(s) \in Nat /\ Len(Append(s, e)) = Len(s) + 1
         /\ \A i \in 1..Len(s) : Append(s, e)[i] = s[i]
         /\ Append(s, e)[Len(s) + 1] = e
OBVIOUS

\* A frame that arrives is later than all that came before it.
LEMMA ArriveOrder ==
  ASSUME ChipTypeOK, BufferTypeOK, OrderInv, Fifo!Arrive
  PROVE  OrderInv'
<1> USE DEF OrderInv, DeliveredInOrder, Genuine, Rising
<1>1. /\ InFlight \in Seq(Frames) /\ arrived \in Nat
      /\ Len(delivered) \in Nat /\ Len(InFlight) \in Nat
      /\ arrived' = arrived + 1 /\ delivered' = delivered
  BY FramesTyped DEF Fifo!Arrive
<1>2. CASE InFlight' = InFlight
  BY <1>1, <1>2
<1>3. CASE InFlight' = Append(InFlight, RxFrame(arrived + 1))
  <2>1. /\ Len(InFlight') = Len(InFlight) + 1
        /\ \A i \in 1..Len(InFlight) : InFlight'[i] = InFlight[i]
        /\ InFlight'[Len(InFlight) + 1] = RxFrame(arrived + 1)
    BY <1>1, <1>3, AppendElements
  <2>2. /\ InFlight'[Len(InFlight) + 1][1] = "rx"
        /\ InFlight'[Len(InFlight) + 1][2] = arrived + 1
    BY <2>1 DEF RxFrame
  <2>3. \A i \in 1..Len(InFlight) : InFlight'[i][2] \in 1..arrived
    BY <2>1
  <2>4. \A i \in 1..Len(delivered) : delivered[i][2] \in 1..arrived
    OBVIOUS
  <2>5. \A j \in 1..Len(InFlight') :
          j \in 1..Len(InFlight) \/ j = Len(InFlight) + 1
    BY <1>1, <2>1
  <2>6. DeliveredInOrder'
    BY <1>1
  <2>7. Genuine(InFlight)' /\ Rising(InFlight)'
    <3>1. ASSUME NEW j \in 1..Len(InFlight')
          PROVE  InFlight'[j][1] = "rx" /\ InFlight'[j][2] \in 1..arrived + 1
      BY <1>1, <2>1, <2>2, <2>3, <2>5
    <3>2. ASSUME NEW i \in 1..Len(InFlight'), NEW j \in 1..Len(InFlight'), i < j
          PROVE  InFlight'[i][2] < InFlight'[j][2]
      <4>1. i \in 1..Len(InFlight)
        BY <1>1, <2>1, <3>2
      <4>2. CASE j \in 1..Len(InFlight)
        BY <2>1, <3>2, <4>1, <4>2
      <4>3. CASE j = Len(InFlight) + 1
        BY <1>1, <2>2, <2>3, <4>1, <4>3
      <4> QED
        BY <2>5, <4>2, <4>3
    <3> QED
      BY <1>1, <3>1, <3>2
  <2>8. \A i \in 1..Len(delivered'), j \in 1..Len(InFlight') :
          delivered'[i][2] < InFlight'[j][2]
    BY <1>1, <2>1, <2>2, <2>4, <2>5
  <2> QED
    BY <2>6, <2>7, <2>8
<1> QED
  BY <1>2, <1>3 DEF Fifo!Arrive

\* The frame given to lwIP is later than those it was given, earlier than those
\* left.
LEMMA DeliverOrder ==
  ASSUME ChipTypeOK, BufferTypeOK, OrderInv, Fifo!Deliver
  PROVE  OrderInv'
<1> USE DEF OrderInv, DeliveredInOrder, Genuine, Rising
<1>1. /\ InFlight \in Seq(Frames) /\ delivered \in Seq(Frames)
      /\ InFlight # <<>>
      /\ delivered' = Append(delivered, Head(InFlight))
      /\ InFlight' = Tail(InFlight) /\ arrived' = arrived
  BY FramesTyped DEF Fifo!Deliver
<1>2. /\ Len(InFlight) \in Nat /\ Len(InFlight) > 0
      /\ Head(InFlight) = InFlight[1]
      /\ Len(InFlight') = Len(InFlight) - 1
      /\ \A i \in 1..Len(InFlight') : InFlight'[i] = InFlight[i + 1]
  BY <1>1, TailElements
<1>3. /\ Len(delivered) \in Nat /\ Len(delivered') = Len(delivered) + 1
      /\ \A i \in 1..Len(delivered) : delivered'[i] = delivered[i]
      /\ delivered'[Len(delivered) + 1] = InFlight[1]
  BY <1>1, <1>2, AppendElements
<1>4. \A i \in 1..Len(delivered') :
        i \in 1..Len(delivered) \/ i = Len(delivered) + 1
  BY <1>3
<1>5. 1 \in 1..Len(InFlight)
  BY <1>2
<1>6. \A i \in 1..Len(InFlight') : i + 1 \in 1..Len(InFlight) /\ 1 < i + 1
  BY <1>2
<1>7. DeliveredInOrder'
  <2>1. Genuine(delivered)'
    BY <1>1, <1>3, <1>4, <1>5
  <2>2. Rising(delivered)'
    BY <1>3, <1>4, <1>5
  <2> QED
    BY <2>1, <2>2
<1>8. Genuine(InFlight)' /\ Rising(InFlight)'
  BY <1>1, <1>2, <1>6
<1>9. \A i \in 1..Len(delivered'), j \in 1..Len(InFlight') :
        delivered'[i][2] < InFlight'[j][2]
  BY <1>2, <1>3, <1>4, <1>5, <1>6
<1> QED
  BY <1>7, <1>8, <1>9

\* What is lost leaves no trace.
LEMMA LoseOrder ==
  ASSUME ChipTypeOK, BufferTypeOK, OrderInv, Fifo!Lose
  PROVE  OrderInv'
<1> USE DEF OrderInv, DeliveredInOrder, Genuine, Rising
<1>1. /\ InFlight \in Seq(Frames) /\ InFlight # <<>>
      /\ arrived' = arrived /\ delivered' = delivered
  BY FramesTyped DEF Fifo!Lose
<1>2. CASE InFlight' = Tail(InFlight)
  <2>1. /\ Len(InFlight) \in Nat
        /\ Len(InFlight') = Len(InFlight) - 1
        /\ \A i \in 1..Len(InFlight') : InFlight'[i] = InFlight[i + 1]
    BY <1>1, <1>2, TailElements
  <2>2. \A i \in 1..Len(InFlight') : i + 1 \in 1..Len(InFlight)
    BY <2>1
  <2>3. DeliveredInOrder'
    BY <1>1
  <2>4. Genuine(InFlight)' /\ Rising(InFlight)'
    <3>1. ASSUME NEW i \in 1..Len(InFlight')
          PROVE  InFlight'[i][1] = "rx" /\ InFlight'[i][2] \in 1..arrived
      BY <2>1, <2>2
    <3>2. ASSUME NEW i \in 1..Len(InFlight'), NEW j \in 1..Len(InFlight'), i < j
          PROVE  InFlight'[i][2] < InFlight'[j][2]
      <4>1. InFlight'[i] = InFlight[i + 1] /\ InFlight'[j] = InFlight[j + 1]
        BY <2>1
      <4>2. /\ i + 1 \in 1..Len(InFlight) /\ j + 1 \in 1..Len(InFlight)
            /\ i + 1 < j + 1
        BY <2>1, <2>2, <3>2
      <4> QED
        BY <4>1, <4>2
    <3> QED
      BY <1>1, <3>1, <3>2
  <2>5. \A i \in 1..Len(delivered'), j \in 1..Len(InFlight') :
          delivered'[i][2] < InFlight'[j][2]
    BY <1>1, <2>1, <2>2
  <2> QED
    BY <2>3, <2>4, <2>5
<1>3. CASE InFlight' = <<>>
  <2>1. Len(InFlight') = 0
    BY <1>3
  <2> QED
    BY <1>1, <2>1
<1> QED
  BY <1>2, <1>3 DEF Fifo!Lose

\* lwIP is given what the network sent, each frame once at most and in order:
\* eth_frame, the chip's buffer and the resets between them repeat nothing.
THEOREM FramesInOrder ==
  ASSUME DisableLocked PROVE Spec => []DeliveredInOrder
<1>1. Init => OrderInv
  <2> SUFFICES ASSUME Init PROVE OrderInv
    OBVIOUS
  <2>1. Len(delivered) = 0 /\ Len(InFlight) = 0
    BY DEF Init, ChipInit, InFlight
  <2> QED
    BY <2>1 DEF OrderInv, DeliveredInOrder, Genuine, Rising
<1>2. /\ ChipTypeOK /\ BufferTypeOK /\ OrderInv
      /\ [Fifo!Next]_<<arrived, InFlight, delivered>>
      => OrderInv'
  BY ArriveOrder, DeliverOrder, LoseOrder
     DEF Fifo!Next, OrderInv, DeliveredInOrder, Genuine, Rising
<1>3. Inductive => ChipTypeOK /\ BufferTypeOK
  BY DEF Inductive, TypeOK
<1>4. OrderInv => DeliveredInOrder
  BY DEF OrderInv
<1> QED
  BY <1>1, <1>2, <1>3, <1>4, ReceivesInOrder, InductiveInvariant, PTL
     DEF Spec, LossyFifo, Fifo!Spec, Fifo!fifoVars
=============================================================================
