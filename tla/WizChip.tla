------------------------------ MODULE WizChip ------------------------------
(***************************************************************************)
(* The WIZnet W5100S / W5500 Ethernet chip as the driver sees it over SPI: *)
(* the reset line, socket 0 in MACRAW mode with its receive buffer, the    *)
(* RECV bit of the socket's interrupt register and the INTN line.  The     *)
(* chip and ioLibrary are not part of the repository: everything here is   *)
(* read off the calls the driver makes to them.                            *)
(***************************************************************************)
EXTENDS Naturals, Sequences

CONSTANTS
  RxCap,      \* frames the socket's receive buffer holds
  MaxFrames   \* bound: frames the network delivers in a behaviour

ASSUME ChipAssumption == RxCap \in Nat \ {0} /\ MaxFrames \in Nat

VARIABLES
  held,       \* RSTN is driven low: the chip is in reset
  sockOpen,   \* socket 0 is open in MACRAW mode
  unmasked,   \* IMR, Sn_IMR and the interrupt pin are enabled
  recvIr,     \* the RECV bit of Sn_IR
  rx,         \* frames in the receive buffer, oldest first
  arrived     \* frames the network has delivered so far

chipVars == <<held, sockOpen, unmasked, recvIr, rx, arrived>>

\* What a frame buffer holds: a frame from the network, by number, or the
\* frame a sender is transmitting.
RxFrame(n) == <<"rx", n>>
TxFrame(s) == <<"tx", s>>

ChipInit ==
  /\ held = FALSE /\ sockOpen = FALSE /\ unmasked = FALSE
  /\ recvIr = FALSE /\ rx = <<>> /\ arrived = 0

\* INTN is active low and has a pull-up.
IntnLow == recvIr /\ unmasked

\* A frame reaches socket 0; a full buffer loses it without an interrupt.
FrameArrives ==
  /\ sockOpen /\ ~held /\ arrived < MaxFrames
  /\ arrived' = arrived + 1
  /\ IF Len(rx) < RxCap
       THEN rx' = Append(rx, RxFrame(arrived + 1)) /\ recvIr' = TRUE
       ELSE UNCHANGED <<rx, recvIr>>
  /\ UNCHANGED <<held, sockOpen, unmasked>>

\* Driving RSTN low puts every register back to its reset value.
HoldReset ==
  /\ held' = TRUE /\ sockOpen' = FALSE /\ unmasked' = FALSE
  /\ recvIr' = FALSE /\ rx' = <<>>
  /\ UNCHANGED arrived

ReleaseReset ==
  /\ held' = FALSE
  /\ UNCHANGED <<sockOpen, unmasked, recvIr, rx, arrived>>

EnableInterrupts ==
  /\ unmasked' = TRUE
  /\ UNCHANGED <<held, sockOpen, recvIr, rx, arrived>>

\* socket() closes socket 0, dropping what it holds, and opens it again.
OpenSocket(ok) ==
  /\ sockOpen' = ok /\ recvIr' = FALSE /\ rx' = <<>>
  /\ UNCHANGED <<held, unmasked, arrived>>

\* recvfrom() of a good frame.
TakeFrame ==
  /\ rx' = Tail(rx)
  /\ UNCHANGED <<held, sockOpen, unmasked, recvIr, arrived>>

\* recvfrom() fails: the socket stays as it was, or a fatal length error
\* closes it.
FailFrame ==
  /\ \/ UNCHANGED <<sockOpen, rx, recvIr>>
     \/ sockOpen' = FALSE /\ rx' = <<>> /\ recvIr' = FALSE
  /\ UNCHANGED <<held, unmasked, arrived>>

\* Writing RECV to Sn_IR clears the bit, whatever the buffer still holds.
ClearRecv ==
  /\ recvIr' = FALSE
  /\ UNCHANGED <<held, sockOpen, unmasked, rx, arrived>>

ChipTypeOK ==
  /\ held \in BOOLEAN /\ sockOpen \in BOOLEAN /\ unmasked \in BOOLEAN
  /\ recvIr \in BOOLEAN
  /\ arrived \in Nat
  /\ rx \in Seq({"rx"} \X Nat)
=============================================================================
