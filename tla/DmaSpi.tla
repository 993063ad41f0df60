------------------------------- MODULE DmaSpi -------------------------------
(***************************************************************************)
(* The RP2040's DMA channels and its SPI port as w5x00_spi.c uses them: a  *)
(* pool of channels that the driver shares with the application, and an    *)
(* outbound and an inbound transfer, paced by the port's two FIFOs.  The   *)
(* hardware and the SDK are not part of the repository.                    *)
(*                                                                         *)
(* A byte is known by where it comes from: the outbound one by its         *)
(* address, the chip's answer by its number in the burst.                  *)
(***************************************************************************)
EXTENDS Naturals, Sequences

CONSTANTS
  Channels,    \* the DMA channels
  NoChannel,   \* -1
  FifoDepth    \* entries of each FIFO of the SPI port

ASSUME DmaAssumption == NoChannel \notin Channels /\ FifoDepth \in Nat \ {0}

VARIABLES
  user,     \* who has claimed each channel: free, driver or app
  out, in,  \* the two transfers: region, increment, length, elements done
  txFifo,   \* addresses of the bytes waiting to be shifted out
  rxFifo,   \* answers waiting to be stored
  sent,     \* history: addresses of the bytes shifted out since the burst began
  stored,   \* history: where each answer was stored
  lost      \* answers lost to a full FIFO since the burst began

poolVars == <<user>>
dmaVars == <<out, in, txFifo, rxFifo, sent, stored, lost>>

\* A transfer touches the caller's buffer or a one-byte local variable.
Regions == {"buf", "dummy"}
Transfer(at, inc, n) == [at |-> at, inc |-> inc, len |-> n, done |-> 0]
Offset(dma) == IF dma.inc THEN dma.done ELSE 0
Busy(dma) == dma.done < dma.len

DmaInit ==
  /\ user = [c \in Channels |-> "free"]
  /\ out = Transfer("dummy", FALSE, 0) /\ in = Transfer("buf", TRUE, 0)
  /\ txFifo = <<>> /\ rxFifo = <<>>
  /\ sent = <<>> /\ stored = <<>> /\ lost = 0

Free == {c \in Channels : user[c] = "free"}

\* dma_claim_unused_channel(false) returns a free channel, or -1.
ClaimUnused(c) ==
  \/ c \in Free /\ user' = [user EXCEPT ![c] = "driver"]
  \/ c = NoChannel /\ Free = {} /\ UNCHANGED user

\* dma_channel_unclaim of each of cs, which had better be channels.
Unclaim(cs) ==
  user' = [c \in Channels \cup cs |-> IF c \in cs THEN "free" ELSE user[c]]

\* The application, on either core, claims and releases channels of its own.
AppClaim ==
  /\ \E c \in Free : user' = [user EXCEPT ![c] = "app"]
  /\ UNCHANGED dmaVars

AppRelease ==
  /\ \E c \in Channels : user[c] = "app" /\ user' = [user EXCEPT ![c] = "free"]
  /\ UNCHANGED dmaVars

\* The outbound channel fills the port's FIFO from memory.
DmaOut ==
  /\ Busy(out) /\ Len(txFifo) < FifoDepth
  /\ txFifo' = Append(txFifo, <<out.at, Offset(out)>>)
  /\ out' = [out EXCEPT !.done = @ + 1]
  /\ UNCHANGED <<user, in, rxFifo, sent, stored, lost>>

\* The port exchanges a byte with the chip; an answer that finds its FIFO full
\* is lost.
Shift ==
  /\ txFifo # <<>>
  /\ txFifo' = Tail(txFifo)
  /\ sent' = Append(sent, Head(txFifo))
  /\ IF Len(rxFifo) < FifoDepth
       THEN rxFifo' = Append(rxFifo, Len(sent) + 1) /\ UNCHANGED lost
       ELSE lost' = lost + 1 /\ UNCHANGED rxFifo
  /\ UNCHANGED <<user, out, in, stored>>

\* The inbound channel empties the other FIFO into memory.
DmaIn ==
  /\ Busy(in) /\ rxFifo # <<>>
  /\ stored' = Append(stored, <<in.at, Offset(in), Head(rxFifo)>>)
  /\ rxFifo' = Tail(rxFifo)
  /\ in' = [in EXCEPT !.done = @ + 1]
  /\ UNCHANGED <<user, out, txFifo, sent, lost>>

\* dma_start_channel_mask on both transfers at once.
Start(o, i) ==
  /\ out' = o /\ in' = i
  /\ sent' = <<>> /\ stored' = <<>> /\ lost' = 0
  /\ UNCHANGED <<user, txFifo, rxFifo>>

Transfers == [at : Regions, inc : BOOLEAN, len : Nat, done : Nat]
DmaTypeOK ==
  /\ user \in [Channels -> {"free", "driver", "app"}]
  /\ out \in Transfers /\ in \in Transfers
  /\ txFifo \in Seq(Regions \X Nat) /\ rxFifo \in Seq(Nat)
  /\ sent \in Seq(Regions \X Nat) /\ stored \in Seq(Regions \X Nat \X Nat)
  /\ lost \in Nat
=============================================================================
