------------------------------ MODULE W5x00Spi ------------------------------
(***************************************************************************)
(* w5x00_spi.c: claiming and releasing the two DMA channels, and the byte  *)
(* and burst transfers that ioLibrary makes through the driver.  Transfers *)
(* are made under the driver's lock, so there is one at a time; claims     *)
(* compete with the application's.                                         *)
(***************************************************************************)
EXTENDS DmaSpi

CONSTANT MaxLen    \* bound: bytes of a burst (the argument is a uint16_t)

ASSUME LenAssumption == MaxLen \in Nat \ {0}

VARIABLES
  tx, rx,      \* w5x00_state.dma_tx and dma_rx
  forgotten,   \* history: claimed channels that dma_tx, dma_rx stopped naming
  kind, len,   \* the last transfer: read or write, and of how many bytes
  busy         \* a burst function waits for its transfer

claimVars == <<user, tx, rx, forgotten>>
burstVars == <<kind, len, busy>>
spiVars == <<dmaVars, claimVars, burstVars>>

Named == {tx, rx} \ {NoChannel}

SpiInit ==
  /\ DmaInit
  /\ tx = NoChannel /\ rx = NoChannel /\ forgotten = {}
  /\ kind = "none" /\ len = 0 /\ busy = FALSE

----------------------------------------------------------------------------
\* dma_tx and dma_rx become -1 without a release of what they named.
Forget == forgotten' = forgotten \cup Named

\* w5x00_spi_init sets both to -1 and claims the outbound channel ...
SpiClaimTx ==
  /\ Forget
  /\ rx' = NoChannel
  /\ \E c \in Channels \cup {NoChannel} : ClaimUnused(c) /\ tx' = c

\* ... and then the inbound one.
SpiClaimRx ==
  /\ \E c \in Channels \cup {NoChannel} : ClaimUnused(c) /\ rx' = c
  /\ UNCHANGED <<tx, forgotten>>

\* Mutant: the inbound channel is not unclaimed.
SpiDeinitTxOnly ==
  /\ Unclaim({tx} \ {NoChannel})
  /\ tx' = NoChannel /\ rx' = NoChannel
  /\ UNCHANGED forgotten

\* Mutant: -1 is not tested for.
SpiDeinitUnguarded ==
  /\ Unclaim({tx, rx})
  /\ tx' = NoChannel /\ rx' = NoChannel
  /\ UNCHANGED forgotten

\* w5x00_spi_deinit releases what dma_tx and dma_rx name.
SpiDeinit ==
  /\ Unclaim(Named)
  /\ tx' = NoChannel /\ rx' = NoChannel
  /\ UNCHANGED forgotten

----------------------------------------------------------------------------
Begin(k, n) == ~busy /\ busy' = TRUE /\ kind' = k /\ len' = n

\* w5x00_spi_read_burst: one dummy byte goes out again and again, the answers
\* go to consecutive addresses.
ReadBurst(n) ==
  /\ Begin("read", n)
  /\ Start(Transfer("dummy", FALSE, n), Transfer("buf", TRUE, n))

\* Mutant: the inbound configuration is the one the last burst left.
WriteBurstStale(n) ==
  /\ Begin("write", n)
  /\ Start(Transfer("buf", TRUE, n), Transfer("dummy", in.inc, n))

\* Mutant: the inbound transfer waits for one byte too many.
WriteBurstLong(n) ==
  /\ Begin("write", n)
  /\ Start(Transfer("buf", TRUE, n), Transfer("dummy", FALSE, n + 1))

\* w5x00_spi_write_burst: the other way round, the answers fall on one byte.
WriteBurst(n) ==
  /\ Begin("write", n)
  /\ Start(Transfer("buf", TRUE, n), Transfer("dummy", FALSE, n))

\* Mutant: the outbound channel is waited for.
BurstReturnEarly ==
  /\ busy /\ ~Busy(out)
  /\ busy' = FALSE
  /\ UNCHANGED <<dmaVars, user, kind, len>>

\* Both functions return when the inbound channel is done.  There is no limit
\* on how long they wait.
BurstReturn ==
  /\ busy /\ ~Busy(in)
  /\ busy' = FALSE
  /\ UNCHANGED <<dmaVars, user, kind, len>>

\* w5x00_spi_read and w5x00_spi_write leave the DMA alone: the SDK exchanges a
\* byte and takes the first answer there is, or drops all answers.
ReadByte ==
  /\ ~busy /\ kind' = "read" /\ len' = 1
  /\ sent' = <<<<"dummy", 0>>>>
  /\ stored' = <<<<"buf", 0, Head(Append(rxFifo, 1))>>>>
  /\ rxFifo' = Tail(Append(rxFifo, 1)) /\ lost' = 0
  /\ UNCHANGED <<user, out, in, txFifo, busy>>

WriteByte ==
  /\ ~busy /\ kind' = "write" /\ len' = 1
  /\ sent' = <<<<"buf", 0>>>> /\ stored' = <<>>
  /\ rxFifo' = <<>> /\ lost' = 0
  /\ UNCHANGED <<user, out, in, txFifo, busy>>

\* ioLibrary's use of the four callbacks.
Exchange ==
  \/ \E n \in 0..MaxLen : ReadBurst(n) \/ WriteBurst(n)
  \/ ReadByte \/ WriteByte

\* A transfer runs on without the driver.
TransferStep == DmaOut \/ Shift \/ DmaIn

SpiTypeOK ==
  /\ DmaTypeOK
  /\ tx \in Channels \cup {NoChannel} /\ rx \in Channels \cup {NoChannel}
  /\ forgotten \subseteq Channels
  /\ kind \in {"none", "read", "write"} /\ len \in 0..MaxLen /\ busy \in BOOLEAN
=============================================================================
