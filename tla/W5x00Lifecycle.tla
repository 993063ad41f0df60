--------------------------- MODULE W5x00Lifecycle ---------------------------
(***************************************************************************)
(* What the driver holds from w5x00_arch_init to w5x00_arch_deinit: the    *)
(* async_context it runs in, its DMA channels, and the MAC address that    *)
(* chip, driver and netif must share.  The application has contexts and    *)
(* DMA channels of its own and acts between any two steps.                 *)
(*                                                                         *)
(* The interleaving of calls, interrupt and poll is W5x00Driver's; here    *)
(* calls follow each other.                                                *)
(***************************************************************************)
EXTENDS W5x00Spi

CONSTANTS
  BoardId,     \* bytes 2 to 7 of the board's unique id
  ResetShar    \* what the chip's SHAR may hold after a reset

\* A MAC address is a number, its first byte the lowest.
ASSUME MacAssumption == BoardId \in Nat /\ ResetShar \subseteq Nat

VARIABLES
  phase,      \* where the driver is
  live,       \* the async_contexts that are initialised
  arch,       \* w5x00_arch.c's async_context
  drv,        \* w5x00_driver.c's w5x00_async_context
  workers,    \* the contexts that hold the driver's poll worker
  mac,        \* w5x00_state.mac
  shar,       \* the chip's hardware address register, which filters frames
  hwaddr,     \* netif.hwaddr
  listed      \* the netif is in lwIP's list

contextVars == <<live, arch, drv, workers>>
macVars == <<mac, shar, hwaddr, listed>>
vars == <<spiVars, phase, contextVars, macVars>>

\* undo: lwIP's part of w5x00_arch_init has failed; on: w5x00_poll is NULL.
Phases == {"off", "undo", "on", "claim_tx", "claim_rx", "config", "up"}
Contexts == {"own", "app"}

Init ==
  /\ SpiInit
  /\ phase = "off" /\ live = {} /\ arch = "none" /\ drv = "none"
  /\ workers = {}
  /\ mac = 0 /\ shar = 0 /\ hwaddr = 0 /\ listed = FALSE

Move(from, to) == phase = from /\ phase' = to

----------------------------------------------------------------------------
(* The application's contexts.                                             *)

AppCreate ==
  /\ "app" \notin live /\ live' = live \cup {"app"}
  /\ UNCHANGED <<spiVars, phase, arch, drv, workers, macVars>>

\* It does not destroy the context it has given to w5x00_arch.
AppDestroy ==
  /\ "app" \in live /\ arch # "app" /\ live' = live \ {"app"}
  /\ UNCHANGED <<spiVars, phase, arch, drv, workers, macVars>>

\* w5x00_arch_set_async_context, before init or to take the context back.
SetContext ==
  /\ phase = "off" /\ arch # "own"
  /\ arch' \in {"none"} \cup (live \ {"own"})
  /\ UNCHANGED <<spiVars, phase, live, drv, workers, macVars>>

\* w5x00_arch_init_default_async_context by the application, which sets it.
TakeDefault ==
  /\ phase = "off" /\ arch = "none"
  /\ live' = live \cup {"own"} /\ arch' = "own"
  /\ UNCHANGED <<spiVars, phase, drv, workers, macVars>>

----------------------------------------------------------------------------
(* w5x00_arch_init and w5x00_arch_deinit.                                  *)

\* Mutant: the default context is created whether or not one is set.
ArchInitDefault ==
  /\ phase = "off" /\ phase' \in {"on", "undo"}
  /\ arch' = IF arch = "none" THEN "own" ELSE arch
  /\ live' = live \cup {"own"}
  /\ drv' = arch' /\ workers' = workers \cup {arch'}
  /\ Forget /\ tx' = NoChannel /\ rx' = NoChannel
  /\ UNCHANGED <<dmaVars, user, burstVars, macVars>>

\* The context that is set, or else the default one, if it can be created;
\* w5x00_driver_init takes it, and then lwIP may fail.
ArchInit ==
  /\ phase = "off" /\ phase' \in {"on", "undo"}
  /\ IF arch = "none"
       THEN arch' = "own" /\ live' = live \cup {"own"}
       ELSE UNCHANGED <<arch, live>>
  /\ drv' = arch' /\ workers' = workers \cup {arch'}
  /\ Forget /\ tx' = NoChannel /\ rx' = NoChannel
  /\ UNCHANGED <<dmaVars, user, burstVars, macVars>>

\* w5x00_driver_deinit, on a driver whose transfers have ended.
DriverDeinit ==
  /\ phase \in {"on", "undo", "up"} /\ ~busy
  /\ phase' = "off" /\ drv' = "none"
  /\ workers' = workers \ {arch}
  /\ listed' = FALSE
  /\ SpiDeinit
  /\ UNCHANGED <<dmaVars, burstVars, mac, shar, hwaddr>>

\* Mutant: w5x00_arch keeps pointing to the context it has torn down.
ArchDeinitKept ==
  /\ DriverDeinit
  /\ live' = live \ {"own"} /\ UNCHANGED arch

\* Mutant: the context is torn down whoever made it.
ArchDeinitAll ==
  /\ DriverDeinit
  /\ live' = live \ {arch} /\ arch' = "none"

\* The default context goes with the driver, the application's stays set.
ArchDeinit ==
  /\ DriverDeinit
  /\ IF arch = "own"
       THEN live' = live \ {"own"} /\ arch' = "none"
       ELSE UNCHANGED <<live, arch>>

----------------------------------------------------------------------------
(* w5x00_ensure_up, in the first call that needs the chip.                 *)

\* Mutant: the bits are added, not set.
LaaAdded(id) == id + 2

\* w5x00_hal_generate_laa_mac clears bit 0 of the first byte (unicast) and sets
\* bit 1 (locally administered).
Laa(id) == 4 * (id \div 4) + 2

\* The netif goes and the chip is reset.
EnsureUp ==
  /\ Move("on", "claim_tx")
  /\ listed' = FALSE
  /\ shar' \in ResetShar
  /\ UNCHANGED <<spiVars, contextVars, mac, hwaddr>>

ClaimTx ==
  /\ Move("claim_tx", "claim_rx")
  /\ SpiClaimTx
  /\ UNCHANGED <<dmaVars, burstVars, contextVars, macVars>>

\* Mutant: w5x00_spi_init fails only if both channels are missing.
ClaimRxEither ==
  /\ SpiClaimRx
  /\ Move("claim_rx", IF tx = NoChannel /\ rx' = NoChannel THEN "on" ELSE "config")
  /\ UNCHANGED <<dmaVars, burstVars, contextVars, macVars>>

\* Without both channels w5x00_ensure_up fails, and the next call tries again.
ClaimRx ==
  /\ SpiClaimRx
  /\ Move("claim_rx", IF NoChannel \in {tx, rx'} THEN "on" ELSE "config")
  /\ UNCHANGED <<dmaVars, burstVars, contextVars, macVars>>

\* Mutant: the generated address is not written back to the chip.
ConfigUnset ==
  /\ Move("config", "up") /\ ~busy
  /\ mac' = IF shar = 0 THEN Laa(BoardId) ELSE shar
  /\ UNCHANGED <<spiVars, contextVars, shar, hwaddr, listed>>

\* The chip's own address is used, or a generated one is written to it.
Config ==
  /\ Move("config", "up") /\ ~busy
  /\ mac' = IF shar = 0 THEN Laa(BoardId) ELSE shar
  /\ shar' = mac'
  /\ UNCHANGED <<spiVars, contextVars, hwaddr, listed>>

----------------------------------------------------------------------------
(* A driver that is up.                                                    *)

\* w5x00_netif_init copies w5x00_state.mac; w5x00_cb_tcpip_deinit leaves it.
SetUp ==
  /\ phase = "up" /\ ~busy /\ ~listed
  /\ listed' = TRUE /\ hwaddr' = mac
  /\ UNCHANGED <<spiVars, phase, contextVars, mac, shar>>

Disable ==
  /\ phase = "up" /\ ~busy /\ listed
  /\ listed' = FALSE
  /\ UNCHANGED <<spiVars, phase, contextVars, mac, shar, hwaddr>>

\* Transfers while the chip is configured and afterwards.
SpiExchange ==
  /\ phase \in {"config", "up"}
  /\ Exchange
  /\ UNCHANGED <<phase, tx, rx, forgotten, contextVars, macVars>>

Hardware ==
  /\ TransferStep
  /\ UNCHANGED <<phase, tx, rx, forgotten, burstVars, contextVars, macVars>>

Return ==
  /\ BurstReturn
  /\ UNCHANGED <<phase, tx, rx, forgotten, contextVars, macVars>>

AppChannels ==
  /\ AppClaim \/ AppRelease
  /\ UNCHANGED <<phase, tx, rx, forgotten, burstVars, contextVars, macVars>>

Next ==
  \/ AppCreate \/ AppDestroy \/ SetContext \/ TakeDefault \/ AppChannels
  \/ ArchInit \/ ArchDeinit
  \/ EnsureUp \/ ClaimTx \/ ClaimRx \/ Config \/ SetUp \/ Disable
  \/ SpiExchange \/ Hardware \/ Return

Spec == Init /\ [][Next]_vars

\* DMA, SPI and the waiting loop run on by themselves.
FairSpec ==
  /\ Spec
  /\ WF_vars(DmaOut /\ Hardware) /\ WF_vars(Shift /\ Hardware)
  /\ WF_vars(DmaIn /\ Hardware) /\ WF_vars(Return)

----------------------------------------------------------------------------
\* Every variable has its type; unclaiming -1 would break the pool's.
TypeOK ==
  /\ SpiTypeOK
  /\ phase \in Phases /\ live \subseteq Contexts
  /\ arch \in Contexts \cup {"none"} /\ drv \in Contexts \cup {"none"}
  /\ workers \subseteq Contexts
  /\ mac \in Nat /\ shar \in Nat /\ hwaddr \in Nat /\ listed \in BOOLEAN

\* From a bring-up that succeeded to deinit the driver has two channels, claimed
\* and distinct, whatever the other core claims in between and however many
\* attempts failed half way; no transfer runs without them.
ChannelsHeld ==
  /\ busy => phase \in {"config", "up"}
  /\ phase \in {"config", "up"} =>
       /\ tx # rx
       /\ {tx, rx} \subseteq Channels
       /\ \A c \in {tx, rx} : user[c] = "driver"

\* The claimed channels are those that dma_tx and dma_rx name and those that a
\* retry after a half-failed bring-up forgot; deinit releases the former, so
\* that without such a retry nothing is left.
ChannelsAccounted ==
  /\ {c \in Channels : user[c] = "driver"} = Named \cup forgotten
  /\ Named \cap forgotten = {}
  /\ phase = "off" => Named = {}

\* When a read burst returns the buffer holds the chip's answers, each in its
\* place; when a write burst returns the chip has all bytes in order.  Nothing
\* is left in either FIFO for the next transfer, which is another kind of
\* transfer over the same channels: ioLibrary writes an address, then reads.
TransferComplete ==
  ~busy =>
    /\ txFifo = <<>> /\ rxFifo = <<>> /\ lost = 0
    /\ kind = "read" => stored = [i \in 1..len |-> <<"buf", i - 1, i>>]
    /\ kind = "write" => sent = [i \in 1..len |-> <<"buf", i - 1>>]

\* The increments of one burst do not survive into the next: reads never walk
\* past the dummy byte, nor do the answers to a write, or past the buffer.
InBounds(at) ==
  \/ at[1] = "dummy" /\ at[2] = 0
  \/ at[1] = "buf" /\ at[2] < len
StaysInBounds ==
  /\ \A i \in DOMAIN sent : InBounds(sent[i])
  /\ \A i \in DOMAIN stored : InBounds(stored[i])
  /\ kind = "write" => \A i \in DOMAIN stored : stored[i][1] = "dummy"

\* A burst function waits without a limit.  As long as no answer was lost there
\* is something to wait for: a byte to fetch, to exchange or to store, or the
\* end.  The two transfers and the FIFOs never wait for each other in a circle.
BurstCanMove ==
  busy /\ lost = 0 =>
    \/ Busy(out) /\ Len(txFifo) < FifoDepth
    \/ txFifo # <<>>
    \/ Busy(in) => rxFifo # <<>>

\* A burst returns unless the inbound FIFO overran: nothing else can hang it.
TransferEnds == busy ~> (~busy \/ lost > 0)

\* Driver and w5x00_arch agree on the context, it is alive, and the poll worker
\* is in it alone; off, the driver has left no worker in any context.
DriverContextLive ==
  IF phase = "off"
    THEN drv = "none" /\ workers = {}
    ELSE drv = arch /\ drv \in live /\ workers = {drv}

\* The default context lives exactly while w5x00_arch names it: it is neither
\* leaked by a failed init nor created beside a context of the application.
OwnContextHeld == "own" \in live <=> arch = "own"

\* "Additionally if the w5x00_arch is using its own async_context instance, then
\* that instance is de-initialized" - and no other, in any init or deinit.
AppContextKept == [][phase' # phase => ("app" \in live <=> "app" \in live')]_vars

\* A listed netif has the address the chip filters frames by ("so we only get
\* frames destined for us"): the chip's own or a local unicast one.
MacAgrees ==
  listed =>
    /\ hwaddr = shar /\ hwaddr = mac /\ hwaddr # 0
    /\ hwaddr \in ResetShar \/ hwaddr % 4 = 2
=============================================================================
