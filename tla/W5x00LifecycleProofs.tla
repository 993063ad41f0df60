------------------------ MODULE W5x00LifecycleProofs ------------------------
(***************************************************************************)
(* What W5x00Lifecycle's run checks on one board, proved for any number of *)
(* DMA channels, any FIFO depth, any length of a burst and any address:    *)
(* types, channels, contexts, the MAC address and the transfers.           *)
(***************************************************************************)
EXTENDS W5x00Lifecycle, SequenceTheorems, TLAPS

\* dma_tx and dma_rx through bring-up, half-failed bring-ups and deinit.
PoolInv ==
  /\ ChannelsAccounted
  /\ tx = rx => tx = NoChannel
  /\ phase = "claim_rx" => rx = NoChannel
  /\ phase \in {"config", "up"} => tx # NoChannel /\ rx # NoChannel
  /\ busy => phase \in {"config", "up"}

\* The context that w5x00_arch names is there.
ContextInv ==
  /\ DriverContextLive
  /\ OwnContextHeld
  /\ arch = "app" => "app" \in live

\* w5x00_state.mac and the chip's register agree from w5x00_ensure_up on.
MacInv ==
  /\ MacAgrees
  /\ phase \in {"claim_tx", "claim_rx", "config"} => shar \in ResetShar
  /\ phase = "up" =>
       /\ mac = shar /\ mac # 0
       /\ mac \in ResetShar \/ mac % 4 = 2
  /\ listed => phase = "up"

----------------------------------------------------------------------------
(* Types.                                                                  *)

\* A claim leaves every channel with one of the three users.
LEMMA PoolTypeStep ==
  ASSUME SpiTypeOK, NEW c \in Channels \cup {NoChannel}, ClaimUnused(c)
  PROVE  user' \in [Channels -> {"free", "driver", "app"}]
<1> QED
  BY DmaAssumption DEF SpiTypeOK, DmaTypeOK, ClaimUnused, Free

\* A release changes the entries of existing channels only.
LEMMA DeinitTypeStep ==
  ASSUME SpiTypeOK, SpiDeinit
  PROVE  /\ user' \in [Channels -> {"free", "driver", "app"}]
         /\ user' = [c \in Channels |-> IF c \in Named THEN "free" ELSE user[c]]
<1>1. Channels \cup Named = Channels
  BY DEF SpiTypeOK, Named
<1> QED
  BY <1>1 DEF SpiTypeOK, DmaTypeOK, SpiDeinit, Unclaim

\* Counting an element of a transfer changes nothing else of it.
LEMMA TransferAdvance ==
  ASSUME NEW d \in Transfers
  PROVE  LET e == [d EXCEPT !.done = @ + 1]
         IN  /\ e \in Transfers /\ e.done = d.done + 1
             /\ e.at = d.at /\ e.inc = d.inc /\ e.len = d.len
<1> QED
  BY DEF Transfers

\* A byte goes in, a byte goes out: the queues stay queues.
LEMMA TransferTypeStep ==
  ASSUME DmaTypeOK, TransferStep
  PROVE  DmaTypeOK'
<1> USE DEF DmaTypeOK
<1>1. CASE DmaOut
  <2>1. <<out.at, Offset(out)>> \in Regions \X Nat
    BY DEF Transfers, Offset
  <2>2. txFifo' \in Seq(Regions \X Nat)
    BY <1>1, <2>1, AppendProperties DEF DmaOut
  <2>3. out' \in Transfers
    BY <1>1, TransferAdvance, Zenon DEF DmaOut
  <2> QED
    BY <1>1, <2>2, <2>3, Zenon DEF DmaOut
<1>2. CASE Shift
  <2>1. /\ Head(txFifo) \in Regions \X Nat
        /\ txFifo' \in Seq(Regions \X Nat)
    BY <1>2, HeadTailProperties DEF Shift
  <2>2. sent' \in Seq(Regions \X Nat)
    BY <1>2, <2>1, AppendProperties DEF Shift
  <2>3. Len(sent) + 1 \in Nat
    BY LenProperties
  <2>4. rxFifo' \in Seq(Nat) /\ lost' \in Nat
    <3>1. CASE Len(rxFifo) < FifoDepth
      <4>1. Append(rxFifo, Len(sent) + 1) \in Seq(Nat)
        BY <2>3, AppendProperties, Zenon
      <4> QED
        BY <1>2, <3>1, <4>1 DEF Shift
    <3>2. CASE ~(Len(rxFifo) < FifoDepth)
      BY <1>2, <3>2 DEF Shift
    <3> QED
      BY <3>1, <3>2
  <2> QED
    BY <1>2, <2>1, <2>2, <2>4, Zenon DEF Shift
<1>3. CASE DmaIn
  <2>1. Head(rxFifo) \in Nat /\ rxFifo' \in Seq(Nat)
    BY <1>3, HeadTailProperties DEF DmaIn
  <2>2. <<in.at, Offset(in), Head(rxFifo)>> \in Regions \X Nat \X Nat
    BY <2>1 DEF Transfers, Offset
  <2>3. stored' \in Seq(Regions \X Nat \X Nat)
    BY <1>3, <2>2, AppendProperties DEF DmaIn
  <2>4. in' \in Transfers
    BY <1>3, TransferAdvance, Zenon DEF DmaIn
  <2> QED
    BY <1>3, <2>1, <2>3, <2>4, Zenon DEF DmaIn
<1> QED
  BY <1>1, <1>2, <1>3 DEF TransferStep

\* The empty sequence is a queue of each kind.
LEMMA EmptyQueues ==
  /\ <<>> \in Seq(Nat) /\ <<>> \in Seq(Regions \X Nat)
  /\ <<>> \in Seq(Regions \X Nat \X Nat)
<1> QED
  BY EmptySeq

\* ioLibrary's callbacks keep the types.
LEMMA ExchangeTypeStep ==
  ASSUME SpiTypeOK, Exchange, UNCHANGED <<tx, rx, forgotten>>
  PROVE  SpiTypeOK'
<1> USE DEF SpiTypeOK, DmaTypeOK
<1>1. ASSUME NEW n \in 0..MaxLen, ReadBurst(n) \/ WriteBurst(n)
      PROVE  SpiTypeOK'
  <2>1. /\ out' \in Transfers /\ in' \in Transfers
        /\ kind' \in {"read", "write"} /\ len' = n /\ busy' = TRUE
    <3>1. \A at \in Regions, inc \in BOOLEAN : Transfer(at, inc, n) \in Transfers
      BY LenAssumption DEF Transfer, Transfers
    <3> QED
      BY <1>1, <3>1, Zenon DEF ReadBurst, WriteBurst, Begin, Start, Regions
  <2>2. /\ UNCHANGED <<user, txFifo, rxFifo>>
        /\ sent' = <<>> /\ stored' = <<>> /\ lost' = 0
    BY <1>1, Zenon DEF ReadBurst, WriteBurst, Start
  <2> QED
    <3>1. UNCHANGED <<user, txFifo, rxFifo, tx, rx, forgotten>>
      BY <2>2
    <3>2. len' \in 0..MaxLen /\ lost' \in Nat
      BY <2>1, <2>2
    <3> QED
      BY <2>1, <2>2, <3>1, <3>2, EmptyQueues, Zenon
<1>2. CASE ReadByte
  <2>1. /\ Append(rxFifo, 1) \in Seq(Nat) /\ Append(rxFifo, 1) # <<>>
    <3>1. 1 \in Nat /\ rxFifo \in Seq(Nat)
      OBVIOUS
    <3> HIDE DEF SpiTypeOK, DmaTypeOK
    <3> QED
      BY <3>1, AppendProperties
  <2>2. Head(Append(rxFifo, 1)) \in Nat /\ Tail(Append(rxFifo, 1)) \in Seq(Nat)
    BY <2>1, HeadTailProperties
  <2>3. /\ sent' \in Seq(Regions \X Nat)
        /\ stored' \in Seq(Regions \X Nat \X Nat)
    <3>1. <<"dummy", 0>> \in Regions \X Nat
      BY DEF Regions
    <3>2. <<"buf", 0, Head(Append(rxFifo, 1))>> \in Regions \X Nat \X Nat
      BY <2>2 DEF Regions
    <3> QED
      BY <1>2, <3>1, <3>2 DEF ReadByte
  <2>4. /\ len' \in 0..MaxLen /\ lost' \in Nat
        /\ kind' \in {"none", "read", "write"}
    BY <1>2, LenAssumption DEF ReadByte
  <2> QED
    BY <1>2, <2>2, <2>3, <2>4, Zenon DEF ReadByte
<1>3. CASE WriteByte
  <2>1. <<"buf", 0>> \in Regions \X Nat
    BY DEF Regions
  <2>2. sent' \in Seq(Regions \X Nat)
    BY <1>3, <2>1 DEF WriteByte
  <2> QED
    BY <1>3, <2>2, EmptyQueues, LenAssumption DEF WriteByte
<1> QED
  BY <1>1, <1>2, <1>3 DEF Exchange

\* The address made from the board's id is a local unicast one.
LEMMA LaaIsLocal ==
  ASSUME NEW id \in Nat
  PROVE  Laa(id) \in Nat /\ Laa(id) # 0 /\ Laa(id) % 4 = 2
<1>1. id \div 4 \in Nat
  OBVIOUS
<1>2. \A k \in Nat : 4 * k + 2 \in Nat /\ 4 * k + 2 # 0 /\ (4 * k + 2) % 4 = 2
  OBVIOUS
<1> QED
  BY <1>1, <1>2 DEF Laa

\* Every step keeps the types.
LEMMA TypeStep ==
  ASSUME TypeOK, [Next]_vars
  PROVE  TypeOK'
<1> USE DEF TypeOK, Phases, Contexts
<1>1. ASSUME UNCHANGED spiVars
      PROVE  SpiTypeOK'
  BY <1>1 DEF spiVars, dmaVars, claimVars, burstVars, SpiTypeOK, DmaTypeOK
<1>2. CASE UNCHANGED vars
  BY <1>1, <1>2 DEF vars, contextVars, macVars
<1>3. CASE AppCreate \/ AppDestroy \/ SetContext \/ TakeDefault
  BY <1>1, <1>3 DEF AppCreate, AppDestroy, SetContext, TakeDefault, macVars
<1>4. CASE ArchInit
  <2>1. SpiTypeOK'
    BY <1>4 DEF ArchInit, Forget, Named, dmaVars, burstVars, SpiTypeOK, DmaTypeOK
  <2> QED
    BY <1>4, <2>1 DEF ArchInit, macVars
<1>5. CASE ArchDeinit
  <2>1. SpiDeinit /\ UNCHANGED <<dmaVars, burstVars>>
    BY <1>5 DEF ArchDeinit, DriverDeinit
  <2>2. SpiTypeOK'
    BY <2>1, DeinitTypeStep DEF SpiDeinit, dmaVars, burstVars, SpiTypeOK, DmaTypeOK
  <2> QED
    BY <1>5, <2>2 DEF ArchDeinit, DriverDeinit
<1>6. CASE EnsureUp \/ Config \/ SetUp \/ Disable
  <2>1. Laa(BoardId) \in Nat
    BY MacAssumption, LaaIsLocal
  <2> QED
    BY <1>1, <1>6, <2>1, MacAssumption DEF EnsureUp, Config, SetUp, Disable,
       Move, contextVars, macVars
<1>7. CASE ClaimTx
  <2>1. PICK c \in Channels \cup {NoChannel} : ClaimUnused(c) /\ tx' = c
    BY <1>7 DEF ClaimTx, SpiClaimTx
  <2>2. SpiTypeOK'
    BY <1>7, <2>1, PoolTypeStep DEF ClaimTx, SpiClaimTx, Forget, Named, dmaVars,
       burstVars, SpiTypeOK, DmaTypeOK
  <2> QED
    BY <1>7, <2>2 DEF ClaimTx, Move, contextVars, macVars
<1>8. CASE ClaimRx
  <2>1. PICK c \in Channels \cup {NoChannel} : ClaimUnused(c) /\ rx' = c
    BY <1>8 DEF ClaimRx, SpiClaimRx
  <2>2. SpiTypeOK'
    BY <1>8, <2>1, PoolTypeStep DEF ClaimRx, SpiClaimRx, dmaVars,
       burstVars, SpiTypeOK, DmaTypeOK
  <2> QED
    BY <1>8, <2>2 DEF ClaimRx, Move, contextVars, macVars
<1>9. CASE SpiExchange
  <2>1. SpiTypeOK'
    BY <1>9, ExchangeTypeStep DEF SpiExchange
  <2> QED
    BY <1>9, <2>1 DEF SpiExchange, contextVars, macVars
<1>10. CASE Hardware
  <2>1. DmaTypeOK'
    BY <1>10, TransferTypeStep DEF Hardware, SpiTypeOK
  <2>2. SpiTypeOK'
    BY <1>10, <2>1 DEF Hardware, burstVars, SpiTypeOK
  <2> QED
    BY <1>10, <2>2 DEF Hardware, contextVars, macVars
<1>11. CASE Return
  <2>1. SpiTypeOK'
    BY <1>11 DEF Return, BurstReturn, dmaVars, SpiTypeOK, DmaTypeOK
  <2> QED
    BY <1>11, <2>1 DEF Return, contextVars, macVars
<1>12. CASE AppChannels
  <2>1. user' \in [Channels -> {"free", "driver", "app"}]
    BY <1>12 DEF AppChannels, AppClaim, AppRelease, Free, SpiTypeOK, DmaTypeOK
  <2>2. SpiTypeOK'
    BY <1>12, <2>1 DEF AppChannels, AppClaim, AppRelease, dmaVars, burstVars,
       SpiTypeOK, DmaTypeOK
  <2> QED
    BY <1>12, <2>2 DEF AppChannels, contextVars, macVars
<1> QED
  BY <1>2, <1>3, <1>4, <1>5, <1>6, <1>7, <1>8, <1>9, <1>10, <1>11, <1>12 DEF Next

\* The driver boots with empty FIFOs, no channels and no context.
LEMMA InitTypes == Init => TypeOK
<1> SUFFICES ASSUME Init PROVE TypeOK
  OBVIOUS
<1>1. DmaTypeOK
  <2>1. out \in Transfers /\ in \in Transfers
    BY DEF Init, SpiInit, DmaInit, Transfer, Transfers, Regions
  <2> QED
    BY <2>1, EmptyQueues DEF Init, SpiInit, DmaInit, DmaTypeOK
<1>2. SpiTypeOK
  <2>1. 0 \in 0..MaxLen
    BY LenAssumption
  <2> QED
    BY <1>1, <2>1, Zenon DEF Init, SpiInit, SpiTypeOK
<1> QED
  BY <1>2 DEF Init, TypeOK, Phases, Contexts

\* Every variable keeps its type; so dma_channel_unclaim never sees a -1.
THEOREM LifecycleTypes == Spec => []TypeOK
<1> QED
  BY InitTypes, TypeStep, PTL DEF Spec

----------------------------------------------------------------------------
(* DMA channels.                                                           *)

\* A claim adds one channel to the driver's, or, if none is free, nothing.
LEMMA ClaimAdds ==
  ASSUME SpiTypeOK, NEW c \in Channels \cup {NoChannel}, ClaimUnused(c)
  PROVE  /\ {d \in Channels : user'[d] = "driver"} =
              {d \in Channels : user[d] = "driver"} \cup ({c} \ {NoChannel})
         /\ c # NoChannel => user[c] # "driver"
<1> QED
  BY DmaAssumption DEF ClaimUnused, Free, SpiTypeOK, DmaTypeOK

\* Every step keeps the account of the channels.
LEMMA PoolStep ==
  ASSUME TypeOK, PoolInv, [Next]_vars
  PROVE  PoolInv'
<1> USE DEF PoolInv, ChannelsAccounted
<1>1. ASSUME UNCHANGED claimVars, UNCHANGED phase, busy' => busy
      PROVE  PoolInv'
  BY <1>1 DEF claimVars, Named
<1>2. CASE \/ UNCHANGED vars \/ AppCreate \/ AppDestroy \/ SetContext
          \/ TakeDefault \/ SetUp \/ Disable
  BY <1>1, <1>2 DEF vars, AppCreate, AppDestroy, SetContext, TakeDefault,
     SetUp, Disable, spiVars, claimVars, burstVars
<1>3. CASE ArchInit
  <2>1. /\ Named = {} /\ UNCHANGED <<user, forgotten, busy>>
        /\ tx' = NoChannel /\ rx' = NoChannel
        /\ phase = "off" /\ phase' \in {"on", "undo"}
    BY <1>3 DEF ArchInit, Forget, burstVars
  <2> QED
    BY <2>1 DEF Named
<1>4. CASE ArchDeinit
  <2>1. /\ UNCHANGED <<forgotten, busy>> /\ ~busy
        /\ tx' = NoChannel /\ rx' = NoChannel /\ phase' = "off"
        /\ user' = [c \in Channels |-> IF c \in Named THEN "free" ELSE user[c]]
    BY <1>4, DeinitTypeStep DEF ArchDeinit, DriverDeinit, SpiDeinit, burstVars, TypeOK
  <2>2. {c \in Channels : user'[c] = "driver"} = forgotten
    BY <2>1
  <2> QED
    BY <2>1, <2>2 DEF Named
<1>5. CASE EnsureUp \/ Config
  BY <1>5 DEF EnsureUp, Config, Move, spiVars, claimVars, burstVars, Named
<1>6. CASE ClaimTx
  <2>1. PICK c \in Channels \cup {NoChannel} : ClaimUnused(c) /\ tx' = c
    BY <1>6 DEF ClaimTx, SpiClaimTx
  <2>2. /\ forgotten' = forgotten \cup Named /\ rx' = NoChannel
        /\ phase = "claim_tx" /\ phase' = "claim_rx" /\ busy' = busy
    BY <1>6 DEF ClaimTx, SpiClaimTx, Forget, Move, burstVars
  <2>3. Named' = {c} \ {NoChannel}
    BY <2>1, <2>2 DEF Named
  <2> QED
    BY <2>1, <2>2, <2>3, ClaimAdds DEF TypeOK
<1>7. CASE ClaimRx
  <2>1. PICK c \in Channels \cup {NoChannel} : ClaimUnused(c) /\ rx' = c
    BY <1>7 DEF ClaimRx, SpiClaimRx
  <2>2. /\ UNCHANGED <<tx, forgotten, busy>>
        /\ phase = "claim_rx" /\ rx = NoChannel
        /\ phase' = IF NoChannel \in {tx, rx'} THEN "on" ELSE "config"
    BY <1>7 DEF ClaimRx, SpiClaimRx, Move, burstVars
  <2>3. Named' = Named \cup ({c} \ {NoChannel})
    BY <2>1, <2>2 DEF Named
  <2>4. tx # NoChannel => tx \in Channels /\ user[tx] = "driver"
    BY DEF Named, TypeOK, SpiTypeOK
  <2>5. {d \in Channels : user'[d] = "driver"} = Named' \cup forgotten'
    BY <2>1, <2>2, <2>3, ClaimAdds DEF TypeOK
  <2>6. c # NoChannel => c # tx /\ c \notin forgotten
    BY <2>1, <2>4, ClaimAdds DEF TypeOK
  <2> QED
    BY <2>1, <2>2, <2>3, <2>5, <2>6
<1>8. CASE SpiExchange
  BY <1>8 DEF SpiExchange, Exchange, ReadBurst, WriteBurst, Start, ReadByte,
     WriteByte, Named
<1>9. CASE Hardware \/ Return
  BY <1>1, <1>9 DEF Hardware, TransferStep, DmaOut, Shift, DmaIn, Return,
     BurstReturn, dmaVars, claimVars, burstVars
<1>10. CASE AppChannels
  <2>1. /\ UNCHANGED <<phase, tx, rx, forgotten, busy>>
        /\ {c \in Channels : user'[c] = "driver"} =
             {c \in Channels : user[c] = "driver"}
    BY <1>10 DEF AppChannels, AppClaim, AppRelease, Free, burstVars, TypeOK,
       SpiTypeOK, DmaTypeOK
  <2> QED
    BY <2>1 DEF Named
<1> QED
  BY <1>2, <1>3, <1>4, <1>5, <1>6, <1>7, <1>8, <1>9, <1>10 DEF Next

\* The account of the channels holds in every reachable state.
LEMMA PoolInvariant == Spec => [](TypeOK /\ PoolInv)
<1>1. Init => PoolInv
  BY DEF Init, SpiInit, DmaInit, PoolInv, ChannelsAccounted, Named
<1> QED
  BY <1>1, InitTypes, TypeStep, PoolStep, PTL DEF Spec

\* The channels that dma_tx and dma_rx name, and those a retried bring-up
\* forgot, are all the driver has claimed; deinit gives back the former.
THEOREM ChannelAccounts == Spec => []ChannelsAccounted
<1>1. PoolInv => ChannelsAccounted
  BY DEF PoolInv
<1> QED
  BY <1>1, PoolInvariant, PTL

\* A driver that is up has two claimed channels, whatever the application on
\* the other core claims between w5x00_spi_init's two claims.
THEOREM ChannelsStayHeld == Spec => []ChannelsHeld
<1>1. TypeOK /\ PoolInv => ChannelsHeld
  BY DEF TypeOK, SpiTypeOK, PoolInv, ChannelsAccounted, ChannelsHeld, Named
<1> QED
  BY <1>1, PoolInvariant, PTL

----------------------------------------------------------------------------
(* The async_context and the MAC address.                                  *)

\* Every step keeps the account of the contexts.
LEMMA ContextStep ==
  ASSUME TypeOK, ContextInv, [Next]_vars
  PROVE  ContextInv'
<1> USE DEF ContextInv, DriverContextLive, OwnContextHeld, TypeOK, Contexts
<1>1. ASSUME UNCHANGED contextVars, phase' = "off" <=> phase = "off"
      PROVE  ContextInv'
  BY <1>1 DEF contextVars
<1>2. CASE UNCHANGED vars
  BY <1>1, <1>2 DEF vars
<1>3. CASE AppCreate
  BY <1>3 DEF AppCreate
<1>4. CASE AppDestroy
  BY <1>4 DEF AppDestroy
<1>5. CASE SetContext
  BY <1>5 DEF SetContext
<1>6. CASE TakeDefault
  BY <1>6 DEF TakeDefault
<1>7. CASE ArchInit
  <2>1. workers = {} /\ phase' # "off" /\ drv' = arch' /\ workers' = {arch'}
    BY <1>7 DEF ArchInit
  <2>2. CASE arch = "none"
    BY <1>7, <2>1, <2>2 DEF ArchInit
  <2>3. CASE arch # "none"
    BY <1>7, <2>1, <2>3 DEF ArchInit
  <2> QED
    BY <2>2, <2>3
<1>8. CASE ArchDeinit
  BY <1>8 DEF ArchDeinit, DriverDeinit
<1>9. CASE EnsureUp \/ ClaimTx \/ ClaimRx \/ Config
  BY <1>1, <1>9 DEF EnsureUp, ClaimTx, ClaimRx, Config, Move
<1>10. CASE SetUp \/ Disable \/ SpiExchange \/ Hardware \/ Return \/ AppChannels
  BY <1>1, <1>10 DEF SetUp, Disable, SpiExchange, Hardware, Return, AppChannels
<1> QED
  BY <1>2, <1>3, <1>4, <1>5, <1>6, <1>7, <1>8, <1>9, <1>10 DEF Next

\* The account of the contexts holds in every reachable state.
LEMMA ContextInvariant == Spec => [](TypeOK /\ ContextInv)
<1>1. Init => ContextInv
  BY DEF Init, ContextInv, DriverContextLive, OwnContextHeld
<1> QED
  BY <1>1, InitTypes, TypeStep, ContextStep, PTL DEF Spec

\* Driver and w5x00_arch use one context, which is alive, from init to deinit.
THEOREM ContextAlive == Spec => []DriverContextLive
<1>1. ContextInv => DriverContextLive
  BY DEF ContextInv
<1> QED
  BY <1>1, ContextInvariant, PTL

\* The default context lives exactly while w5x00_arch names it.
THEOREM OwnContextBalance == Spec => []OwnContextHeld
<1>1. ContextInv => OwnContextHeld
  BY DEF ContextInv
<1> QED
  BY <1>1, ContextInvariant, PTL

\* No init and no deinit makes or ends a context of the application.
THEOREM AppContextSafe == Spec => AppContextKept
<1>1. TypeOK /\ [Next]_vars =>
        [phase' # phase => ("app" \in live <=> "app" \in live')]_vars
  <2> SUFFICES ASSUME Next, phase' # phase
               PROVE  "app" \in live <=> "app" \in live'
    OBVIOUS
  <2>1. CASE ArchInit
    BY <2>1 DEF ArchInit
  <2>2. CASE ArchDeinit
    BY <2>2 DEF ArchDeinit
  <2>3. CASE EnsureUp \/ ClaimTx \/ ClaimRx \/ Config
    BY <2>3 DEF EnsureUp, ClaimTx, ClaimRx, Config, contextVars
  <2> QED
    BY <2>1, <2>2, <2>3 DEF Next, AppCreate, AppDestroy, SetContext, TakeDefault,
       SetUp, Disable, SpiExchange, Hardware, Return, AppChannels
<1> QED
  BY <1>1, LifecycleTypes, PTL DEF Spec, AppContextKept

\* Every step keeps the addresses in agreement.
LEMMA MacStep ==
  ASSUME TypeOK, MacInv, [Next]_vars
  PROVE  MacInv'
<1> USE DEF MacInv, MacAgrees
<1>1. ASSUME UNCHANGED macVars, UNCHANGED phase
      PROVE  MacInv'
  BY <1>1 DEF macVars
<1>2. CASE \/ UNCHANGED vars \/ AppCreate \/ AppDestroy \/ SetContext
          \/ TakeDefault \/ SpiExchange \/ Hardware \/ Return \/ AppChannels
  BY <1>1, <1>2 DEF vars, AppCreate, AppDestroy, SetContext, TakeDefault,
     SpiExchange, Hardware, Return, AppChannels
<1>3. CASE ArchInit \/ ArchDeinit
  BY <1>3 DEF ArchInit, ArchDeinit, DriverDeinit, macVars
<1>4. CASE EnsureUp \/ ClaimTx \/ ClaimRx
  BY <1>4 DEF EnsureUp, ClaimTx, ClaimRx, Move, macVars
<1>5. CASE Config
  <2>1. Laa(BoardId) # 0 /\ Laa(BoardId) % 4 = 2
    BY MacAssumption, LaaIsLocal
  <2> QED
    BY <1>5, <2>1 DEF Config, Move
<1>6. CASE SetUp \/ Disable
  BY <1>6 DEF SetUp, Disable
<1> QED
  BY <1>2, <1>3, <1>4, <1>5, <1>6 DEF Next

\* netif, driver and the chip's filter agree on a local or a given address.
THEOREM MacFiltered == Spec => []MacAgrees
<1>1. Init => MacInv
  BY DEF Init, MacInv, MacAgrees
<1>2. MacInv => MacAgrees
  BY DEF MacInv
<1> QED
  BY <1>1, <1>2, LifecycleTypes, MacStep, PTL DEF Spec

----------------------------------------------------------------------------
(* Transfers.                                                              *)

\* Where byte k of the burst comes from and where answer k goes, from 0.
Sends(k) == IF kind = "read" THEN <<"dummy", 0>> ELSE <<"buf", k>>
Stores(k) == IF kind = "read" THEN <<"buf", k>> ELSE <<"dummy", 0>>

\* The configuration of the two channels for this burst.
Flow ==
  /\ kind \in {"read", "write"}
  /\ out.len = len /\ in.len = len
  /\ kind = "read" => /\ out.at = "dummy" /\ ~out.inc
                      /\ in.at = "buf" /\ in.inc
  /\ kind = "write" => /\ out.at = "buf" /\ out.inc
                       /\ in.at = "dummy" /\ ~in.inc

\* No byte is made or vanishes, except in an overrun.
Conserved ==
  /\ out.done = Len(sent) + Len(txFifo) /\ out.done <= len
  /\ in.done = Len(stored) /\ in.done <= len
  /\ Len(sent) = Len(stored) + Len(rxFifo) + lost

\* Every byte is where it belongs.
Placed ==
  /\ \A i \in 1..Len(txFifo) : txFifo[i] = Sends(Len(sent) + i - 1)
  /\ \A i \in 1..Len(sent) : sent[i] = Sends(i - 1)
  /\ \A i \in 1..Len(stored) : <<stored[i][1], stored[i][2]>> = Stores(i - 1)
  /\ lost = 0 =>
       /\ \A i \in 1..Len(rxFifo) : rxFifo[i] = Len(stored) + i
       /\ \A i \in 1..Len(stored) : stored[i][3] = i

BurstInv ==
  /\ TransferComplete
  /\ ~busy => ~Busy(out) /\ ~Busy(in) /\ StaysInBounds
  /\ busy => Flow /\ Conserved /\ Placed

\* What the next lemmas need of the lengths.
LEMMA Lengths ==
  ASSUME SpiTypeOK
  PROVE  /\ Len(sent) \in Nat /\ Len(txFifo) \in Nat
         /\ Len(stored) \in Nat /\ Len(rxFifo) \in Nat
         /\ DOMAIN sent = 1..Len(sent) /\ DOMAIN stored = 1..Len(stored)
         /\ lost \in Nat /\ len \in Nat
         /\ out.done \in Nat /\ in.done \in Nat
<1>1. out.done \in Nat /\ in.done \in Nat
  BY DEF SpiTypeOK, DmaTypeOK, Transfers
<1>2. len \in Nat
  BY LenAssumption DEF SpiTypeOK
<1>3. /\ sent \in Seq(Regions \X Nat) /\ txFifo \in Seq(Regions \X Nat)
      /\ stored \in Seq(Regions \X Nat \X Nat) /\ rxFifo \in Seq(Nat)
      /\ lost \in Nat
  BY DEF SpiTypeOK, DmaTypeOK
<1> QED
  BY <1>1, <1>2, <1>3, LenProperties, Zenon

\* Bytes where they belong are within the caller's buffer.
LEMMA PlacedInBounds ==
  ASSUME SpiTypeOK, Flow, Conserved, Placed
  PROVE  StaysInBounds
<1> USE Lengths DEF Flow, Conserved, Placed, Sends, Stores
<1>1. ASSUME NEW i \in DOMAIN sent
      PROVE  InBounds(sent[i])
  <2>1. i \in 1..Len(sent) /\ i - 1 < len
    OBVIOUS
  <2> QED
    BY <2>1 DEF InBounds
<1>2. ASSUME NEW i \in DOMAIN stored
      PROVE  InBounds(stored[i]) /\ (kind = "write" => stored[i][1] = "dummy")
  <2>1. i \in 1..Len(stored) /\ i - 1 < len
    OBVIOUS
  <2>2. <<stored[i][1], stored[i][2]>> = Stores(i - 1)
    BY <2>1
  <2>3. /\ kind = "read" => stored[i][1] = "buf" /\ stored[i][2] = i - 1
        /\ kind = "write" => stored[i][1] = "dummy" /\ stored[i][2] = 0
    BY <2>2
  <2> QED
    BY <2>1, <2>3 DEF InBounds
<1> QED
  BY <1>1, <1>2 DEF StaysInBounds

\* A byte that the outbound channel loads is the next one of the burst.
LEMMA OutKept ==
  ASSUME SpiTypeOK, Flow, Conserved, Placed, DmaOut, UNCHANGED <<kind, len>>
  PROVE  Flow' /\ Conserved' /\ Placed'
<1> DEFINE b == <<out.at, Offset(out)>>
<1>1. /\ txFifo' = Append(txFifo, b)
      /\ out' = [out EXCEPT !.done = @ + 1] /\ Busy(out)
      /\ UNCHANGED <<in, rxFifo, sent, stored, lost>>
  BY DEF DmaOut
<1>2. /\ out'.done = out.done + 1 /\ out'.at = out.at
      /\ out'.inc = out.inc /\ out'.len = out.len
  BY <1>1, TransferAdvance DEF SpiTypeOK, DmaTypeOK
<1>3. b \in Regions \X Nat /\ txFifo \in Seq(Regions \X Nat)
  BY DEF Transfers, Offset, SpiTypeOK, DmaTypeOK
<1>4. /\ Len(txFifo') = Len(txFifo) + 1
      /\ \A i \in 1..Len(txFifo) : txFifo'[i] = txFifo[i]
      /\ txFifo'[Len(txFifo) + 1] = b
  <2> HIDE DEF b
  <2> QED
    BY <1>1, <1>3, AppendProperties
<1>5. Flow'
  BY <1>1, <1>2 DEF Flow
<1>6. Conserved'
  BY <1>1, <1>2, <1>4, Lengths DEF Conserved, Flow, Busy
<1>7. b = Sends(out.done)
  BY DEF Flow, Sends, Offset
<1>8. ASSUME NEW i \in 1..Len(txFifo')
      PROVE  txFifo'[i] = Sends(Len(sent) + i - 1)
  <2>1. CASE i \in 1..Len(txFifo)
    BY <1>4, <2>1 DEF Placed
  <2>2. CASE i = Len(txFifo) + 1
    <3>1. Len(sent) + i - 1 = out.done
      BY <2>2, Lengths DEF Conserved
    <3> QED
      BY <1>4, <1>7, <2>2, <3>1
  <2> QED
    BY <1>4, <2>1, <2>2, Lengths
<1>9. Placed'
  BY <1>1, <1>8 DEF Placed, Sends, Stores
<1> QED
  BY <1>5, <1>6, <1>9

\* A byte that goes out makes an answer that is queued behind the others or lost.
LEMMA ShiftKept ==
  ASSUME SpiTypeOK, Flow, Conserved, Placed, Shift, UNCHANGED <<kind, len>>
  PROVE  Flow' /\ Conserved' /\ Placed'
<1>1. /\ txFifo # <<>> /\ txFifo' = Tail(txFifo)
      /\ sent' = Append(sent, Head(txFifo))
      /\ UNCHANGED <<out, in, stored>>
  BY DEF Shift
<1>2. /\ txFifo \in Seq(Regions \X Nat) /\ sent \in Seq(Regions \X Nat)
      /\ rxFifo \in Seq(Nat)
  BY DEF SpiTypeOK, DmaTypeOK
<1>3. /\ Len(txFifo') = Len(txFifo) - 1
      /\ \A i \in 1..Len(txFifo') : txFifo'[i] = txFifo[i + 1]
      /\ Head(txFifo) \in Regions \X Nat
  BY <1>1, <1>2, HeadTailProperties
<1>4. Head(txFifo) = txFifo[1] /\ Len(txFifo) > 0
  BY <1>1, <1>2, EmptySeq
<1>5. /\ Len(sent') = Len(sent) + 1
      /\ \A i \in 1..Len(sent) : sent'[i] = sent[i]
      /\ sent'[Len(sent) + 1] = Head(txFifo)
  BY <1>1, <1>2, <1>3, AppendProperties
<1>6. \/ /\ rxFifo' = Append(rxFifo, Len(sent) + 1) /\ lost' = lost
         /\ Len(rxFifo') = Len(rxFifo) + 1
         /\ \A i \in 1..Len(rxFifo) : rxFifo'[i] = rxFifo[i]
         /\ rxFifo'[Len(rxFifo) + 1] = Len(sent) + 1
      \/ rxFifo' = rxFifo /\ lost' = lost + 1
  <2>1. Len(sent) + 1 \in Nat
    BY Lengths
  <2> DEFINE a == Len(sent) + 1
  <2>2. a \in Nat
    BY <2>1
  <2>3. \/ rxFifo' = Append(rxFifo, a) /\ lost' = lost
        \/ rxFifo' = rxFifo /\ lost' = lost + 1
    BY DEF Shift
  <2> HIDE DEF a
  <2>4. /\ Len(Append(rxFifo, a)) = Len(rxFifo) + 1
        /\ \A i \in 1..Len(rxFifo) : Append(rxFifo, a)[i] = rxFifo[i]
        /\ Append(rxFifo, a)[Len(rxFifo) + 1] = a
    BY <1>2, <2>2, AppendProperties
  <2> USE DEF a
  <2> QED
    BY <2>3, <2>4
<1>7. Flow'
  BY <1>1 DEF Flow
<1>8. Conserved'
  <2>1. Len(rxFifo') + lost' = Len(rxFifo) + lost + 1
    <3>1. CASE rxFifo' = rxFifo /\ lost' = lost + 1
      BY <3>1, Lengths
    <3>2. CASE Len(rxFifo') = Len(rxFifo) + 1 /\ lost' = lost
      BY <3>2, Lengths
    <3> QED
      BY <1>6, <3>1, <3>2
  <2>2. UNCHANGED <<out, in, stored, len>>
    BY <1>1
  <2>3. Len(rxFifo') \in Nat /\ lost' \in Nat
    BY <1>6, Lengths
  <2>4. out.done = Len(sent') + Len(txFifo')
    BY <1>3, <1>4, <1>5, Lengths DEF Conserved
  <2>5. Len(sent') = Len(stored) + Len(rxFifo') + lost'
    <3>1. Len(sent) = Len(stored) + Len(rxFifo) + lost
      BY DEF Conserved
    <3>2. Len(sent') = Len(sent) + 1
      BY <1>5
    <3>3. /\ Len(sent) \in Nat /\ Len(stored) \in Nat
          /\ Len(rxFifo) \in Nat /\ lost \in Nat
      BY Lengths
    <3>4. Len(sent) + 1 = Len(stored) + (Len(rxFifo) + lost + 1)
      BY <3>1, <3>3
    <3>5. Len(sent) + 1 = Len(stored) + (Len(rxFifo') + lost')
      BY <2>1, <3>4
    <3> QED
      BY <2>3, <3>2, <3>3, <3>5
  <2> QED
    BY <2>2, <2>4, <2>5 DEF Conserved
<1>9. \A i \in 1..Len(txFifo') : txFifo'[i] = Sends(Len(sent') + i - 1)
  <2>1. ASSUME NEW i \in 1..Len(txFifo')
        PROVE  txFifo'[i] = Sends(Len(sent') + i - 1)
    <3>1. i + 1 \in 1..Len(txFifo)
      BY <1>3, Lengths
    <3>2. Len(sent') + i - 1 = Len(sent) + (i + 1) - 1
      BY <1>5, Lengths
    <3> QED
      BY <1>3, <3>1, <3>2 DEF Placed
  <2> QED
    BY <2>1
<1>10. \A i \in 1..Len(sent') : sent'[i] = Sends(i - 1)
  <2>1. sent'[Len(sent) + 1] = Sends(Len(sent))
    <3>1. 1 \in 1..Len(txFifo) /\ Len(sent) + 1 - 1 = Len(sent)
      BY <1>4, Lengths
    <3> QED
      BY <1>4, <1>5, <3>1 DEF Placed
  <2>2. ASSUME NEW i \in 1..Len(sent')
        PROVE  sent'[i] = Sends(i - 1)
    <3>1. CASE i \in 1..Len(sent)
      BY <1>5, <3>1 DEF Placed
    <3>2. CASE i = Len(sent) + 1
      <4>1. i - 1 = Len(sent)
        BY <3>2, Lengths
      <4> QED
        BY <2>1, <3>2, <4>1
    <3> QED
      BY <1>5, <3>1, <3>2, Lengths
  <2> QED
    BY <2>2
<1>11. lost' = 0 => \A i \in 1..Len(rxFifo') : rxFifo'[i] = Len(stored) + i
  <2> SUFFICES ASSUME lost' = 0, NEW i \in 1..Len(rxFifo')
               PROVE  rxFifo'[i] = Len(stored) + i
    OBVIOUS
  <2>1. /\ lost = 0 /\ Len(rxFifo') = Len(rxFifo) + 1
        /\ \A j \in 1..Len(rxFifo) : rxFifo'[j] = rxFifo[j]
        /\ rxFifo'[Len(rxFifo) + 1] = Len(sent) + 1
    BY <1>6, Lengths
  <2>2. CASE i \in 1..Len(rxFifo)
    BY <2>1, <2>2 DEF Placed
  <2>3. CASE i = Len(rxFifo) + 1
    BY <2>1, <2>3, Lengths DEF Conserved
  <2> QED
    BY <2>1, <2>2, <2>3, Lengths
<1>12. lost' = 0 => \A i \in 1..Len(stored) : stored[i][3] = i
  BY <1>6, Lengths DEF Placed
<1>13. \A i \in 1..Len(stored) : <<stored[i][1], stored[i][2]>> = Stores(i - 1)
  BY DEF Placed
<1>14. Placed'
  BY <1>1, <1>9, <1>10, <1>11, <1>12, <1>13 DEF Placed, Sends, Stores
<1> QED
  BY <1>7, <1>8, <1>14

\* An answer that is stored goes to the next place.
LEMMA InKept ==
  ASSUME SpiTypeOK, Flow, Conserved, Placed, DmaIn, UNCHANGED <<kind, len>>
  PROVE  Flow' /\ Conserved' /\ Placed'
<1> DEFINE e == <<in.at, Offset(in), Head(rxFifo)>>
<1>1. /\ rxFifo # <<>> /\ rxFifo' = Tail(rxFifo)
      /\ stored' = Append(stored, e)
      /\ in' = [in EXCEPT !.done = @ + 1] /\ Busy(in)
      /\ UNCHANGED <<out, txFifo, sent, lost>>
  BY DEF DmaIn
<1>2. /\ in'.done = in.done + 1 /\ in'.at = in.at
      /\ in'.inc = in.inc /\ in'.len = in.len
  BY <1>1, TransferAdvance DEF SpiTypeOK, DmaTypeOK
<1>3. rxFifo \in Seq(Nat) /\ stored \in Seq(Regions \X Nat \X Nat)
  BY DEF SpiTypeOK, DmaTypeOK
<1>4. /\ Len(rxFifo') = Len(rxFifo) - 1 /\ Head(rxFifo) \in Nat
      /\ \A i \in 1..Len(rxFifo') : rxFifo'[i] = rxFifo[i + 1]
  BY <1>1, <1>3, HeadTailProperties
<1>5. Head(rxFifo) = rxFifo[1] /\ Len(rxFifo) > 0
  BY <1>1, <1>3, EmptySeq
<1>6. e \in Regions \X Nat \X Nat
  BY <1>4 DEF Transfers, Offset, SpiTypeOK, DmaTypeOK
<1>7. /\ Len(stored') = Len(stored) + 1
      /\ \A i \in 1..Len(stored) : stored'[i] = stored[i]
      /\ stored'[Len(stored) + 1] = e
  <2> HIDE DEF e
  <2> QED
    BY <1>1, <1>3, <1>6, AppendProperties
<1>8. Flow'
  BY <1>1, <1>2 DEF Flow
<1>9. Conserved'
  <2>1. UNCHANGED <<out, txFifo, sent, lost, len>>
    BY <1>1
  <2>2. in'.done = Len(stored') /\ in'.done <= len
    BY <1>1, <1>2, <1>7, Lengths DEF Conserved, Flow, Busy
  <2>3. Len(sent) = Len(stored') + Len(rxFifo') + lost
    BY <1>4, <1>7, Lengths DEF Conserved
  <2> QED
    BY <2>1, <2>2, <2>3 DEF Conserved
<1>10. <<e[1], e[2]>> = Stores(in.done) /\ e[3] = Head(rxFifo)
  BY DEF Flow, Stores, Offset
<1>11. \A i \in 1..Len(stored') :
         <<stored'[i][1], stored'[i][2]>> = Stores(i - 1)
  <2>1. ASSUME NEW i \in 1..Len(stored')
        PROVE  <<stored'[i][1], stored'[i][2]>> = Stores(i - 1)
    <3>1. CASE i \in 1..Len(stored)
      BY <1>7, <3>1 DEF Placed
    <3>2. CASE i = Len(stored) + 1
      <4>1. i - 1 = in.done
        BY <3>2, Lengths DEF Conserved
      <4> QED
        BY <1>7, <1>10, <3>2, <4>1
    <3> QED
      BY <1>7, <3>1, <3>2, Lengths
  <2> QED
    BY <2>1
<1>12. lost = 0 => \A i \in 1..Len(rxFifo') : rxFifo'[i] = Len(stored') + i
  <2> SUFFICES ASSUME lost = 0, NEW i \in 1..Len(rxFifo')
               PROVE  rxFifo'[i] = Len(stored') + i
    OBVIOUS
  <2>1. i + 1 \in 1..Len(rxFifo) /\ rxFifo'[i] = rxFifo[i + 1]
    BY <1>4, Lengths
  <2>2. rxFifo[i + 1] = Len(stored) + (i + 1)
    BY <2>1 DEF Placed
  <2> QED
    BY <1>7, <2>1, <2>2, Lengths
<1>13. lost = 0 => \A i \in 1..Len(stored') : stored'[i][3] = i
  <2> SUFFICES ASSUME lost = 0, NEW i \in 1..Len(stored')
               PROVE  stored'[i][3] = i
    OBVIOUS
  <2>1. CASE i \in 1..Len(stored)
    BY <1>7, <2>1 DEF Placed
  <2>2. CASE i = Len(stored) + 1
    <3>1. 1 \in 1..Len(rxFifo)
      BY <1>5, Lengths
    <3>2. rxFifo[1] = Len(stored) + 1
      BY <3>1 DEF Placed
    <3> QED
      BY <1>5, <1>7, <1>10, <2>2, <3>2
  <2> QED
    BY <1>7, <2>1, <2>2, Lengths
<1>14. Placed'
  BY <1>1, <1>11, <1>12, <1>13 DEF Placed, Sends, Stores
<1> QED
  BY <1>8, <1>9, <1>14

\* When the inbound channel is done, so is everything else.
LEMMA ReturnComplete ==
  ASSUME SpiTypeOK, Flow, Conserved, Placed, ~Busy(in)
  PROVE  /\ txFifo = <<>> /\ rxFifo = <<>> /\ lost = 0 /\ ~Busy(out)
         /\ kind = "read" => stored = [i \in 1..len |-> <<"buf", i - 1, i>>]
         /\ kind = "write" => sent = [i \in 1..len |-> <<"buf", i - 1>>]
<1>1. /\ Len(txFifo) = 0 /\ Len(rxFifo) = 0 /\ lost = 0
      /\ Len(sent) = len /\ Len(stored) = len /\ out.done = len
  BY Lengths DEF Flow, Conserved, Busy
<1>2. /\ txFifo \in Seq(Regions \X Nat) /\ rxFifo \in Seq(Nat)
      /\ sent \in Seq(Regions \X Nat) /\ stored \in Seq(Regions \X Nat \X Nat)
  BY DEF SpiTypeOK, DmaTypeOK
<1>3. txFifo = <<>> /\ rxFifo = <<>>
  BY <1>1, <1>2, EmptySeq
<1>4. ~Busy(out)
  BY <1>1, Lengths DEF Flow, Busy
<1>5. ASSUME kind = "read"
      PROVE  stored = [i \in 1..len |-> <<"buf", i - 1, i>>]
  <2>1. stored \in [1..len -> Regions \X Nat \X Nat]
    BY <1>1, <1>2, LenProperties
  <2>2. ASSUME NEW i \in 1..len
        PROVE  stored[i] = <<"buf", i - 1, i>>
    <3>1. stored[i] \in Regions \X Nat \X Nat
      BY <2>1
    <3>2. stored[i][1] = "buf" /\ stored[i][2] = i - 1
      BY <1>1, <1>5 DEF Placed, Stores
    <3>3. stored[i][3] = i
      BY <1>1 DEF Placed
    <3> QED
      BY <3>1, <3>2, <3>3
  <2> QED
    BY <2>1, <2>2
<1>6. ASSUME kind = "write"
      PROVE  sent = [i \in 1..len |-> <<"buf", i - 1>>]
  <2>1. sent \in [1..len -> Regions \X Nat]
    BY <1>1, <1>2, LenProperties
  <2>2. ASSUME NEW i \in 1..len
        PROVE  sent[i] = <<"buf", i - 1>>
    BY <1>1, <1>6 DEF Placed, Sends
  <2> QED
    BY <2>1, <2>2
<1> QED
  BY <1>1, <1>3, <1>4, <1>5, <1>6

\* A transfer starts from idle channels and empty FIFOs.
LEMMA BurstExchange ==
  ASSUME SpiTypeOK, BurstInv, Exchange
  PROVE  BurstInv'
<1>1. /\ ~busy /\ txFifo = <<>> /\ rxFifo = <<>> /\ ~Busy(out) /\ ~Busy(in)
  BY DEF Exchange, ReadBurst, WriteBurst, Begin, ReadByte, WriteByte, BurstInv,
     TransferComplete
<1>2. ASSUME NEW n \in 0..MaxLen, ReadBurst(n) \/ WriteBurst(n)
      PROVE  BurstInv'
  <2>1. /\ busy' = TRUE /\ sent' = <<>> /\ stored' = <<>> /\ lost' = 0
        /\ txFifo' = <<>> /\ rxFifo' = <<>>
    BY <1>1, <1>2 DEF ReadBurst, WriteBurst, Begin, Start
  <2>2. \/ /\ kind' = "read" /\ len' = n
           /\ out' = Transfer("dummy", FALSE, n) /\ in' = Transfer("buf", TRUE, n)
        \/ /\ kind' = "write" /\ len' = n
           /\ out' = Transfer("buf", TRUE, n) /\ in' = Transfer("dummy", FALSE, n)
    BY <1>2 DEF ReadBurst, WriteBurst, Begin, Start
  <2>3. n \in Nat
    BY <1>2, LenAssumption
  <2>4. Flow' /\ out'.done = 0 /\ in'.done = 0 /\ len' \in Nat
    BY <2>2, <2>3 DEF Flow, Transfer
  <2>5. Conserved' /\ Placed'
    BY <2>1, <2>4 DEF Conserved, Placed
  <2> QED
    BY <2>1, <2>4, <2>5 DEF BurstInv, TransferComplete
<1>3. CASE ReadByte
  <2>1. Head(Append(rxFifo, 1)) = 1 /\ Tail(Append(rxFifo, 1)) = <<>>
    BY <1>1, HeadTailAppend, EmptyQueues
  <2>2. /\ kind' = "read" /\ len' = 1 /\ lost' = 0 /\ rxFifo' = <<>>
        /\ sent' = <<<<"dummy", 0>>>> /\ stored' = <<<<"buf", 0, 1>>>>
        /\ UNCHANGED <<out, in, txFifo, busy>>
    BY <1>3, <2>1 DEF ReadByte
  <2>3. stored' = [i \in 1..len' |-> <<"buf", i - 1, i>>]
    BY <2>2
  <2>4. StaysInBounds'
    BY <2>2 DEF StaysInBounds, InBounds
  <2> QED
    BY <1>1, <2>2, <2>3, <2>4 DEF BurstInv, TransferComplete, Busy
<1>4. CASE WriteByte
  <2>1. /\ kind' = "write" /\ len' = 1 /\ lost' = 0 /\ rxFifo' = <<>>
        /\ sent' = <<<<"buf", 0>>>> /\ stored' = <<>>
        /\ UNCHANGED <<out, in, txFifo, busy>>
    BY <1>4 DEF WriteByte
  <2>2. sent' = [i \in 1..len' |-> <<"buf", i - 1>>]
    BY <2>1
  <2>3. StaysInBounds'
    BY <2>1 DEF StaysInBounds, InBounds
  <2> QED
    BY <1>1, <2>1, <2>2, <2>3 DEF BurstInv, TransferComplete, Busy
<1> QED
  BY <1>2, <1>3, <1>4 DEF Exchange

\* The hardware moves bytes only while a burst waits for it.
LEMMA BurstHardware ==
  ASSUME SpiTypeOK, BurstInv, TransferStep, UNCHANGED burstVars
  PROVE  BurstInv'
<1>1. busy
  BY DEF TransferStep, DmaOut, Shift, DmaIn, BurstInv, TransferComplete
<1>2. UNCHANGED <<kind, len>> /\ busy'
  BY <1>1 DEF burstVars
<1>3. Flow' /\ Conserved' /\ Placed'
  BY <1>1, <1>2, OutKept, ShiftKept, InKept DEF TransferStep, BurstInv
<1> QED
  BY <1>2, <1>3 DEF BurstInv, TransferComplete

\* A burst that returns leaves idle channels and empty FIFOs.
LEMMA BurstDone ==
  ASSUME SpiTypeOK, BurstInv, BurstReturn
  PROVE  BurstInv'
<1>1. /\ ~Busy(in) /\ UNCHANGED <<out, in, txFifo, rxFifo, sent, stored, lost>>
      /\ UNCHANGED <<kind, len>> /\ busy' = FALSE
  BY DEF BurstReturn, dmaVars
<1>2. Flow /\ Conserved /\ Placed /\ StaysInBounds
  BY PlacedInBounds DEF BurstReturn, BurstInv
<1>3. TransferComplete'
  BY <1>1, <1>2, ReturnComplete DEF TransferComplete
<1>4. ~Busy(out)
  BY <1>1, <1>2, ReturnComplete
<1>5. StaysInBounds'
  BY <1>1, <1>2 DEF StaysInBounds, InBounds
<1> QED
  BY <1>1, <1>3, <1>4, <1>5 DEF BurstInv, Busy

\* Every step keeps the transfer invariant.
LEMMA BurstStep ==
  ASSUME TypeOK, BurstInv, [Next]_vars
  PROVE  BurstInv'
<1>1. ASSUME UNCHANGED <<dmaVars, burstVars>>
      PROVE  BurstInv'
  BY <1>1 DEF dmaVars, burstVars, BurstInv, TransferComplete, StaysInBounds,
     InBounds, Busy, Flow, Conserved, Placed, Sends, Stores
<1>2. CASE \/ UNCHANGED vars \/ AppCreate \/ AppDestroy \/ SetContext
          \/ TakeDefault \/ EnsureUp \/ Config \/ SetUp \/ Disable
  BY <1>1, <1>2 DEF vars, AppCreate, AppDestroy, SetContext, TakeDefault,
     EnsureUp, Config, SetUp, Disable, spiVars
<1>3. CASE ArchInit \/ ArchDeinit \/ ClaimTx \/ ClaimRx \/ AppChannels
  BY <1>1, <1>3 DEF ArchInit, ArchDeinit, DriverDeinit, ClaimTx, ClaimRx,
     AppChannels, AppClaim, AppRelease
<1>4. CASE SpiExchange
  BY <1>4, BurstExchange DEF SpiExchange, TypeOK
<1>5. CASE Hardware
  BY <1>5, BurstHardware DEF Hardware, TypeOK
<1>6. CASE Return
  BY <1>6, BurstDone DEF Return, TypeOK
<1> QED
  BY <1>2, <1>3, <1>4, <1>5, <1>6 DEF Next

\* The transfer invariant holds in every reachable state.
LEMMA BurstInvariant == Spec => [](TypeOK /\ BurstInv)
<1>1. Init => BurstInv
  <2> SUFFICES ASSUME Init PROVE BurstInv
    OBVIOUS
  <2>1. /\ txFifo = <<>> /\ rxFifo = <<>> /\ sent = <<>> /\ stored = <<>>
        /\ lost = 0 /\ kind = "none" /\ ~busy
        /\ out = Transfer("dummy", FALSE, 0) /\ in = Transfer("buf", TRUE, 0)
    BY DEF Init, SpiInit, DmaInit
  <2>2. ~Busy(out) /\ ~Busy(in)
    BY <2>1 DEF Busy, Transfer
  <2>3. TransferComplete /\ StaysInBounds
    BY <2>1 DEF TransferComplete, StaysInBounds
  <2> QED
    BY <2>1, <2>2, <2>3 DEF BurstInv
<1>2. TypeOK /\ BurstInv /\ [Next]_vars => TypeOK' /\ BurstInv'
  BY TypeStep, BurstStep
<1> QED
  BY <1>1, <1>2, InitTypes, PTL DEF Spec

\* A burst that returns has moved every byte, in order, and leaves nothing
\* behind: waiting for the inbound channel alone is enough.
THEOREM BurstsComplete == Spec => []TransferComplete
<1>1. BurstInv => TransferComplete
  BY DEF BurstInv
<1> QED
  BY <1>1, BurstInvariant, PTL

\* No transfer reads or writes outside the caller's buffer, also while it runs.
THEOREM BurstsInBounds == Spec => []StaysInBounds
<1>1. TypeOK /\ BurstInv => StaysInBounds
  BY PlacedInBounds DEF BurstInv, TypeOK
<1> QED
  BY <1>1, BurstInvariant, PTL

\* A burst that has lost nothing is never stuck, whatever the depth of the
\* FIFOs: if nothing waits in them, fewer bytes went out than are expected.
THEOREM BurstsMove == Spec => []BurstCanMove
<1>1. TypeOK /\ BurstInv => BurstCanMove
  <2> SUFFICES ASSUME TypeOK, BurstInv, busy, lost = 0, txFifo = <<>>,
                      Busy(in), rxFifo = <<>>
               PROVE  Busy(out) /\ Len(txFifo) < FifoDepth
    BY DEF BurstCanMove
  <2>1. SpiTypeOK /\ Flow /\ Conserved
    BY DEF TypeOK, BurstInv
  <2>2. Len(txFifo) = 0 /\ Len(rxFifo) = 0
    OBVIOUS
  <2>3. in.done < len /\ out.done = in.done
    BY <2>1, <2>2, Lengths DEF Flow, Conserved, Busy
  <2> QED
    BY <2>1, <2>2, <2>3, DmaAssumption DEF Flow, Busy
<1> QED
  BY <1>1, BurstInvariant, PTL

\* What is left to do of a burst: every byte is fetched, exchanged and stored.
BurstLeft == 3 * (out.len - out.done) + 2 * Len(txFifo) + (in.len - in.done)

\* ... and moving brings it nearer to its end: each step of a channel or of the
\* port takes a byte one stage on, and no byte is taken on for ever.
LEMMA BurstRunsDown ==
  ASSUME SpiTypeOK, Flow, Conserved, TransferStep
  PROVE  BurstLeft \in Nat /\ BurstLeft' < BurstLeft
<1> DEFINE Left(o, n, i) == 3 * o + 2 * n + i
<1>0. \A o, n, i, p, m, j \in Nat :
        /\ Left(o, n, i) \in Nat
        /\ o = p + 1 /\ m = n + 1 /\ j = i => Left(p, m, j) < Left(o, n, i)
        /\ p = o /\ n = m + 1 /\ j = i => Left(p, m, j) < Left(o, n, i)
        /\ p = o /\ m = n /\ i = j + 1 => Left(p, m, j) < Left(o, n, i)
  OBVIOUS
<1>1. /\ out \in Transfers /\ in \in Transfers
      /\ out.done <= out.len /\ in.done <= in.len
      /\ txFifo \in Seq(Regions \X Nat) /\ Len(txFifo) \in Nat
  BY Lengths DEF SpiTypeOK, DmaTypeOK, Flow, Conserved
<1>2. /\ out.len \in Nat /\ out.done \in Nat
      /\ in.len \in Nat /\ in.done \in Nat
  BY <1>1 DEF Transfers
<1> DEFINE O == out.len - out.done   N == Len(txFifo)   I == in.len - in.done
<1>3. O \in Nat /\ N \in Nat /\ I \in Nat /\ BurstLeft = Left(O, N, I)
  BY <1>1, <1>2 DEF BurstLeft
<1>4. BurstLeft' = Left(O', N', I')
  BY DEF BurstLeft
<1> SUFFICES /\ O' \in Nat /\ N' \in Nat /\ I' \in Nat
             /\ \/ O = O' + 1 /\ N' = N + 1 /\ I' = I
                \/ O' = O /\ N = N' + 1 /\ I' = I
                \/ O' = O /\ N' = N /\ I = I' + 1
  BY <1>0, <1>3, <1>4
<1>5. CASE DmaOut
  <2>1. Len(txFifo') = Len(txFifo) + 1 /\ UNCHANGED in /\ Busy(out)
    BY <1>1, <1>5 DEF DmaOut, Offset, Transfers, Regions
  <2>2. out'.len = out.len /\ out'.done = out.done + 1
    BY <1>1, <1>5, TransferAdvance DEF DmaOut
  <2> QED
    BY <1>1, <1>2, <2>1, <2>2 DEF Busy
<1>6. CASE Shift
  <2>1. Len(txFifo') = Len(txFifo) - 1 /\ UNCHANGED <<out, in>>
    BY <1>1, <1>6 DEF Shift
  <2> QED
    BY <1>1, <1>2, <2>1
<1>7. CASE DmaIn
  <2>1. UNCHANGED <<out, txFifo>> /\ Busy(in)
    BY <1>7 DEF DmaIn
  <2>2. in'.len = in.len /\ in'.done = in.done + 1
    BY <1>1, <1>7, TransferAdvance DEF DmaIn
  <2> QED
    BY <1>1, <1>2, <2>1, <2>2 DEF Busy
<1> QED
  BY <1>5, <1>6, <1>7 DEF TransferStep
=============================================================================
