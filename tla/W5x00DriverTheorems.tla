------------------------ MODULE W5x00DriverTheorems ------------------------
(***************************************************************************)
(* What the lemmas of W5x00DriverProofs add up to: the safety properties   *)
(* of the driver core as theorems of Spec, and the receive path as an      *)
(* implementation of a lossy FIFO.                                         *)
(***************************************************************************)
EXTENDS W5x00DriverProofs

USE ChipAssumption, ContextAssumption, DriverAssumption
USE DEF vars, chipVars, lockVars, workVars, irqVars, drvVars, netVars, bufVars,
        callVars

----------------------------------------------------------------------------
(* Without assumptions on lwIP or on how applications disable.             *)

\* The initial state satisfies the general inductive invariant.
LEMMA InitInductive == Init => Inductive
<1> SUFFICES ASSUME Init PROVE Inductive
  OBVIOUS
<1> USE DEF Init, ChipInit, ContextInit
<1>1. ChipTypeOK
  BY RxEmpty DEF ChipTypeOK
<1>2. ContextTypeOK
  BY DEF ContextTypeOK
<1>3. DriverTypeOK
  <2>1. sleep \in 0..SleepMax
    BY DriverAssumption
  <2> QED
    BY <2>1 DEF DriverTypeOK, LinkStates
<1>4. ethFrame \in Frames
  BY DEF RxFrame, Frames
<1>5. BufferTypeOK
  BY <1>4, EmptySeq DEF BufferTypeOK
<1>6. CallTypeOK
  BY DEF CallTypeOK, BgLabels, Labels, Ops
<1>7. LockInv
  BY DEF LockInv, Holding, LockedLabels, StopLabels, DisableLabels
<1>8. CallInv
  BY DEF CallInv, NestedLabels, BringUpLabels, SetUpLabels, StopLabels,
     DisableLabels, DeinitLabels
<1>9. QuietInv
  BY DEF QuietInv, AppThreads
<1>10. WorkerInv
  BY DEF WorkerInv, Unhooked
<1>11. IrqInv
  BY DEF IrqInv, MaskedIrqIsServiced
<1>12. SleepInv /\ ItfPolled
  BY DEF SleepInv, SleepChainUnbroken, ItfPolled
<1> QED
  BY <1>1, <1>2, <1>3, <1>5, <1>6, <1>7, <1>8, <1>9, <1>10, <1>11, <1>12
     DEF Inductive, TypeOK

\* Every step preserves the general inductive invariant.
LEMMA InductiveStep == Inductive /\ [Next]_vars => Inductive'
<1> SUFFICES ASSUME Inductive, [Next]_vars PROVE Inductive'
  OBVIOUS
<1>1. /\ ChipTypeOK /\ ContextTypeOK /\ DriverTypeOK /\ BufferTypeOK
      /\ CallTypeOK /\ LockInv /\ CallInv /\ QuietInv /\ WorkerInv /\ IrqInv
      /\ SleepInv /\ ItfPolled
  BY DEF Inductive, TypeOK
<1>2. TypeOK'
  BY <1>1, ChipTypeStep, ContextTypeStep, DriverTypeStep, BufferTypeStep,
     CallTypeStep DEF TypeOK
<1>3. LockInv' /\ CallInv' /\ QuietInv'
  BY <1>1, LockStep, CallStep, QuietStep
<1>4. WorkerInv' /\ IrqInv' /\ SleepInv' /\ ItfPolled'
  BY <1>1, WorkerStep, IrqStep, SleepStep, ItfPolledStep
<1> QED
  BY <1>2, <1>3, <1>4 DEF Inductive

\* The general inductive invariant holds in every reachable state.
THEOREM InductiveInvariant == Spec => []Inductive
<1> QED
  BY InitInductive, InductiveStep, PTL DEF Spec

\* Every variable of the driver, the chip and the context keeps its type.
THEOREM TypeCorrect == Spec => []TypeOK
<1>1. Inductive => TypeOK
  BY DEF Inductive
<1> QED
  BY <1>1, InductiveInvariant, PTL

\* w5x00_gpio_irq_handler masks the interrupt; a poll that will reach
\* w5x00_post_poll_hook and unmask it is then pending or under way.
THEOREM MaskedIrqServiced == Spec => []MaskedIrqIsServiced
<1>1. Inductive => MaskedIrqIsServiced
  BY DEF Inductive, IrqInv
<1> QED
  BY <1>1, InductiveInvariant, PTL

\* w5x00_do_poll, the timer it arms and the worker the timer sets pending
\* form a chain that is not broken before w5x00_sleep has run down.
THEOREM SleepChain == Spec => []SleepChainUnbroken
<1>1. Inductive => SleepChainUnbroken
  BY DEF Inductive, SleepInv
<1> QED
  BY <1>1, InductiveInvariant, PTL

\* Each of the nine returns of the locked calls, and each of the three of
\* wiznet5k_recv_ethernet, gives back just what its own function entered: no
\* call returns with the lock held, none goes on without it after a nested one.
THEOREM LockReturned == Spec => []LockGivenBack
<1>1. Inductive => LockGivenBack
  <2> SUFFICES ASSUME Inductive PROVE LockGivenBack
    OBVIOUS
  <2>1. LockInv
    BY DEF Inductive
  <2>2. ASSUME NEW t \in Threads, pc[t] \in {"idle", "lock"}
        PROVE  owner # t
    BY <2>1, <2>2 DEF LockInv, Holding, LockedLabels, StopLabels, DisableLabels
  <2>3. ASSUME NEW t \in Threads, pc[t] \in LockedLabels
        PROVE  owner = t
    BY <2>1, <2>3 DEF LockInv, Holding
  <2> QED
    BY <2>1, <2>2, <2>3 DEF LockInv, LockGivenBack
<1> QED
  BY <1>1, InductiveInvariant, PTL

\* Calls and lwIP leave the handler alone; the poll unmasks only while it is
\* installed, because w5x00_driver_deinit waits for the poll.
LEMMA HandlerStep ==
  ASSUME CallTypeOK, CallInv, WorkerInv, HandlerInv, [Next]_vars
  PROVE  HandlerInv'
<1> USE DEF HandlerInv, IrqHasHandler, CallTypeOK, CallInv, DeinitLabels,
       StopLabels
<1>1. CASE \/ UNCHANGED vars \/ Network \/ SleepTimeoutReached \/ GpioIrq
          \/ DoPoll \/ PollPin \/ RecvEnter \/ RecvEmpty \/ RecvFrame
          \/ RecvError \/ ProcessFrame \/ DropFrame \/ ClearInterrupt
          \/ Reschedule
  <2>1. /\ UNCHANGED <<handler, initted, pc, op>>
        /\ irqEnabled' => irqEnabled
    BY <1>1 DEF Network, GpioIrq, SleepTimeoutReached, DoPoll, PollPin,
       RecvEnter, RecvEmpty, RecvFrame, RecvError, ProcessFrame, DropFrame,
       ClearInterrupt, Reschedule
  <2> QED
    BY <2>1
<1>2. CASE PostPollHook
  BY <1>2 DEF PostPollHook, WorkerInv, Unhooked
<1>3. CASE DriverInit \/ Deinit \/ InitWorker
  BY <1>3 DEF DriverInit, Deinit, InitWorker, Return, Goto, WorkerInv
<1>4. CASE DeinitStep
  <2>1. /\ Main \in Threads
        /\ pc \in [Threads -> Labels] /\ op \in [Threads -> Ops]
    BY DriverAssumption
  <2>2. CASE DeinitTimer \/ DeinitWorker
    <3>1. /\ UNCHANGED <<irqEnabled, handler, initted, op>>
          /\ pc[Main] \in {"dei_timer", "dei_worker"}
          /\ pc'[Main] \in {"dei_worker", "dei_handler"}
      BY <2>1, <2>2 DEF DeinitTimer, DeinitWorker, Goto
    <3> QED
      BY <3>1
  <2>3. CASE DeinitHandler
    <3>1. /\ UNCHANGED op
          /\ pc[Main] = "dei_handler" /\ pc'[Main] = "dei_irq"
      BY <2>1, <2>3 DEF DeinitHandler, Goto
    <3>2. op[Main] = "deinit"
      BY <3>1
    <3> QED
      BY <3>1, <3>2
  <2>4. CASE DeinitIrq
    <3>1. /\ UNCHANGED op /\ irqEnabled' = FALSE
          /\ pc[Main] = "dei_irq" /\ pc'[Main] = "stop"
      BY <2>1, <2>4 DEF DeinitIrq, Goto
    <3>2. op[Main] = "deinit"
      BY <3>1
    <3> QED
      BY <3>1, <3>2
  <2>5. CASE DeinitSpi
    <3>1. /\ UNCHANGED <<irqEnabled, handler, op>>
          /\ pc[Main] = "dei_spi" /\ pc'[Main] = "dei_state"
      BY <2>1, <2>5 DEF DeinitSpi, Goto
    <3>2. op[Main] = "deinit"
      BY <3>1
    <3> QED
      BY <3>1, <3>2
  <2>6. CASE DeinitState \/ DeinitArch
    <3>1. UNCHANGED <<irqEnabled, handler>>
      BY <2>6 DEF DeinitState, DeinitArch
    <3>2. pc[Main] \in {"dei_state", "dei_arch"}
      BY <2>6 DEF DeinitState, DeinitArch, Goto, Return
    <3>3. ~initted'
      BY <2>6, <3>2 DEF DeinitState, DeinitArch, Goto, Return, WorkerInv
    <3> QED
      BY <3>1, <3>2, <3>3
  <2> QED
    BY <1>4, <2>2, <2>3, <2>4, <2>5, <2>6 DEF DeinitStep
<1>5. ASSUME NEW t \in Threads,
             ThreadStep(t) \/ Disable(t) \/ (\E o \in Ops : Call(t, o))
      PROVE  HandlerInv'
  <2>1. UNCHANGED <<handler, irqEnabled, initted>>
    BY <1>5, ExitFrame DEF ThreadStep, ThreadEnter, SetUpBody, JoinBody,
       OutputBody, EnsureUp, EnsureUpSpi, EnsureUpConfig, EnsureUpKick,
       SetUpNetif, SetUpUp, SetUpItf, JoinLink, JoinState, SendFrame,
       StopTransmit, StopSend, NetifRemove, DisableCheck, DisableItf, Disable,
       Call
  <2>2. \/ op' = op
        \/ op' = [op EXCEPT ![t] = "none"]
        \/ op[t] = "none" /\ \E o \in Ops \ {"init", "deinit"} :
                               op' = [op EXCEPT ![t] = o]
    BY <1>5, ExitPath DEF ThreadStep, ThreadEnter, SetUpBody, JoinBody,
       OutputBody, EnsureUp, EnsureUpSpi, EnsureUpConfig, EnsureUpKick,
       SetUpNetif, SetUpUp, SetUpItf, JoinLink, JoinState, SendFrame,
       StopTransmit, StopSend, NetifRemove, DisableCheck, DisableItf,
       DisableReturn, Return, Disable, Call, Goto, Ops
  <2>3. pc[t] \notin DeinitLabels
    BY <1>5, ExitPath DEF ThreadStep, ThreadEnter, SetUpBody, JoinBody,
       OutputBody, EnsureUp, EnsureUpSpi, EnsureUpConfig, EnsureUpKick,
       SetUpNetif, SetUpUp, SetUpItf, JoinLink, JoinState, SendFrame,
       StopTransmit, StopSend, NetifRemove, DisableCheck, DisableItf,
       DisableReturn, Return, Disable, Call, Goto
  <2>4. \A u \in Threads \ {t} : pc'[u] = pc[u]
    BY <1>5, ExitPath DEF ThreadStep, ThreadEnter, SetUpBody, JoinBody,
       OutputBody, EnsureUp, EnsureUpSpi, EnsureUpConfig, EnsureUpKick,
       SetUpNetif, SetUpUp, SetUpItf, JoinLink, JoinState, SendFrame,
       StopTransmit, StopSend, NetifRemove, DisableCheck, DisableItf,
       DisableReturn, Return, Disable, Call, Goto
  <2>5. CASE t = Main
    <3>1. IrqHasHandler'
      BY <2>1, <2>3, <2>5
    <3>2. ASSUME pc[t] \in StopLabels
          PROVE  /\ UNCHANGED op
                 /\ pc'[t] \in {"stop_send", "remove", "dis_itf", "dei_spi"}
      <4>1. StopTransmit(t) \/ StopSend(t) \/ NetifRemove(t)
        BY <1>5, <3>2, ExitPath DEF ThreadStep, ThreadEnter, SetUpBody,
           JoinBody, OutputBody, EnsureUp, EnsureUpSpi, EnsureUpConfig,
           EnsureUpKick, SetUpNetif, SetUpUp, SetUpItf, JoinLink, JoinState,
           SendFrame, DisableCheck, DisableItf, DisableReturn, Disable, Call,
           Goto, Return
      <4> QED
        BY <3>2, <4>1 DEF StopTransmit, StopSend, NetifRemove, Goto
    <3>3. CASE op[Main] = "deinit"
      <4>1. pc[t] \in StopLabels
        BY <2>3, <2>5, <3>3
      <4> QED
        BY <2>5, <3>1, <3>2, <3>3, <4>1
    <3>4. CASE op[Main] # "deinit"
      BY <2>1, <3>1, <3>4
    <3> QED
      BY <3>3, <3>4
  <2>6. CASE t # Main
    BY <2>1, <2>2, <2>4, <2>6
  <2> QED
    BY <2>5, <2>6
<1> QED
  BY <1>1, <1>2, <1>3, <1>4, <1>5 DEF Next, BgStep, LifecycleStep

\* The level interrupt is never left enabled without its handler, except
\* between the two halves of w5x00_irq_deinit.
THEOREM IrqWindow == Spec => []IrqHasHandler
<1>1. Init => HandlerInv
  BY DEF Init, HandlerInv, IrqHasHandler
<1>2. Inductive /\ HandlerInv /\ [Next]_vars => HandlerInv'
  BY HandlerStep DEF Inductive, TypeOK
<1>3. HandlerInv => IrqHasHandler
  BY DEF HandlerInv
<1> QED
  BY <1>1, <1>2, <1>3, InductiveInvariant, PTL DEF Spec

----------------------------------------------------------------------------
(* With lwIP's threads kept out of deinit.                                 *)

\* The specification that TLC checks is the one the next theorems are about.
LEMMA StackOutBehaviours == Spec /\ []StackOut <=> StackOutSpec
<1>1. Init => StackOut
  BY DEF Init, StackOut, Unhooked
<1>2. StackOut /\ UNCHANGED vars => StackOut'
  BY DEF StackOut, Unhooked
<1>3. [Next /\ StackOut']_vars <=> [Next]_vars /\ (StackOut' \/ UNCHANGED vars)
  OBVIOUS
<1> QED
  BY <1>1, <1>2, <1>3, PTL DEF Spec, StackOutSpec

\* With lwIP's threads out of the way nobody is left in the driver once deinit
\* has removed the worker: applications are quiet, and it waited for the poll.
THEOREM DeinitIsAlone == StackOutSpec => []DeinitAlone
<1>1. Inductive /\ StackOut => DeinitAlone
  <2> SUFFICES ASSUME Inductive, StackOut, Unhooked PROVE owner = NoOwner
    BY DEF DeinitAlone
  <2>1. ContextTypeOK /\ LockInv /\ CallInv /\ QuietInv /\ WorkerInv
    BY DEF Inductive, TypeOK
  <2>2. owner # Bg
    BY <2>1 DEF WorkerInv, LockInv
  <2>3. ASSUME NEW t \in Threads
        PROVE  owner # t
    <3>1. CASE t = Main
      BY <2>1, <3>1 DEF Unhooked, LockInv, CallInv, Holding, LockedLabels,
         StopLabels, DeinitLabels
    <3>2. CASE t \in AppThreads \ {Main}
      <4>1. pc[t] = "idle"
        BY <2>1, <3>2 DEF QuietInv, Unhooked
      <4> QED
        BY <2>1, <4>1 DEF LockInv, Holding, LockedLabels, StopLabels,
           DisableLabels
    <3>3. CASE t \in StackThreads
      BY <3>3 DEF StackOut
    <3> QED
      BY <3>1, <3>2, <3>3 DEF AppThreads
  <2> QED
    BY <2>1, <2>2, <2>3 DEF ContextTypeOK
<1> QED
  BY <1>1, InductiveInvariant, StackOutBehaviours, PTL

\* The initial state, and every step, satisfies the driver state's invariant.
LEMMA PollInvariant == StackOutSpec => []PollInv
<1>1. Init => PollInv
  BY DEF Init, ChipInit, ContextInit, PollInv, LockHasContext, BringUpLabels
<1>2. Inductive /\ DeinitAlone /\ PollInv /\ [Next]_vars => PollInv'
  BY PollStep DEF Inductive, TypeOK
<1> QED
  BY <1>1, <1>2, InductiveInvariant, StackOutBehaviours, DeinitIsAlone, PTL
     DEF Spec

\* w5x00_do_poll never runs into a deinit or a chip reset: everything that
\* w5x00_poll_func uses is there from its first to its last step.
THEOREM PollFindsDriver == StackOutSpec => []PollHasDriver
<1>1. Inductive /\ PollInv => PollHasDriver
  <2> SUFFICES ASSUME Inductive, PollInv, bg # "idle"
               PROVE  /\ poll /\ initted /\ context /\ dma
                      /\ ~held /\ unmasked
    BY DEF PollHasDriver
  <2>1. WorkerInv /\ CallInv
    BY DEF Inductive
  <2>2. poll
    BY <2>1 DEF WorkerInv
  <2>3. pc[Main] # "dei_state"
    BY <2>1 DEF WorkerInv, Unhooked, CallInv, DeinitLabels
  <2> QED
    BY <2>2, <2>3 DEF PollInv
<1> QED
  BY <1>1, InductiveInvariant, StackOutBehaviours, PollInvariant, PTL

\* Whoever reads itf_state as 1 finds a configured chip and w5x00_poll set.
THEOREM ItfRunning == StackOutSpec => []ItfMeansRunning
<1>1. Inductive /\ PollInv => ItfMeansRunning
  BY DEF Inductive, ItfPolled, PollInv, ItfMeansRunning
<1> QED
  BY <1>1, InductiveInvariant, StackOutBehaviours, PollInvariant, PTL

\* Whoever holds the lock can give it back: w5x00_async_context is not cleared
\* under it, by a deinit that takes no lock itself.
THEOREM HolderHasContext == StackOutSpec => []LockHasContext
<1>1. PollInv => LockHasContext
  BY DEF PollInv
<1> QED
  BY <1>1, PollInvariant, PTL

----------------------------------------------------------------------------
(* With w5x00_arch_disable_ethernet bracketed by applications.             *)

\* The initial state, and every step, satisfies the netif list's invariant.
LEMMA NetifInvariant ==
  ASSUME DisableLocked PROVE Spec => []NetifInv
<1>1. Init => NetifInv
  BY DEF Init, NetifInv, ListedMeansItf
<1>2. Inductive /\ NetifInv /\ [Next]_vars => NetifInv'
  BY NetifStep DEF Inductive, TypeOK
<1> QED
  BY <1>1, <1>2, InductiveInvariant, PTL DEF Spec

\* No netif stays in lwIP's list once itf_state is 0.
THEOREM ListedItf ==
  ASSUME DisableLocked PROVE Spec => []ListedMeansItf
<1>1. NetifInv => ListedMeansItf
  BY DEF NetifInv
<1> QED
  BY <1>1, NetifInvariant, PTL

----------------------------------------------------------------------------
(* With both.                                                              *)

\* A frame being sent is not overwritten in eth_frame, the one buffer that
\* every sender and the receive path share.
THEOREM TxFrameKept ==
  ASSUME DisableLocked PROVE StackOutSpec => []TxFrameIntact
<1>1. Init => TxFrameIntact
  BY DEF Init, TxFrameIntact
<1>2. Inductive /\ DeinitAlone /\ TxFrameIntact /\ [Next]_vars => TxFrameIntact'
  BY TxFrameStep DEF Inductive, TypeOK
<1> QED
  BY <1>1, <1>2, InductiveInvariant, StackOutBehaviours, DeinitIsAlone, PTL
     DEF Spec

\* No two actors are inside lwIP at once: inside it a call holds the lock,
\* a poll holds the lock, and deinit has outlived every other actor.
THEOREM LwipIsExclusive ==
  ASSUME DisableLocked PROVE StackOutSpec => []LwipExclusive
<1>1. Inductive /\ DeinitAlone => LwipExclusive
  <2> SUFFICES ASSUME Inductive, DeinitAlone,
                      NEW a \in LwipUsers, NEW b \in LwipUsers
               PROVE  a = b
    BY DEF LwipExclusive
  <2> DEFINE Stopping(t) == t = Main /\ op[Main] = "deinit" /\ pc[Main] \in StopLabels
  <2>1. LockInv /\ CallInv /\ WorkerInv
    BY DEF Inductive
  <2>2. ASSUME NEW t \in Threads, InLwip(t), ~Stopping(t)
        PROVE  owner = t
    BY <2>1, <2>2 DEF InLwip, CallInv, LockInv, Holding, LockedLabels,
       StopLabels, NestedLabels
  <2>3. Stopping(Main) => owner = NoOwner
    BY DEF DeinitAlone, Unhooked, StopLabels
  <2>4. ASSUME NEW t \in Threads, InLwip(t), Stopping(Main)
        PROVE  t = Main
    BY <2>2, <2>3, <2>4
  <2>5. bg = "process" => owner = Bg
    BY <2>1 DEF LockInv
  <2>6. \A c \in LwipUsers : \/ c \in Threads /\ InLwip(c)
                             \/ c = Bg /\ bg = "process"
    BY DEF LwipUsers
  <2>7. CASE Stopping(Main)
    BY <2>3, <2>4, <2>5, <2>6, <2>7
  <2>8. CASE ~Stopping(Main)
    <3>1. \A c \in LwipUsers : owner = c
      BY <2>2, <2>5, <2>6, <2>8
    <3> QED
      BY <3>1
  <2> QED
    BY <2>7, <2>8
<1> QED
  BY <1>1, InductiveInvariant, StackOutBehaviours, DeinitIsAlone, PTL

----------------------------------------------------------------------------
(* The receive path implements FrameDelivery.                              *)

\* One frame put before a sequence: its head and its tail.
LEMMA HeadOfCons ==
  ASSUME NEW S, NEW s \in Seq(S), NEW e \in S
  PROVE  <<e>> \o s # <<>> /\ Head(<<e>> \o s) = e /\ Tail(<<e>> \o s) = s
OBVIOUS

\* Appending commutes with a frame put before the sequence.
LEMMA AppendToCons ==
  ASSUME NEW S, NEW s \in Seq(S), NEW e \in S, NEW f \in S
  PROVE  Append(<<e>> \o s, f) = <<e>> \o Append(s, f)
OBVIOUS

\* A sequence is its head before its tail.
LEMMA ConsHeadTail ==
  ASSUME NEW S, NEW s \in Seq(S), s # <<>>
  PROVE  <<Head(s)>> \o Tail(s) = s
OBVIOUS

\* The receive buffer, and with the frame being processed the frames in
\* flight, are sequences of frames.
LEMMA RxFrames ==
  ASSUME ChipTypeOK, BufferTypeOK
  PROVE  rx \in Seq(Frames) /\ ethFrame \in Frames
<1>1. {"rx"} \X Nat \subseteq Frames
  BY DEF Frames
<1>2. Seq({"rx"} \X Nat) \subseteq Seq(Frames)
  BY <1>1, SeqMonotonic
<1> QED
  BY <1>2 DEF ChipTypeOK, BufferTypeOK

\* A step of the network: the frame joins those in flight, or is lost.
LEMMA NetworkArrives ==
  ASSUME ChipTypeOK, BufferTypeOK, Network
  PROVE  Fifo!Arrive
<1>1. rx \in Seq(Frames) /\ ethFrame \in Frames /\ RxFrame(arrived + 1) \in Frames
  BY RxFrames DEF ChipTypeOK, RxFrame, Frames
<1>2. /\ arrived' = arrived + 1
      /\ rx' = rx \/ rx' = Append(rx, RxFrame(arrived + 1))
      /\ UNCHANGED <<ethFrame, delivered, bg>>
  BY DEF Network, FrameArrives
<1>3. CASE rx' = rx
  BY <1>2, <1>3 DEF Fifo!Arrive, InFlight
<1>4. CASE rx' = Append(rx, RxFrame(arrived + 1))
  <2>1. InFlight' = Append(InFlight, RxFrame(arrived + 1))
    BY <1>1, <1>2, <1>4, AppendToCons DEF InFlight
  <2> QED
    BY <2>1, <1>2 DEF Fifo!Arrive
<1> QED
  BY <1>2, <1>3, <1>4

\* recvfrom() moves the oldest frame to eth_frame: nothing changes in flight.
LEMMA RecvKeepsInFlight ==
  ASSUME ChipTypeOK, BufferTypeOK, RecvFrame
  PROVE  UNCHANGED <<arrived, InFlight, delivered>>
<1>1. rx \in Seq(Frames) /\ rx # <<>>
  BY RxFrames DEF RecvFrame
<1>2. /\ bg = "take" /\ bg' = "process"
      /\ ethFrame' = Head(rx) /\ rx' = Tail(rx)
      /\ UNCHANGED <<arrived, delivered>>
  BY DEF RecvFrame, TakeFrame
<1> QED
  BY <1>1, <1>2, ConsHeadTail DEF InFlight

\* w5x00_cb_process_ethernet gives the oldest frame to lwIP.
LEMMA ProcessDelivers ==
  ASSUME ChipTypeOK, BufferTypeOK, ProcessFrame
  PROVE  Fifo!Deliver
<1>1. rx \in Seq(Frames) /\ ethFrame \in Frames
  BY RxFrames
<1>2. /\ bg = "process" /\ bg' = "recv"
      /\ delivered' = Append(delivered, ethFrame)
      /\ UNCHANGED <<rx, arrived>>
  BY DEF ProcessFrame
<1>3. InFlight = <<ethFrame>> \o rx /\ InFlight' = rx
  BY <1>2 DEF InFlight
<1>4. InFlight # <<>> /\ Head(InFlight) = ethFrame /\ Tail(InFlight) = rx
  BY <1>1, <1>3, HeadOfCons
<1> QED
  BY <1>2, <1>3, <1>4 DEF Fifo!Deliver

\* ... or drops it.
LEMMA DropLoses ==
  ASSUME ChipTypeOK, BufferTypeOK, DropFrame
  PROVE  Fifo!Lose
<1>1. rx \in Seq(Frames) /\ ethFrame \in Frames
  BY RxFrames
<1>2. bg = "process" /\ bg' = "recv" /\ UNCHANGED <<rx, arrived, delivered>>
  BY DEF DropFrame
<1>3. InFlight = <<ethFrame>> \o rx /\ InFlight' = rx
  BY <1>2 DEF InFlight
<1>4. InFlight # <<>> /\ Tail(InFlight) = rx
  BY <1>1, <1>3, HeadOfCons
<1> QED
  BY <1>2, <1>3, <1>4 DEF Fifo!Lose

\* A step with no poll in progress at which the buffer in the chip is emptied
\* or left alone loses all frames in flight or none.
LEMMA ResetLoses ==
  ASSUME bg # "process", bg' # "process",
         rx' = rx \/ rx' = <<>>, UNCHANGED <<arrived, delivered>>
  PROVE  Fifo!Lose \/ UNCHANGED <<arrived, InFlight, delivered>>
BY DEF InFlight, Fifo!Lose

\* Whoever holds the lock, or comes after the poll worker was removed, runs
\* while no poll is in progress.
LEMMA NoPoll ==
  ASSUME LockInv, CallInv, WorkerInv, DisableLocked, NEW t \in Threads,
         \/ pc[t] \in LockedLabels \cup DisableLabels
         \/ pc[t] \in StopLabels
  PROVE  bg = "idle"
<1>1. CASE Holding(t)
  <2>1. owner = t
    BY <1>1 DEF LockInv
  <2> QED
    BY <2>1 DEF LockInv
<1>2. CASE ~Holding(t)
  <2>1. t = Main /\ op[Main] = "deinit" /\ pc[Main] \in StopLabels
    BY <1>2 DEF Holding, CallInv, StopLabels, DisableLabels
  <2> QED
    BY <2>1 DEF WorkerInv, Unhooked, StopLabels
<1> QED
  BY <1>1, <1>2

\* Every step of the driver is a step of the lossy FIFO or none of its own.
LEMMA FifoStep ==
  ASSUME DisableLocked, Inductive, [Next]_vars
  PROVE  Fifo!Next \/ UNCHANGED <<arrived, InFlight, delivered>>
<1> DEFINE Stays == UNCHANGED <<arrived, InFlight, delivered>>
<1>0. /\ ChipTypeOK /\ BufferTypeOK /\ CallTypeOK
      /\ LockInv /\ CallInv /\ WorkerInv
  BY DEF Inductive, TypeOK
<1>1. CASE \/ UNCHANGED vars \/ GpioIrq \/ SleepTimeoutReached \/ InitWorker
          \/ Deinit \/ DeinitStep
  <2>1. UNCHANGED <<rx, arrived, ethFrame, delivered, bg>>
    BY <1>1 DEF GpioIrq, SleepTimeoutReached, InitWorker, Deinit, DeinitStep,
       DeinitTimer, DeinitWorker, DeinitHandler, DeinitIrq, DeinitSpi,
       DeinitState, DeinitArch
  <2> QED
    BY <2>1 DEF InFlight
<1>2. CASE Network
  BY <1>0, <1>2, NetworkArrives DEF Fifo!Next
<1>3. CASE DoPoll \/ PollPin \/ RecvEnter \/ RecvEmpty \/ RecvError
          \/ ClearInterrupt \/ PostPollHook \/ Reschedule
  <2>1. /\ bg # "process" /\ bg' # "process"
        /\ rx' = rx \/ rx' = <<>>
        /\ UNCHANGED <<arrived, delivered>>
    BY <1>3 DEF DoPoll, PollPin, RecvEnter, RecvEmpty, RecvError,
       ClearInterrupt, PostPollHook, Reschedule, FailFrame, ClearRecv
  <2> QED
    BY <2>1, ResetLoses DEF Fifo!Next
<1>4. CASE RecvFrame
  BY <1>0, <1>4, RecvKeepsInFlight
<1>5. CASE ProcessFrame
  BY <1>0, <1>5, ProcessDelivers DEF Fifo!Next
<1>6. CASE DropFrame
  BY <1>0, <1>6, DropLoses DEF Fifo!Next
<1>7. CASE DriverInit
  <2>1. bg = "idle" /\ bg' = bg /\ rx' = <<>> /\ UNCHANGED <<arrived, delivered>>
    BY <1>0, <1>7 DEF DriverInit, WorkerInv, HoldReset
  <2> QED
    BY <2>1, ResetLoses DEF Fifo!Next
<1>8. ASSUME NEW t \in Threads,
             \/ Disable(t) \/ ThreadEnter(t) \/ ThreadExit(t) \/ SetUpBody(t)
             \/ JoinBody(t) \/ EnsureUpSpi(t) \/ EnsureUpConfig(t)
             \/ EnsureUpKick(t) \/ SetUpUp(t) \/ SetUpItf(t) \/ JoinState(t)
             \/ SendFrame(t) \/ StopSend(t) \/ NetifRemove(t)
             \/ DisableCheck(t) \/ DisableItf(t) \/ (\E o \in Ops : Call(t, o))
      PROVE  Stays
  <2>1. UNCHANGED <<rx, arrived, ethFrame, delivered, bg>>
    BY <1>8, ExitFrame DEF Disable, ThreadEnter, SetUpBody, JoinBody,
       EnsureUpSpi, ReleaseReset, EnsureUpConfig, EnableInterrupts,
       EnsureUpKick, SetUpUp, SetUpItf, JoinState, SendFrame, StopSend,
       NetifRemove, DisableCheck, DisableItf, Call
  <2> QED
    BY <2>1 DEF InFlight
<1>9. ASSUME NEW t \in Threads,
             \/ OutputBody(t) \/ EnsureUp(t) \/ SetUpNetif(t) \/ JoinLink(t)
             \/ StopTransmit(t)
      PROVE  Fifo!Next \/ Stays
  <2>1. pc[t] \in LockedLabels \cup StopLabels
    BY <1>9 DEF OutputBody, EnsureUp, SetUpNetif, JoinLink, StopTransmit, Goto,
       LockedLabels, StopLabels
  <2>2. bg = "idle"
    BY <1>0, <2>1, NoPoll
  <2>3. /\ bg' = bg
        /\ rx' = rx \/ rx' = <<>>
        /\ UNCHANGED <<arrived, delivered>>
    BY <1>9 DEF OutputBody, EnsureUp, HoldReset, SetUpNetif, OpenSocket,
       JoinLink, StopTransmit
  <2> QED
    BY <2>2, <2>3, ResetLoses DEF Fifo!Next
<1> QED
  BY <1>1, <1>2, <1>3, <1>4, <1>5, <1>6, <1>7, <1>8, <1>9
     DEF Next, BgStep, ThreadStep, LifecycleStep

\* What reaches lwIP is what the network delivered, in order, some of it
\* lost: nothing is duplicated, reordered or mixed with frames being sent.
THEOREM ReceivesInOrder ==
  ASSUME DisableLocked PROVE Spec => LossyFifo
<1>1. Init => Fifo!Init
  BY DEF Init, ChipInit, InFlight, Fifo!Init
<1>2. Inductive /\ [Next]_vars => [Fifo!Next]_<<arrived, InFlight, delivered>>
  BY FifoStep
<1> QED
  BY <1>1, <1>2, InductiveInvariant, PTL
     DEF Spec, LossyFifo, Fifo!Spec, Fifo!fifoVars
=============================================================================
