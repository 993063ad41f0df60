------------------------- MODULE W5x00DriverProofs -------------------------
(***************************************************************************)
(* Proofs of the driver core's safety for every value of the constants.    *)
(* One lemma per part of the inductive invariant: a step that satisfies    *)
(* [Next]_vars preserves the part.  In each, the steps that leave the      *)
(* part's variables alone come first, together; then one step per action.  *)
(***************************************************************************)
EXTENDS W5x00DriverInv, SequenceTheorems, TLAPS

USE ChipAssumption, ContextAssumption, DriverAssumption
USE DEF vars, chipVars, lockVars, workVars, irqVars, drvVars, netVars, bufVars,
        callVars

----------------------------------------------------------------------------
(* The returns of the locked calls.                                        *)

\* Each return of a locked call gives back one level of the lock, and changes
\* nothing else.
LEMMA ExitFrame ==
  ASSUME NEW t \in Threads, ThreadExit(t)
  PROVE  /\ context /\ Release(t)
         /\ UNCHANGED <<chipVars, workVars, irqVars, drvVars, netVars, bufVars,
                        bg>>
BY DEF ThreadExit, SendFailed, SendReturn, OnFailed, OnReturn, SetUpFailed,
   SetUpReturn, JoinFailed, JoinReturn, LwipEnd, Exit

\* Where each such return is, and where it goes on.
LEMMA ExitPath ==
  ASSUME CallTypeOK, NEW t \in Threads, ThreadExit(t)
  PROVE  /\ pc' = [pc EXCEPT ![t] = pc'[t]]
         /\ op' = IF pc'[t] = "idle" THEN [op EXCEPT ![t] = "none"] ELSE op
         /\ \/ op[t] = "output" /\ pc[t] = "failed" /\ pc'[t] = "lwip_end"
            \/ pc[t] = "sent" /\ pc'[t] = "lwip_end"
            \/ op[t] = "set_up" /\ pc[t] = "failed" /\ pc'[t] = "on_failed"
            \/ op[t] = "set_up" /\ pc[t] = "ensured" /\ pc'[t] = "on"
            \/ op[t] = "join" /\ pc[t] \in {"denied", "failed"} /\ pc'[t] = "idle"
            \/ /\ pc[t] \in {"on_failed", "set_up_end", "joined", "lwip_end"}
               /\ pc'[t] = "idle"
<1>1. \A from, to : Exit(t, from, to) =>
        /\ pc[t] = from /\ pc'[t] = to
        /\ pc' = [pc EXCEPT ![t] = pc'[t]]
        /\ op' = IF pc'[t] = "idle" THEN [op EXCEPT ![t] = "none"] ELSE op
  BY DEF Exit, Goto, CallTypeOK
<1> QED
  BY <1>1 DEF ThreadExit, SendFailed, SendReturn, OnFailed, OnReturn,
     SetUpFailed, SetUpReturn, JoinFailed, JoinReturn, LwipEnd

----------------------------------------------------------------------------
(* Types.                                                                  *)

\* A step leaves every thread, and the background processing, at a label of
\* its own code and in one of its calls.
LEMMA CallTypeStep ==
  ASSUME CallTypeOK, [Next]_vars
  PROVE  CallTypeOK'
<1> USE DEF CallTypeOK, Labels, LockedLabels, StopLabels, DisableLabels,
       DeinitLabels, Ops, BgLabels
<1>1. CASE \/ UNCHANGED vars \/ Network \/ GpioIrq \/ SleepTimeoutReached
  <2>1. UNCHANGED <<bg, pc, op>>
    BY <1>1 DEF Network, GpioIrq, SleepTimeoutReached, FrameArrives
  <2> QED
    BY <2>1
<1>2. CASE DoPoll
  BY <1>2 DEF DoPoll, Acquire
<1>3. CASE PollPin
  BY <1>3 DEF PollPin
<1>4. CASE RecvEnter
  BY <1>4 DEF RecvEnter, Acquire
<1>5. CASE RecvEmpty
  BY <1>5 DEF RecvEmpty, Release
<1>6. CASE RecvFrame
  BY <1>6 DEF RecvFrame, TakeFrame, Release
<1>7. CASE RecvError
  BY <1>7 DEF RecvError, FailFrame, Release
<1>8. CASE ProcessFrame
  BY <1>8 DEF ProcessFrame
<1>9. CASE DropFrame
  BY <1>9 DEF DropFrame
<1>10. CASE ClearInterrupt
  BY <1>10 DEF ClearInterrupt, ClearRecv
<1>11. CASE PostPollHook
  BY <1>11 DEF PostPollHook
<1>12. CASE Reschedule
  BY <1>12 DEF Reschedule, Release
<1>13. CASE DriverInit
  BY <1>13 DEF DriverInit, Goto, HoldReset
<1>14. CASE InitWorker
  BY <1>14 DEF InitWorker, Goto, Return
<1>15. CASE Deinit
  BY <1>15 DEF Deinit, Goto
<1>16. CASE DeinitTimer
  BY <1>16 DEF DeinitTimer, Goto
<1>17. CASE DeinitWorker
  BY <1>17 DEF DeinitWorker, Goto
<1>18. CASE DeinitHandler
  BY <1>18 DEF DeinitHandler, Goto
<1>19. CASE DeinitIrq
  BY <1>19 DEF DeinitIrq, Goto
<1>20. CASE DeinitSpi
  BY <1>20 DEF DeinitSpi, Goto
<1>21. CASE DeinitState
  BY <1>21 DEF DeinitState, Goto
<1>22. CASE DeinitArch
  BY <1>22 DEF DeinitArch, Return, Goto
<1>23. ASSUME NEW t \in Threads, Disable(t) PROVE CallTypeOK'
  BY <1>23 DEF Disable, Goto
<1>24. ASSUME NEW t \in Threads, ThreadEnter(t) PROVE CallTypeOK'
  BY <1>24 DEF ThreadEnter, Goto, Acquire
<1>25. ASSUME NEW t \in Threads, ThreadExit(t) PROVE CallTypeOK'
  BY <1>25, ExitFrame, ExitPath DEF Release
<1>26. ASSUME NEW t \in Threads, SetUpBody(t) PROVE CallTypeOK'
  BY <1>26 DEF SetUpBody, Goto, Acquire
<1>27. ASSUME NEW t \in Threads, JoinBody(t) PROVE CallTypeOK'
  BY <1>27 DEF JoinBody, Goto
<1>28. ASSUME NEW t \in Threads, OutputBody(t) PROVE CallTypeOK'
  BY <1>28 DEF OutputBody, Goto, Acquire
<1>29. ASSUME NEW t \in Threads, EnsureUp(t) PROVE CallTypeOK'
  BY <1>29 DEF EnsureUp, Goto, HoldReset, TcpipDeinit
<1>30. ASSUME NEW t \in Threads, EnsureUpSpi(t) PROVE CallTypeOK'
  BY <1>30 DEF EnsureUpSpi, Goto, ReleaseReset
<1>31. ASSUME NEW t \in Threads, EnsureUpConfig(t) PROVE CallTypeOK'
  BY <1>31 DEF EnsureUpConfig, Goto, EnableInterrupts
<1>32. ASSUME NEW t \in Threads, EnsureUpKick(t) PROVE CallTypeOK'
  BY <1>32 DEF EnsureUpKick, Goto
<1>33. ASSUME NEW t \in Threads, SetUpNetif(t) PROVE CallTypeOK'
  BY <1>33 DEF SetUpNetif, Goto, OpenSocket
<1>34. ASSUME NEW t \in Threads, SetUpUp(t) PROVE CallTypeOK'
  BY <1>34 DEF SetUpUp, Goto
<1>35. ASSUME NEW t \in Threads, SetUpItf(t) PROVE CallTypeOK'
  BY <1>35 DEF SetUpItf, Goto
<1>36. ASSUME NEW t \in Threads, JoinLink(t) PROVE CallTypeOK'
  BY <1>36 DEF JoinLink, Goto
<1>37. ASSUME NEW t \in Threads, JoinState(t) PROVE CallTypeOK'
  BY <1>37 DEF JoinState, Goto
<1>38. ASSUME NEW t \in Threads, SendFrame(t) PROVE CallTypeOK'
  BY <1>38 DEF SendFrame, Goto
<1>39. ASSUME NEW t \in Threads, StopTransmit(t) PROVE CallTypeOK'
  BY <1>39 DEF StopTransmit, Goto
<1>40. ASSUME NEW t \in Threads, StopSend(t) PROVE CallTypeOK'
  BY <1>40 DEF StopSend, Goto
<1>41. ASSUME NEW t \in Threads, NetifRemove(t) PROVE CallTypeOK'
  BY <1>41 DEF NetifRemove, Goto, TcpipDeinit
<1>42. ASSUME NEW t \in Threads, DisableCheck(t) PROVE CallTypeOK'
  BY <1>42 DEF DisableCheck, Goto, DisableReturn, Return
<1>43. ASSUME NEW t \in Threads, DisableItf(t) PROVE CallTypeOK'
  BY <1>43 DEF DisableItf, DisableReturn, Goto, Return
<1>44. ASSUME NEW t \in Threads, NEW o \in Ops, Call(t, o) PROVE CallTypeOK'
  BY <1>44 DEF Call, Goto
<1> QED
  BY <1>1, <1>2, <1>3, <1>4, <1>5, <1>6, <1>7, <1>8, <1>9, <1>10, <1>11, <1>12,
     <1>13, <1>14, <1>15, <1>16, <1>17, <1>18, <1>19, <1>20, <1>21, <1>22,
     <1>23, <1>24, <1>25, <1>26, <1>27, <1>28, <1>29, <1>30, <1>31, <1>32,
     <1>33, <1>34, <1>35, <1>36, <1>37, <1>38, <1>39, <1>40, <1>41, <1>42,
     <1>43, <1>44
     DEF Next, BgStep, ThreadStep, LifecycleStep, DeinitStep

\* A held lock was entered at least once, so depth stays a natural number.
LEMMA ContextTypeStep ==
  ASSUME ContextTypeOK, LockInv, [Next]_vars
  PROVE  ContextTypeOK'
<1> USE DEF ContextTypeOK
<1>0. owner # NoOwner => depth # 0
  BY DEF LockInv
<1>1. CASE \/ UNCHANGED vars \/ Network \/ PollPin \/ ProcessFrame
          \/ DropFrame \/ ClearInterrupt \/ PostPollHook \/ DriverInit
          \/ Deinit \/ DeinitHandler \/ DeinitIrq \/ DeinitSpi \/ DeinitState
  <2>1. UNCHANGED <<owner, depth, registered, pending, armed>>
    BY <1>1 DEF Network, PollPin, ProcessFrame, DropFrame, ClearInterrupt,
       PostPollHook, DriverInit, Deinit, DeinitHandler, DeinitIrq, DeinitSpi,
       DeinitState, Goto, HoldReset, ClearRecv, FrameArrives
  <2> QED
    BY <2>1
<1>2. CASE RecvEnter
  BY <1>2 DEF RecvEnter, Acquire
<1>3. CASE RecvEmpty \/ RecvFrame \/ RecvError
  BY <1>3, <1>0 DEF RecvEmpty, RecvFrame, RecvError, Release
<1>4. ASSUME NEW t \in Threads,
          \/ Disable(t) \/ JoinBody(t) \/ EnsureUp(t) \/ EnsureUpSpi(t)
          \/ EnsureUpConfig(t) \/ JoinLink(t) \/ SetUpNetif(t) \/ SetUpUp(t)
          \/ SetUpItf(t) \/ JoinState(t) \/ SendFrame(t) \/ StopTransmit(t)
          \/ StopSend(t) \/ NetifRemove(t) \/ DisableCheck(t) \/ DisableItf(t)
          \/ (\E o \in Ops : Call(t, o))
     PROVE  ContextTypeOK'
  <2>1. UNCHANGED <<owner, depth, registered, pending, armed>>
    BY <1>4 DEF Disable, JoinBody, EnsureUp, EnsureUpSpi, EnsureUpConfig,
       JoinLink, SetUpNetif, SetUpUp, SetUpItf, JoinState, SendFrame,
       StopTransmit, StopSend, NetifRemove, DisableCheck, DisableItf, Call,
       Goto, Return, DisableReturn, HoldReset, ReleaseReset, EnableInterrupts,
       TcpipDeinit, OpenSocket
  <2> QED
    BY <2>1
<1>5. CASE GpioIrq
  BY <1>5 DEF GpioIrq
<1>6. CASE SleepTimeoutReached
  BY <1>6 DEF SleepTimeoutReached
<1>7. CASE DoPoll
  <2>1. owner' \in Threads \cup {Bg, NoOwner}
    BY <1>7 DEF DoPoll, Acquire
  <2>2. depth' \in Nat
    BY <1>7 DEF DoPoll, Acquire
  <2>3. pending' = FALSE /\ UNCHANGED <<registered, armed>>
    BY <1>7 DEF DoPoll
  <2> QED
    BY <2>1, <2>2, <2>3
<1>8. CASE Reschedule
  BY <1>8, <1>0 DEF Reschedule, Release
<1>9. CASE InitWorker
  BY <1>9 DEF InitWorker, Goto, Return
<1>10. CASE DeinitTimer
  BY <1>10 DEF DeinitTimer, Goto
<1>11. CASE DeinitWorker
  BY <1>11 DEF DeinitWorker, Goto
<1>12. CASE DeinitArch
  BY <1>12 DEF DeinitArch, Return, Goto
<1>13. ASSUME NEW t \in Threads, ThreadEnter(t) PROVE ContextTypeOK'
  BY <1>13 DEF ThreadEnter, Goto, Acquire
<1>14. ASSUME NEW t \in Threads, ThreadExit(t) PROVE ContextTypeOK'
  BY <1>14, <1>0, ExitFrame DEF Release
<1>15. ASSUME NEW t \in Threads, SetUpBody(t) PROVE ContextTypeOK'
  BY <1>15 DEF SetUpBody, Goto, Acquire
<1>16. ASSUME NEW t \in Threads, OutputBody(t) PROVE ContextTypeOK'
  BY <1>16 DEF OutputBody, Goto, Acquire
<1>17. ASSUME NEW t \in Threads, EnsureUpKick(t) PROVE ContextTypeOK'
  BY <1>17 DEF EnsureUpKick, Goto
<1> QED
  BY <1>1, <1>2, <1>3, <1>4, <1>5, <1>6, <1>7, <1>8, <1>9, <1>10, <1>11, <1>12,
     <1>13, <1>14, <1>15, <1>16, <1>17
     DEF Next, BgStep, ThreadStep, LifecycleStep, DeinitStep

\* The counters, states and flags of w5x00_driver.c keep their types; the
\* sleep counter of w5x00_do_poll stays within W5X00_SLEEP_MAX.
LEMMA DriverTypeStep ==
  ASSUME DriverTypeOK, [Next]_vars
  PROVE  DriverTypeOK'
<1> USE DEF DriverTypeOK, LinkFlags, LinkStates, AfterSend
<1>1. CASE \/ UNCHANGED vars \/ Network \/ SleepTimeoutReached \/ PollPin
          \/ RecvEnter \/ RecvEmpty \/ RecvFrame \/ DropFrame \/ ClearInterrupt
          \/ Reschedule \/ InitWorker \/ Deinit \/ DeinitTimer \/ DeinitWorker
          \/ DeinitArch
  <2>1. UNCHANGED <<handler, irqEnabled, context, initted, poll, sleep, dma,
                   itf, link, listed, flags>>
    BY <1>1 DEF Network, SleepTimeoutReached, PollPin, RecvEnter, RecvEmpty,
       RecvFrame, DropFrame, ClearInterrupt, Reschedule, InitWorker, Deinit,
       DeinitTimer, DeinitWorker, DeinitArch, Goto, Return, Release, TakeFrame,
       ClearRecv, FrameArrives, Acquire
  <2> QED
    BY <2>1
<1>2. ASSUME NEW t \in Threads,
          \/ Disable(t) \/ ThreadEnter(t) \/ SetUpBody(t) \/ JoinBody(t)
          \/ OutputBody(t) \/ EnsureUpConfig(t) \/ StopTransmit(t)
          \/ DisableCheck(t) \/ (\E o \in Ops : Call(t, o))
     PROVE  DriverTypeOK'
  <2>1. UNCHANGED <<handler, irqEnabled, context, initted, poll, sleep, dma,
                   itf, link, listed, flags>>
    BY <1>2 DEF Disable, ThreadEnter, SetUpBody, JoinBody, OutputBody,
       EnsureUpConfig, StopTransmit, DisableCheck, Call, Goto, Return,
       DisableReturn, Acquire, EnableInterrupts
  <2> QED
    BY <2>1
<1>3. ASSUME NEW t \in Threads, ThreadExit(t) PROVE DriverTypeOK'
  BY <1>3, ExitFrame
<1>4. CASE GpioIrq
  BY <1>4 DEF GpioIrq
<1>5. CASE DoPoll
  BY <1>5 DEF DoPoll, Acquire
<1>6. CASE RecvError
  BY <1>6 DEF RecvError, FailFrame, Release
<1>7. CASE ProcessFrame
  BY <1>7 DEF ProcessFrame
<1>8. CASE PostPollHook
  BY <1>8 DEF PostPollHook
<1>9. CASE DriverInit
  BY <1>9 DEF DriverInit, Goto, HoldReset
<1>10. CASE DeinitHandler
  BY <1>10 DEF DeinitHandler, Goto
<1>11. CASE DeinitIrq
  BY <1>11 DEF DeinitIrq, Goto
<1>12. CASE DeinitSpi
  BY <1>12 DEF DeinitSpi, Goto
<1>13. CASE DeinitState
  BY <1>13 DEF DeinitState, Goto
<1>14. ASSUME NEW t \in Threads, EnsureUp(t) PROVE DriverTypeOK'
  BY <1>14 DEF EnsureUp, Goto, HoldReset, TcpipDeinit
<1>15. ASSUME NEW t \in Threads, EnsureUpSpi(t) PROVE DriverTypeOK'
  BY <1>15 DEF EnsureUpSpi, Goto, ReleaseReset
<1>16. ASSUME NEW t \in Threads, EnsureUpKick(t) PROVE DriverTypeOK'
  BY <1>16 DEF EnsureUpKick, Goto
<1>17. ASSUME NEW t \in Threads, SetUpNetif(t) PROVE DriverTypeOK'
  BY <1>17 DEF SetUpNetif, Goto, OpenSocket
<1>18. ASSUME NEW t \in Threads, SetUpUp(t) PROVE DriverTypeOK'
  BY <1>18 DEF SetUpUp, Goto
<1>19. ASSUME NEW t \in Threads, SetUpItf(t) PROVE DriverTypeOK'
  BY <1>19 DEF SetUpItf, Goto
<1>20. ASSUME NEW t \in Threads, JoinLink(t) PROVE DriverTypeOK'
  BY <1>20 DEF JoinLink, Goto
<1>21. ASSUME NEW t \in Threads, JoinState(t) PROVE DriverTypeOK'
  BY <1>21 DEF JoinState, Goto
<1>22. ASSUME NEW t \in Threads, SendFrame(t) PROVE DriverTypeOK'
  BY <1>22 DEF SendFrame, Goto
<1>23. ASSUME NEW t \in Threads, StopSend(t) PROVE DriverTypeOK'
  BY <1>23 DEF StopSend, Goto
<1>24. ASSUME NEW t \in Threads, NetifRemove(t) PROVE DriverTypeOK'
  BY <1>24 DEF NetifRemove, Goto, TcpipDeinit
<1>25. ASSUME NEW t \in Threads, DisableItf(t) PROVE DriverTypeOK'
  BY <1>25 DEF DisableItf, DisableReturn, Goto, Return
<1> QED
  BY <1>1, <1>2, <1>3, <1>4, <1>5, <1>6, <1>7, <1>8, <1>9, <1>10, <1>11, <1>12,
     <1>13, <1>14, <1>15, <1>16, <1>17, <1>18, <1>19, <1>20, <1>21, <1>22,
     <1>23, <1>24, <1>25
     DEF Next, BgStep, ThreadStep, LifecycleStep, DeinitStep

\* The receive buffer of a chip just reset has the type of one.
LEMMA RxEmpty == <<>> \in Seq({"rx"} \X Nat)
  BY EmptySeq

\* A frame of the network's is appended to frames of the network's.
LEMMA RxAppend ==
  ASSUME NEW s \in Seq({"rx"} \X Nat), NEW n \in Nat
  PROVE  Append(s, RxFrame(n)) \in Seq({"rx"} \X Nat)
<1>1. RxFrame(n) \in {"rx"} \X Nat
  BY DEF RxFrame
<1> QED
  BY <1>1, AppendProperties, Zenon

\* The registers and the receive buffer of the chip keep their types.
LEMMA ChipTypeStep ==
  ASSUME ChipTypeOK, [Next]_vars
  PROVE  ChipTypeOK'
<1> USE DEF ChipTypeOK
<1>1. CASE \/ UNCHANGED vars \/ GpioIrq \/ SleepTimeoutReached \/ DoPoll
          \/ PollPin \/ RecvEnter \/ RecvEmpty \/ ProcessFrame \/ DropFrame
          \/ PostPollHook \/ Reschedule \/ InitWorker \/ Deinit \/ DeinitTimer
          \/ DeinitWorker \/ DeinitHandler \/ DeinitIrq \/ DeinitSpi
          \/ DeinitState \/ DeinitArch
  <2>1. UNCHANGED <<held, sockOpen, unmasked, recvIr, rx, arrived>>
    BY <1>1 DEF GpioIrq, SleepTimeoutReached, DoPoll, PollPin, RecvEnter,
       RecvEmpty, ProcessFrame, DropFrame, PostPollHook, Reschedule,
       InitWorker, Deinit, DeinitTimer, DeinitWorker, DeinitHandler, DeinitIrq,
       DeinitSpi, DeinitState, DeinitArch, Goto, Return, Acquire, Release
  <2> QED
    BY <2>1
<1>2. ASSUME NEW t \in Threads,
          \/ Disable(t) \/ ThreadEnter(t) \/ SetUpBody(t) \/ JoinBody(t)
          \/ OutputBody(t) \/ EnsureUpKick(t) \/ JoinLink(t) \/ SetUpUp(t)
          \/ SetUpItf(t) \/ JoinState(t) \/ SendFrame(t) \/ StopTransmit(t)
          \/ StopSend(t) \/ NetifRemove(t) \/ DisableCheck(t) \/ DisableItf(t)
          \/ (\E o \in Ops : Call(t, o))
     PROVE  ChipTypeOK'
  <2>1. UNCHANGED <<held, sockOpen, unmasked, recvIr, rx, arrived>>
    BY <1>2 DEF Disable, ThreadEnter, SetUpBody, JoinBody, OutputBody,
       EnsureUpKick, JoinLink, SetUpUp, SetUpItf, JoinState, SendFrame,
       StopTransmit, StopSend, NetifRemove, DisableCheck, DisableItf, Call,
       Goto, Return, DisableReturn, Acquire, TcpipDeinit
  <2> QED
    BY <2>1
<1>3. ASSUME NEW t \in Threads, ThreadExit(t) PROVE ChipTypeOK'
  BY <1>3, ExitFrame
<1>4. CASE Network
  <2>1. rx' = rx \/ rx' = Append(rx, RxFrame(arrived + 1))
    BY <1>4 DEF Network, FrameArrives
  <2>2. arrived + 1 \in Nat
    OBVIOUS
  <2>3. rx' \in Seq({"rx"} \X Nat)
    BY <2>1, <2>2, RxAppend
  <2>4. recvIr' \in BOOLEAN
    BY <1>4 DEF Network, FrameArrives
  <2>5. arrived' \in Nat
    BY <1>4 DEF Network, FrameArrives
  <2>6. UNCHANGED <<held, sockOpen, unmasked>>
    BY <1>4 DEF Network, FrameArrives
  <2> QED
    BY <2>3, <2>4, <2>5, <2>6
<1>5. CASE RecvFrame
  BY <1>5 DEF RecvFrame, TakeFrame, Release
<1>6. CASE RecvError
  BY <1>6, RxEmpty DEF RecvError, FailFrame, Release
<1>7. CASE ClearInterrupt
  BY <1>7 DEF ClearInterrupt, ClearRecv
<1>8. CASE DriverInit
  BY <1>8, RxEmpty DEF DriverInit, Goto, HoldReset
<1>9. ASSUME NEW t \in Threads, EnsureUp(t) PROVE ChipTypeOK'
  BY <1>9, RxEmpty DEF EnsureUp, Goto, HoldReset, TcpipDeinit
<1>10. ASSUME NEW t \in Threads, EnsureUpSpi(t) PROVE ChipTypeOK'
  BY <1>10 DEF EnsureUpSpi, Goto, ReleaseReset
<1>11. ASSUME NEW t \in Threads, EnsureUpConfig(t) PROVE ChipTypeOK'
  BY <1>11 DEF EnsureUpConfig, Goto, EnableInterrupts
<1>12. ASSUME NEW t \in Threads, SetUpNetif(t) PROVE ChipTypeOK'
  BY <1>12, RxEmpty DEF SetUpNetif, Goto, OpenSocket
<1> QED
  BY <1>1, <1>2, <1>3, <1>4, <1>5, <1>6, <1>7, <1>8, <1>9, <1>10, <1>11, <1>12
     DEF Next, BgStep, ThreadStep, LifecycleStep, DeinitStep

\* eth_frame and what w5x00_cb_process_ethernet hands to lwIP are frames.
LEMMA BufferTypeStep ==
  ASSUME ChipTypeOK, BufferTypeOK, [Next]_vars
  PROVE  BufferTypeOK'
<1> USE DEF BufferTypeOK, ChipTypeOK, Frames, TxFrame
<1>1. CASE \/ UNCHANGED vars \/ Network \/ GpioIrq \/ SleepTimeoutReached
          \/ DoPoll \/ PollPin \/ RecvEnter \/ RecvEmpty \/ RecvError
          \/ DropFrame \/ ClearInterrupt \/ PostPollHook \/ Reschedule
          \/ DriverInit \/ InitWorker \/ Deinit \/ DeinitTimer \/ DeinitWorker
          \/ DeinitHandler \/ DeinitIrq \/ DeinitSpi \/ DeinitState
          \/ DeinitArch
  <2>1. UNCHANGED <<ethFrame, delivered>>
    BY <1>1 DEF Network, GpioIrq, SleepTimeoutReached, DoPoll, PollPin,
       RecvEnter, RecvEmpty, RecvError, DropFrame, ClearInterrupt,
       PostPollHook, Reschedule, DriverInit, InitWorker, Deinit, DeinitTimer,
       DeinitWorker, DeinitHandler, DeinitIrq, DeinitSpi, DeinitState,
       DeinitArch, Goto, Return, Acquire, Release, HoldReset, FailFrame,
       ClearRecv, FrameArrives
  <2> QED
    BY <2>1
<1>2. ASSUME NEW t \in Threads,
          \/ Disable(t) \/ ThreadEnter(t) \/ SetUpBody(t) \/ JoinBody(t)
          \/ EnsureUp(t) \/ EnsureUpSpi(t) \/ EnsureUpConfig(t)
          \/ EnsureUpKick(t) \/ SetUpUp(t) \/ SetUpItf(t) \/ JoinState(t)
          \/ SendFrame(t) \/ StopSend(t) \/ NetifRemove(t) \/ DisableCheck(t)
          \/ DisableItf(t) \/ (\E o \in Ops : Call(t, o))
     PROVE  BufferTypeOK'
  <2>1. UNCHANGED <<ethFrame, delivered>>
    BY <1>2 DEF Disable, ThreadEnter, SetUpBody, JoinBody, EnsureUp,
       EnsureUpSpi, EnsureUpConfig, EnsureUpKick, SetUpUp, SetUpItf, JoinState,
       SendFrame, StopSend, NetifRemove, DisableCheck, DisableItf, Call, Goto,
       Return, DisableReturn, Acquire, HoldReset, ReleaseReset,
       EnableInterrupts, TcpipDeinit
  <2> QED
    BY <2>1
<1>3. ASSUME NEW t \in Threads, ThreadExit(t) PROVE BufferTypeOK'
  BY <1>3, ExitFrame
<1>4. CASE RecvFrame
  BY <1>4 DEF RecvFrame, TakeFrame, Release
<1>5. CASE ProcessFrame
  BY <1>5 DEF ProcessFrame
<1>6. ASSUME NEW t \in Threads, OutputBody(t) PROVE BufferTypeOK'
  BY <1>6 DEF OutputBody, Goto, Acquire
<1>7. ASSUME NEW t \in Threads, SetUpNetif(t) PROVE BufferTypeOK'
  BY <1>7 DEF SetUpNetif, Goto, OpenSocket
<1>8. ASSUME NEW t \in Threads, JoinLink(t) PROVE BufferTypeOK'
  BY <1>8 DEF JoinLink, Goto
<1>9. ASSUME NEW t \in Threads, StopTransmit(t) PROVE BufferTypeOK'
  BY <1>9 DEF StopTransmit, Goto
<1> QED
  BY <1>1, <1>2, <1>3, <1>4, <1>5, <1>6, <1>7, <1>8, <1>9
     DEF Next, BgStep, ThreadStep, LifecycleStep, DeinitStep

----------------------------------------------------------------------------
(* The general inductive invariant.                                        *)

\* The context's lock: every path of the locked calls, the error returns of
\* w5x00_ensure_up and the nested calls included, enters and leaves it in pairs.
LEMMA LockStep ==
  ASSUME CallTypeOK, ContextTypeOK, CallInv, LockInv, [Next]_vars
  PROVE  LockInv'
<1> USE DEF LockInv, Holding, Nested, NestedLabels, BringUpLabels,
       SetUpLabels, LockedLabels, StopLabels, DisableLabels, DeinitLabels,
       CallTypeOK, ContextTypeOK,
       CallInv
<1>1. CASE \/ UNCHANGED vars \/ Network \/ GpioIrq \/ SleepTimeoutReached
  <2>1. UNCHANGED <<owner, depth, bg, pc, op>>
    BY <1>1 DEF Network, GpioIrq, SleepTimeoutReached, FrameArrives
  <2> QED
    BY <2>1
<1>2. CASE DoPoll
  BY <1>2 DEF DoPoll, Acquire
<1>3. CASE PollPin
  BY <1>3 DEF PollPin
<1>4. CASE RecvEnter
  BY <1>4 DEF RecvEnter, Acquire
<1>5. CASE RecvEmpty
  BY <1>5 DEF RecvEmpty, Release
<1>6. CASE RecvFrame
  BY <1>6 DEF RecvFrame, TakeFrame, Release
<1>7. CASE RecvError
  BY <1>7 DEF RecvError, FailFrame, Release
<1>8. CASE ProcessFrame
  BY <1>8 DEF ProcessFrame
<1>9. CASE DropFrame
  BY <1>9 DEF DropFrame
<1>10. CASE ClearInterrupt
  BY <1>10 DEF ClearInterrupt, ClearRecv
<1>11. CASE PostPollHook
  BY <1>11 DEF PostPollHook
<1>12. CASE Reschedule
  BY <1>12 DEF Reschedule, Release
<1>13. CASE DriverInit
  BY <1>13 DEF DriverInit, Goto, HoldReset
<1>14. CASE InitWorker
  BY <1>14 DEF InitWorker, Goto, Return
<1>15. CASE Deinit
  BY <1>15 DEF Deinit, Goto
<1>16. CASE DeinitTimer
  BY <1>16 DEF DeinitTimer, Goto
<1>17. CASE DeinitWorker
  BY <1>17 DEF DeinitWorker, Goto
<1>18. CASE DeinitHandler
  BY <1>18 DEF DeinitHandler, Goto
<1>19. CASE DeinitIrq
  BY <1>19 DEF DeinitIrq, Goto
<1>20. CASE DeinitSpi
  BY <1>20 DEF DeinitSpi, Goto
<1>21. CASE DeinitState
  BY <1>21 DEF DeinitState, Goto
<1>22. CASE DeinitArch
  BY <1>22 DEF DeinitArch, Return, Goto
<1>23. ASSUME NEW t \in Threads, Disable(t) PROVE LockInv'
  BY <1>23 DEF Disable, Goto
<1>24. ASSUME NEW t \in Threads, ThreadEnter(t) PROVE LockInv'
  BY <1>24 DEF ThreadEnter, Goto, Acquire
<1>25. ASSUME NEW t \in Threads, ThreadExit(t) PROVE LockInv'
  BY <1>25, ExitFrame, ExitPath DEF Release
<1>26. ASSUME NEW t \in Threads, SetUpBody(t) PROVE LockInv'
  BY <1>26 DEF SetUpBody, Goto, Acquire
<1>27. ASSUME NEW t \in Threads, JoinBody(t) PROVE LockInv'
  BY <1>27 DEF JoinBody, Goto
<1>28. ASSUME NEW t \in Threads, OutputBody(t) PROVE LockInv'
  BY <1>28 DEF OutputBody, Goto, Acquire
<1>29. ASSUME NEW t \in Threads, EnsureUp(t) PROVE LockInv'
  BY <1>29 DEF EnsureUp, Goto, HoldReset, TcpipDeinit
<1>30. ASSUME NEW t \in Threads, EnsureUpSpi(t) PROVE LockInv'
  BY <1>30 DEF EnsureUpSpi, Goto, ReleaseReset
<1>31. ASSUME NEW t \in Threads, EnsureUpConfig(t) PROVE LockInv'
  BY <1>31 DEF EnsureUpConfig, Goto, EnableInterrupts
<1>32. ASSUME NEW t \in Threads, EnsureUpKick(t) PROVE LockInv'
  BY <1>32 DEF EnsureUpKick, Goto
<1>33. ASSUME NEW t \in Threads, SetUpNetif(t) PROVE LockInv'
  BY <1>33 DEF SetUpNetif, Goto, OpenSocket
<1>34. ASSUME NEW t \in Threads, SetUpUp(t) PROVE LockInv'
  BY <1>34 DEF SetUpUp, Goto
<1>35. ASSUME NEW t \in Threads, SetUpItf(t) PROVE LockInv'
  BY <1>35 DEF SetUpItf, Goto
<1>36. ASSUME NEW t \in Threads, JoinLink(t) PROVE LockInv'
  BY <1>36 DEF JoinLink, Goto
<1>37. ASSUME NEW t \in Threads, JoinState(t) PROVE LockInv'
  BY <1>37 DEF JoinState, Goto
<1>38. ASSUME NEW t \in Threads, SendFrame(t) PROVE LockInv'
  BY <1>38 DEF SendFrame, Goto
<1>39. ASSUME NEW t \in Threads, StopTransmit(t) PROVE LockInv'
  BY <1>39 DEF StopTransmit, Goto
<1>40. ASSUME NEW t \in Threads, StopSend(t) PROVE LockInv'
  BY <1>40 DEF StopSend, Goto
<1>41. ASSUME NEW t \in Threads, NetifRemove(t) PROVE LockInv'
  BY <1>41 DEF NetifRemove, Goto, TcpipDeinit
<1>42. ASSUME NEW t \in Threads, DisableCheck(t) PROVE LockInv'
  BY <1>42 DEF DisableCheck, Goto, DisableReturn, Return
<1>43. ASSUME NEW t \in Threads, DisableItf(t) PROVE LockInv'
  BY <1>43 DEF DisableItf, DisableReturn, Goto, Return
<1>44. ASSUME NEW t \in Threads, NEW o \in Ops, Call(t, o) PROVE LockInv'
  BY <1>44 DEF Call, Goto
<1> QED
  BY <1>1, <1>2, <1>3, <1>4, <1>5, <1>6, <1>7, <1>8, <1>9, <1>10, <1>11, <1>12,
     <1>13, <1>14, <1>15, <1>16, <1>17, <1>18, <1>19, <1>20, <1>21, <1>22,
     <1>23, <1>24, <1>25, <1>26, <1>27, <1>28, <1>29, <1>30, <1>31, <1>32,
     <1>33, <1>34, <1>35, <1>36, <1>37, <1>38, <1>39, <1>40, <1>41, <1>42,
     <1>43, <1>44
     DEF Next, BgStep, ThreadStep, LifecycleStep, DeinitStep

\* A step keeps each thread within the code of the call it makes.
LEMMA CallStep ==
  ASSUME CallTypeOK, CallInv, [Next]_vars
  PROVE  CallInv'
<1> USE DEF CallInv, CallTypeOK, AppThreads, NestedLabels, BringUpLabels,
       SetUpLabels, LockedLabels, StopLabels, DisableLabels, DeinitLabels
<1>1. CASE \/ UNCHANGED vars \/ Network \/ GpioIrq \/ SleepTimeoutReached
          \/ DoPoll \/ PollPin \/ RecvEnter \/ RecvEmpty \/ RecvFrame
          \/ RecvError \/ ProcessFrame \/ DropFrame \/ ClearInterrupt
          \/ PostPollHook \/ Reschedule
  <2>1. UNCHANGED <<pc, op>>
    BY <1>1 DEF Network, GpioIrq, SleepTimeoutReached, DoPoll, PollPin,
       RecvEnter, RecvEmpty, RecvFrame, RecvError, ProcessFrame, DropFrame,
       ClearInterrupt, PostPollHook, Reschedule, Acquire, Release, TakeFrame,
       FailFrame, ClearRecv, FrameArrives
  <2> QED
    BY <2>1
<1>2. CASE DriverInit
  BY <1>2 DEF DriverInit, Goto, HoldReset
<1>3. CASE InitWorker
  BY <1>3 DEF InitWorker, Goto, Return
<1>4. CASE Deinit
  BY <1>4 DEF Deinit, Goto
<1>5. CASE DeinitTimer
  BY <1>5 DEF DeinitTimer, Goto
<1>6. CASE DeinitWorker
  BY <1>6 DEF DeinitWorker, Goto
<1>7. CASE DeinitHandler
  BY <1>7 DEF DeinitHandler, Goto
<1>8. CASE DeinitIrq
  BY <1>8 DEF DeinitIrq, Goto
<1>9. CASE DeinitSpi
  BY <1>9 DEF DeinitSpi, Goto
<1>10. CASE DeinitState
  BY <1>10 DEF DeinitState, Goto
<1>11. CASE DeinitArch
  BY <1>11 DEF DeinitArch, Return, Goto
<1>12. ASSUME NEW t \in Threads, Disable(t) PROVE CallInv'
  BY <1>12 DEF Disable, Goto
<1>13. ASSUME NEW t \in Threads, ThreadEnter(t) PROVE CallInv'
  BY <1>13 DEF ThreadEnter, Goto, Acquire
<1>14. ASSUME NEW t \in Threads, ThreadExit(t) PROVE CallInv'
  BY <1>14, ExitFrame, ExitPath DEF Release
<1>15. ASSUME NEW t \in Threads, SetUpBody(t) PROVE CallInv'
  BY <1>15 DEF SetUpBody, Goto, Acquire
<1>16. ASSUME NEW t \in Threads, JoinBody(t) PROVE CallInv'
  BY <1>16 DEF JoinBody, Goto
<1>17. ASSUME NEW t \in Threads, OutputBody(t) PROVE CallInv'
  BY <1>17 DEF OutputBody, Goto, Acquire
<1>18. ASSUME NEW t \in Threads, EnsureUp(t) PROVE CallInv'
  BY <1>18 DEF EnsureUp, Goto, HoldReset, TcpipDeinit
<1>19. ASSUME NEW t \in Threads, EnsureUpSpi(t) PROVE CallInv'
  BY <1>19 DEF EnsureUpSpi, Goto, ReleaseReset
<1>20. ASSUME NEW t \in Threads, EnsureUpConfig(t) PROVE CallInv'
  BY <1>20 DEF EnsureUpConfig, Goto, EnableInterrupts
<1>21. ASSUME NEW t \in Threads, EnsureUpKick(t) PROVE CallInv'
  BY <1>21 DEF EnsureUpKick, Goto
<1>22. ASSUME NEW t \in Threads, SetUpNetif(t) PROVE CallInv'
  BY <1>22 DEF SetUpNetif, Goto, OpenSocket
<1>23. ASSUME NEW t \in Threads, SetUpUp(t) PROVE CallInv'
  BY <1>23 DEF SetUpUp, Goto
<1>24. ASSUME NEW t \in Threads, SetUpItf(t) PROVE CallInv'
  BY <1>24 DEF SetUpItf, Goto
<1>25. ASSUME NEW t \in Threads, JoinLink(t) PROVE CallInv'
  BY <1>25 DEF JoinLink, Goto
<1>26. ASSUME NEW t \in Threads, JoinState(t) PROVE CallInv'
  BY <1>26 DEF JoinState, Goto
<1>27. ASSUME NEW t \in Threads, SendFrame(t) PROVE CallInv'
  BY <1>27 DEF SendFrame, Goto
<1>28. ASSUME NEW t \in Threads, StopTransmit(t) PROVE CallInv'
  BY <1>28 DEF StopTransmit, Goto
<1>29. ASSUME NEW t \in Threads, StopSend(t) PROVE CallInv'
  BY <1>29 DEF StopSend, Goto
<1>30. ASSUME NEW t \in Threads, NetifRemove(t) PROVE CallInv'
  BY <1>30 DEF NetifRemove, Goto, TcpipDeinit
<1>31. ASSUME NEW t \in Threads, DisableCheck(t) PROVE CallInv'
  BY <1>31 DEF DisableCheck, Goto, DisableReturn, Return
<1>32. ASSUME NEW t \in Threads, DisableItf(t) PROVE CallInv'
  BY <1>32 DEF DisableItf, DisableReturn, Goto, Return
<1>33. ASSUME NEW t \in Threads, NEW o \in Ops, Call(t, o) PROVE CallInv'
  BY <1>33 DEF Call, Goto
<1> QED
  BY <1>1, <1>2, <1>3, <1>4, <1>5, <1>6, <1>7, <1>8, <1>9, <1>10, <1>11, <1>12,
     <1>13, <1>14, <1>15, <1>16, <1>17, <1>18, <1>19, <1>20, <1>21, <1>22,
     <1>23, <1>24, <1>25, <1>26, <1>27, <1>28, <1>29, <1>30, <1>31, <1>32,
     <1>33
     DEF Next, BgStep, ThreadStep, LifecycleStep, DeinitStep

\* No application call is under way during w5x00_arch_init and _deinit, and
\* none on a driver that is not initialised.
LEMMA QuietStep ==
  ASSUME CallTypeOK, CallInv, QuietInv, [Next]_vars
  PROVE  QuietInv'
<1> USE DEF CallInv, QuietInv, CallTypeOK, AppThreads, MayCall, Quiet,
       NestedLabels, BringUpLabels, LockedLabels, StopLabels, DisableLabels,
       DeinitLabels
<1>1. CASE \/ UNCHANGED vars \/ Network \/ GpioIrq \/ SleepTimeoutReached
          \/ DoPoll \/ PollPin \/ RecvEnter \/ RecvEmpty \/ RecvFrame
          \/ RecvError \/ ProcessFrame \/ DropFrame \/ ClearInterrupt
          \/ PostPollHook \/ Reschedule
  <2>1. UNCHANGED <<pc, op, initted>>
    BY <1>1 DEF Network, GpioIrq, SleepTimeoutReached, DoPoll, PollPin,
       RecvEnter, RecvEmpty, RecvFrame, RecvError, ProcessFrame, DropFrame,
       ClearInterrupt, PostPollHook, Reschedule, Acquire, Release, TakeFrame,
       FailFrame, ClearRecv, FrameArrives
  <2> QED
    BY <2>1
<1>2. CASE DriverInit
  BY <1>2 DEF DriverInit, Goto, HoldReset
<1>3. CASE InitWorker
  BY <1>3 DEF InitWorker, Goto, Return
<1>4. CASE Deinit
  BY <1>4 DEF Deinit, Goto
<1>5. CASE DeinitTimer
  BY <1>5 DEF DeinitTimer, Goto
<1>6. CASE DeinitWorker
  BY <1>6 DEF DeinitWorker, Goto
<1>7. CASE DeinitHandler
  BY <1>7 DEF DeinitHandler, Goto
<1>8. CASE DeinitIrq
  BY <1>8 DEF DeinitIrq, Goto
<1>9. CASE DeinitSpi
  BY <1>9 DEF DeinitSpi, Goto
<1>10. CASE DeinitState
  BY <1>10 DEF DeinitState, Goto
<1>11. CASE DeinitArch
  BY <1>11 DEF DeinitArch, Return, Goto
<1>12. ASSUME NEW t \in Threads, Disable(t) PROVE QuietInv'
  BY <1>12 DEF Disable, Goto
<1>13. ASSUME NEW t \in Threads, ThreadEnter(t) PROVE QuietInv'
  BY <1>13 DEF ThreadEnter, Goto, Acquire
<1>14. ASSUME NEW t \in Threads, ThreadExit(t) PROVE QuietInv'
  BY <1>14, ExitFrame, ExitPath DEF Release
<1>15. ASSUME NEW t \in Threads, SetUpBody(t) PROVE QuietInv'
  BY <1>15 DEF SetUpBody, Goto, Acquire
<1>16. ASSUME NEW t \in Threads, JoinBody(t) PROVE QuietInv'
  BY <1>16 DEF JoinBody, Goto
<1>17. ASSUME NEW t \in Threads, OutputBody(t) PROVE QuietInv'
  BY <1>17 DEF OutputBody, Goto, Acquire
<1>18. ASSUME NEW t \in Threads, EnsureUp(t) PROVE QuietInv'
  BY <1>18 DEF EnsureUp, Goto, HoldReset, TcpipDeinit
<1>19. ASSUME NEW t \in Threads, EnsureUpSpi(t) PROVE QuietInv'
  BY <1>19 DEF EnsureUpSpi, Goto, ReleaseReset
<1>20. ASSUME NEW t \in Threads, EnsureUpConfig(t) PROVE QuietInv'
  BY <1>20 DEF EnsureUpConfig, Goto, EnableInterrupts
<1>21. ASSUME NEW t \in Threads, EnsureUpKick(t) PROVE QuietInv'
  BY <1>21 DEF EnsureUpKick, Goto
<1>22. ASSUME NEW t \in Threads, SetUpNetif(t) PROVE QuietInv'
  BY <1>22 DEF SetUpNetif, Goto, OpenSocket
<1>23. ASSUME NEW t \in Threads, SetUpUp(t) PROVE QuietInv'
  BY <1>23 DEF SetUpUp, Goto
<1>24. ASSUME NEW t \in Threads, SetUpItf(t) PROVE QuietInv'
  BY <1>24 DEF SetUpItf, Goto
<1>25. ASSUME NEW t \in Threads, JoinLink(t) PROVE QuietInv'
  BY <1>25 DEF JoinLink, Goto
<1>26. ASSUME NEW t \in Threads, JoinState(t) PROVE QuietInv'
  BY <1>26 DEF JoinState, Goto
<1>27. ASSUME NEW t \in Threads, SendFrame(t) PROVE QuietInv'
  BY <1>27 DEF SendFrame, Goto
<1>28. ASSUME NEW t \in Threads, StopTransmit(t) PROVE QuietInv'
  BY <1>28 DEF StopTransmit, Goto
<1>29. ASSUME NEW t \in Threads, StopSend(t) PROVE QuietInv'
  BY <1>29 DEF StopSend, Goto
<1>30. ASSUME NEW t \in Threads, NetifRemove(t) PROVE QuietInv'
  BY <1>30 DEF NetifRemove, Goto, TcpipDeinit
<1>31. ASSUME NEW t \in Threads, DisableCheck(t) PROVE QuietInv'
  BY <1>31 DEF DisableCheck, Goto, DisableReturn, Return
<1>32. ASSUME NEW t \in Threads, DisableItf(t) PROVE QuietInv'
  BY <1>32 DEF DisableItf, DisableReturn, Goto, Return
<1>33. ASSUME NEW t \in Threads, NEW o \in Ops, Call(t, o) PROVE QuietInv'
  BY <1>33 DEF Call, Goto
<1> QED
  BY <1>1, <1>2, <1>3, <1>4, <1>5, <1>6, <1>7, <1>8, <1>9, <1>10, <1>11, <1>12,
     <1>13, <1>14, <1>15, <1>16, <1>17, <1>18, <1>19, <1>20, <1>21, <1>22,
     <1>23, <1>24, <1>25, <1>26, <1>27, <1>28, <1>29, <1>30, <1>31, <1>32,
     <1>33
     DEF Next, BgStep, ThreadStep, LifecycleStep, DeinitStep

\* The poll worker is registered by w5x00_driver_init and gone after
\* w5x00_driver_deinit removed it, waiting for a poll in progress to end.
LEMMA WorkerStep ==
  ASSUME CallTypeOK, LockInv, CallInv, QuietInv, IrqInv, WorkerInv, [Next]_vars
  PROVE  WorkerInv'
<1> USE DEF CallInv, WorkerInv, CallTypeOK, Unhooked, StopLabels, DeinitLabels
<1>1. CASE \/ UNCHANGED vars \/ SleepTimeoutReached
  <2>1. UNCHANGED <<owner, registered, bg, initted, pc, op, irqEnabled,
                   sockOpen, handler, poll>>
    BY <1>1 DEF SleepTimeoutReached
  <2> QED
    BY <2>1
<1>2. CASE Network
  BY <1>2 DEF Network, FrameArrives
<1>3. CASE GpioIrq
  BY <1>3 DEF GpioIrq, IntnLow, IrqInv
<1>4. CASE DoPoll
  BY <1>4 DEF DoPoll, Acquire, ListsFree, LockInv
<1>5. CASE PollPin
  BY <1>5 DEF PollPin
<1>6. CASE RecvEnter
  BY <1>6 DEF RecvEnter, Acquire
<1>7. CASE RecvEmpty
  BY <1>7 DEF RecvEmpty, Release
<1>8. CASE RecvFrame
  BY <1>8 DEF RecvFrame, TakeFrame, Release
<1>9. CASE RecvError
  BY <1>9 DEF RecvError, FailFrame, Release
<1>10. CASE ProcessFrame
  BY <1>10 DEF ProcessFrame
<1>11. CASE DropFrame
  BY <1>11 DEF DropFrame
<1>12. CASE ClearInterrupt
  BY <1>12 DEF ClearInterrupt, ClearRecv
<1>13. CASE PostPollHook
  BY <1>13 DEF PostPollHook
<1>14. CASE Reschedule
  BY <1>14 DEF Reschedule, Release
<1>15. CASE DriverInit
  BY <1>15 DEF DriverInit, Goto, HoldReset
<1>16. CASE InitWorker
  BY <1>16 DEF InitWorker, Goto, Return, ListsFree, LockInv
<1>17. CASE Deinit
  BY <1>17 DEF Deinit, Goto
<1>18. CASE DeinitTimer
  BY <1>18 DEF DeinitTimer, Goto
<1>19. CASE DeinitWorker
  BY <1>19 DEF DeinitWorker, Goto, ListsFree, LockInv
<1>20. CASE DeinitHandler
  BY <1>20 DEF DeinitHandler, Goto
<1>21. CASE DeinitIrq
  BY <1>21 DEF DeinitIrq, Goto
<1>22. CASE DeinitSpi
  BY <1>22 DEF DeinitSpi, Goto
<1>23. CASE DeinitState
  BY <1>23 DEF DeinitState, Goto
<1>24. CASE DeinitArch
  BY <1>24 DEF DeinitArch, Return, Goto
<1>25. ASSUME NEW t \in Threads, Disable(t) PROVE WorkerInv'
  BY <1>25 DEF Disable, Goto
<1>26. ASSUME NEW t \in Threads, ThreadEnter(t) PROVE WorkerInv'
  BY <1>26 DEF ThreadEnter, Goto, Acquire
<1>27. ASSUME NEW t \in Threads, ThreadExit(t) PROVE WorkerInv'
  BY <1>27, ExitFrame, ExitPath DEF Release
<1>28. ASSUME NEW t \in Threads, SetUpBody(t) PROVE WorkerInv'
  BY <1>28 DEF SetUpBody, Goto, Acquire
<1>29. ASSUME NEW t \in Threads, JoinBody(t) PROVE WorkerInv'
  BY <1>29 DEF JoinBody, Goto
<1>30. ASSUME NEW t \in Threads, OutputBody(t) PROVE WorkerInv'
  BY <1>30 DEF OutputBody, Goto, Acquire
<1>31. ASSUME NEW t \in Threads, EnsureUp(t) PROVE WorkerInv'
  BY <1>31 DEF EnsureUp, Goto, HoldReset, TcpipDeinit
<1>32. ASSUME NEW t \in Threads, EnsureUpSpi(t) PROVE WorkerInv'
  BY <1>32 DEF EnsureUpSpi, Goto, ReleaseReset
<1>33. ASSUME NEW t \in Threads, EnsureUpConfig(t) PROVE WorkerInv'
  BY <1>33 DEF EnsureUpConfig, Goto, EnableInterrupts
<1>34. ASSUME NEW t \in Threads, EnsureUpKick(t) PROVE WorkerInv'
  BY <1>34 DEF EnsureUpKick, Goto
<1>35. ASSUME NEW t \in Threads, SetUpNetif(t) PROVE WorkerInv'
  BY <1>35 DEF SetUpNetif, Goto, OpenSocket, QuietInv, SetUpLabels
<1>36. ASSUME NEW t \in Threads, SetUpUp(t) PROVE WorkerInv'
  BY <1>36 DEF SetUpUp, Goto
<1>37. ASSUME NEW t \in Threads, SetUpItf(t) PROVE WorkerInv'
  BY <1>37 DEF SetUpItf, Goto
<1>38. ASSUME NEW t \in Threads, JoinLink(t) PROVE WorkerInv'
  BY <1>38 DEF JoinLink, Goto
<1>39. ASSUME NEW t \in Threads, JoinState(t) PROVE WorkerInv'
  BY <1>39 DEF JoinState, Goto
<1>40. ASSUME NEW t \in Threads, SendFrame(t) PROVE WorkerInv'
  BY <1>40 DEF SendFrame, Goto
<1>41. ASSUME NEW t \in Threads, StopTransmit(t) PROVE WorkerInv'
  BY <1>41 DEF StopTransmit, Goto
<1>42. ASSUME NEW t \in Threads, StopSend(t) PROVE WorkerInv'
  BY <1>42 DEF StopSend, Goto
<1>43. ASSUME NEW t \in Threads, NetifRemove(t) PROVE WorkerInv'
  BY <1>43 DEF NetifRemove, Goto, TcpipDeinit
<1>44. ASSUME NEW t \in Threads, DisableCheck(t) PROVE WorkerInv'
  BY <1>44 DEF DisableCheck, Goto, DisableReturn, Return
<1>45. ASSUME NEW t \in Threads, DisableItf(t) PROVE WorkerInv'
  BY <1>45 DEF DisableItf, DisableReturn, Goto, Return
<1>46. ASSUME NEW t \in Threads, NEW o \in Ops, Call(t, o) PROVE WorkerInv'
  BY <1>46 DEF Call, Goto
<1> QED
  BY <1>1, <1>2, <1>3, <1>4, <1>5, <1>6, <1>7, <1>8, <1>9, <1>10, <1>11, <1>12,
     <1>13, <1>14, <1>15, <1>16, <1>17, <1>18, <1>19, <1>20, <1>21, <1>22,
     <1>23, <1>24, <1>25, <1>26, <1>27, <1>28, <1>29, <1>30, <1>31, <1>32,
     <1>33, <1>34, <1>35, <1>36, <1>37, <1>38, <1>39, <1>40, <1>41, <1>42,
     <1>43, <1>44, <1>45, <1>46
     DEF Next, BgStep, ThreadStep, LifecycleStep, DeinitStep

\* The GPIO interrupt, once masked by its handler, is serviced: the poll it
\* asks for is pending or under way, and w5x00_poll is there to be called.
LEMMA IrqStep ==
  ASSUME CallTypeOK, LockInv, CallInv, QuietInv, WorkerInv, IrqInv, [Next]_vars
  PROVE  IrqInv'
<1> USE DEF CallInv, IrqInv, MaskedIrqIsServiced, CallTypeOK, BgLabels,
       SetUpLabels
<1>1. CASE UNCHANGED vars
  BY <1>1
<1>2. CASE Network
  BY <1>2 DEF Network, FrameArrives
<1>3. CASE GpioIrq
  BY <1>3 DEF GpioIrq, IntnLow
<1>4. CASE SleepTimeoutReached
  BY <1>4 DEF SleepTimeoutReached
<1>5. CASE DoPoll
  BY <1>5 DEF DoPoll, Acquire
<1>6. CASE PollPin
  BY <1>6 DEF PollPin
<1>7. CASE RecvEnter
  BY <1>7 DEF RecvEnter, Acquire
<1>8. CASE RecvEmpty
  BY <1>8 DEF RecvEmpty, Release
<1>9. CASE RecvFrame
  BY <1>9 DEF RecvFrame, TakeFrame, Release
<1>10. CASE RecvError
  BY <1>10 DEF RecvError, FailFrame, Release
<1>11. CASE ProcessFrame
  BY <1>11 DEF ProcessFrame
<1>12. CASE DropFrame
  BY <1>12 DEF DropFrame
<1>13. CASE ClearInterrupt
  BY <1>13 DEF ClearInterrupt, ClearRecv
<1>14. CASE PostPollHook
  BY <1>14 DEF PostPollHook
<1>15. CASE Reschedule
  BY <1>15 DEF Reschedule, Release
<1>16. CASE DriverInit
  BY <1>16 DEF DriverInit, Goto, HoldReset, Quiet, AppThreads, WorkerInv
<1>17. CASE InitWorker
  BY <1>17 DEF InitWorker, Goto, Return, QuietInv, WorkerInv, StopLabels,
     DeinitLabels
<1>18. CASE Deinit
  BY <1>18 DEF Deinit, Goto
<1>19. CASE DeinitTimer
  BY <1>19 DEF DeinitTimer, Goto
<1>20. CASE DeinitWorker
  BY <1>20 DEF DeinitWorker, Goto
<1>21. CASE DeinitHandler
  BY <1>21 DEF DeinitHandler, Goto
<1>22. CASE DeinitIrq
  BY <1>22 DEF DeinitIrq, Goto, QuietInv, WorkerInv, StopLabels, DeinitLabels
<1>23. CASE DeinitSpi
  BY <1>23 DEF DeinitSpi, Goto
<1>24. CASE DeinitState
  BY <1>24 DEF DeinitState, Goto, QuietInv, WorkerInv, StopLabels, DeinitLabels
<1>25. CASE DeinitArch
  BY <1>25 DEF DeinitArch, Return, Goto
<1>26. ASSUME NEW t \in Threads, Disable(t) PROVE IrqInv'
  BY <1>26 DEF Disable, Goto
<1>27. ASSUME NEW t \in Threads, ThreadEnter(t) PROVE IrqInv'
  BY <1>27 DEF ThreadEnter, Goto, Acquire
<1>28. ASSUME NEW t \in Threads, ThreadExit(t) PROVE IrqInv'
  BY <1>28, ExitFrame, ExitPath DEF Release
<1>29. ASSUME NEW t \in Threads, SetUpBody(t) PROVE IrqInv'
  BY <1>29 DEF SetUpBody, Goto, Acquire
<1>30. ASSUME NEW t \in Threads, JoinBody(t) PROVE IrqInv'
  BY <1>30 DEF JoinBody, Goto
<1>31. ASSUME NEW t \in Threads, OutputBody(t) PROVE IrqInv'
  BY <1>31 DEF OutputBody, Goto, Acquire
<1>32. ASSUME NEW t \in Threads, EnsureUp(t) PROVE IrqInv'
  BY <1>32 DEF EnsureUp, Goto, HoldReset, TcpipDeinit
<1>33. ASSUME NEW t \in Threads, EnsureUpSpi(t) PROVE IrqInv'
  BY <1>33 DEF EnsureUpSpi, Goto, ReleaseReset
<1>34. ASSUME NEW t \in Threads, EnsureUpConfig(t) PROVE IrqInv'
  BY <1>34 DEF EnsureUpConfig, Goto, EnableInterrupts
<1>35. ASSUME NEW t \in Threads, EnsureUpKick(t) PROVE IrqInv'
  BY <1>35 DEF EnsureUpKick, Goto
<1>36. ASSUME NEW t \in Threads, SetUpNetif(t) PROVE IrqInv'
  BY <1>36 DEF SetUpNetif, Goto, OpenSocket
<1>37. ASSUME NEW t \in Threads, SetUpUp(t) PROVE IrqInv'
  BY <1>37 DEF SetUpUp, Goto
<1>38. ASSUME NEW t \in Threads, SetUpItf(t) PROVE IrqInv'
  BY <1>38 DEF SetUpItf, Goto
<1>39. ASSUME NEW t \in Threads, JoinLink(t) PROVE IrqInv'
  BY <1>39 DEF JoinLink, Goto
<1>40. ASSUME NEW t \in Threads, JoinState(t) PROVE IrqInv'
  BY <1>40 DEF JoinState, Goto
<1>41. ASSUME NEW t \in Threads, SendFrame(t) PROVE IrqInv'
  BY <1>41 DEF SendFrame, Goto
<1>42. ASSUME NEW t \in Threads, StopTransmit(t) PROVE IrqInv'
  BY <1>42 DEF StopTransmit, Goto
<1>43. ASSUME NEW t \in Threads, StopSend(t) PROVE IrqInv'
  BY <1>43 DEF StopSend, Goto
<1>44. ASSUME NEW t \in Threads, NetifRemove(t) PROVE IrqInv'
  BY <1>44 DEF NetifRemove, Goto, TcpipDeinit
<1>45. ASSUME NEW t \in Threads, DisableCheck(t) PROVE IrqInv'
  BY <1>45 DEF DisableCheck, Goto, DisableReturn, Return
<1>46. ASSUME NEW t \in Threads, DisableItf(t) PROVE IrqInv'
  BY <1>46 DEF DisableItf, DisableReturn, Goto, Return
<1>47. ASSUME NEW t \in Threads, NEW o \in Ops, Call(t, o) PROVE IrqInv'
  BY <1>47 DEF Call, Goto
<1> QED
  BY <1>1, <1>2, <1>3, <1>4, <1>5, <1>6, <1>7, <1>8, <1>9, <1>10, <1>11, <1>12,
     <1>13, <1>14, <1>15, <1>16, <1>17, <1>18, <1>19, <1>20, <1>21, <1>22,
     <1>23, <1>24, <1>25, <1>26, <1>27, <1>28, <1>29, <1>30, <1>31, <1>32,
     <1>33, <1>34, <1>35, <1>36, <1>37, <1>38, <1>39, <1>40, <1>41, <1>42,
     <1>43, <1>44, <1>45, <1>46, <1>47
     DEF Next, BgStep, ThreadStep, LifecycleStep, DeinitStep

\* The chain of timer and worker behind the periodic poll is never broken.
LEMMA SleepStep ==
  ASSUME CallTypeOK, DriverTypeOK, CallInv, WorkerInv, SleepInv, [Next]_vars
  PROVE  SleepInv'
<1> USE DEF CallInv, SleepInv, SleepChainUnbroken, DriverTypeOK, CallTypeOK,
       WorkerInv, Unhooked, StopLabels, DeinitLabels
<1>1. CASE \/ UNCHANGED vars \/ Network
  <2>1. UNCHANGED <<poll, registered, sleep, pc, op, armed, pending, bg>>
    BY <1>1 DEF Network, FrameArrives
  <2> QED
    BY <2>1
<1>2. CASE GpioIrq
  BY <1>2 DEF GpioIrq
<1>3. CASE SleepTimeoutReached
  BY <1>3 DEF SleepTimeoutReached
<1>4. CASE DoPoll
  BY <1>4 DEF DoPoll, Acquire
<1>5. CASE PollPin
  BY <1>5 DEF PollPin
<1>6. CASE RecvEnter
  BY <1>6 DEF RecvEnter, Acquire
<1>7. CASE RecvEmpty
  BY <1>7 DEF RecvEmpty, Release
<1>8. CASE RecvFrame
  BY <1>8 DEF RecvFrame, TakeFrame, Release
<1>9. CASE RecvError
  BY <1>9 DEF RecvError, FailFrame, Release
<1>10. CASE ProcessFrame
  BY <1>10 DEF ProcessFrame
<1>11. CASE DropFrame
  BY <1>11 DEF DropFrame
<1>12. CASE ClearInterrupt
  BY <1>12 DEF ClearInterrupt, ClearRecv
<1>13. CASE PostPollHook
  BY <1>13 DEF PostPollHook
<1>14. CASE Reschedule
  BY <1>14 DEF Reschedule, Release
<1>15. CASE DriverInit
  BY <1>15 DEF DriverInit, Goto, HoldReset
<1>16. CASE InitWorker
  BY <1>16 DEF InitWorker, Goto, Return
<1>17. CASE Deinit
  BY <1>17 DEF Deinit, Goto
<1>18. CASE DeinitTimer
  BY <1>18 DEF DeinitTimer, Goto
<1>19. CASE DeinitWorker
  BY <1>19 DEF DeinitWorker, Goto
<1>20. CASE DeinitHandler
  BY <1>20 DEF DeinitHandler, Goto
<1>21. CASE DeinitIrq
  BY <1>21 DEF DeinitIrq, Goto
<1>22. CASE DeinitSpi
  BY <1>22 DEF DeinitSpi, Goto
<1>23. CASE DeinitState
  BY <1>23 DEF DeinitState, Goto
<1>24. CASE DeinitArch
  BY <1>24 DEF DeinitArch, Return, Goto
<1>25. ASSUME NEW t \in Threads, Disable(t) PROVE SleepInv'
  BY <1>25 DEF Disable, Goto
<1>26. ASSUME NEW t \in Threads, ThreadEnter(t) PROVE SleepInv'
  BY <1>26 DEF ThreadEnter, Goto, Acquire
<1>27. ASSUME NEW t \in Threads, ThreadExit(t) PROVE SleepInv'
  BY <1>27, ExitFrame, ExitPath DEF Release
<1>28. ASSUME NEW t \in Threads, SetUpBody(t) PROVE SleepInv'
  BY <1>28 DEF SetUpBody, Goto, Acquire
<1>29. ASSUME NEW t \in Threads, JoinBody(t) PROVE SleepInv'
  BY <1>29 DEF JoinBody, Goto
<1>30. ASSUME NEW t \in Threads, OutputBody(t) PROVE SleepInv'
  BY <1>30 DEF OutputBody, Goto, Acquire
<1>31. ASSUME NEW t \in Threads, EnsureUp(t) PROVE SleepInv'
  BY <1>31 DEF EnsureUp, Goto, HoldReset, TcpipDeinit
<1>32. ASSUME NEW t \in Threads, EnsureUpSpi(t) PROVE SleepInv'
  BY <1>32 DEF EnsureUpSpi, Goto, ReleaseReset
<1>33. ASSUME NEW t \in Threads, EnsureUpConfig(t) PROVE SleepInv'
  BY <1>33 DEF EnsureUpConfig, Goto, EnableInterrupts
<1>34. ASSUME NEW t \in Threads, EnsureUpKick(t) PROVE SleepInv'
  BY <1>34 DEF EnsureUpKick, Goto
<1>35. ASSUME NEW t \in Threads, SetUpNetif(t) PROVE SleepInv'
  BY <1>35 DEF SetUpNetif, Goto, OpenSocket
<1>36. ASSUME NEW t \in Threads, SetUpUp(t) PROVE SleepInv'
  BY <1>36 DEF SetUpUp, Goto
<1>37. ASSUME NEW t \in Threads, SetUpItf(t) PROVE SleepInv'
  BY <1>37 DEF SetUpItf, Goto
<1>38. ASSUME NEW t \in Threads, JoinLink(t) PROVE SleepInv'
  BY <1>38 DEF JoinLink, Goto
<1>39. ASSUME NEW t \in Threads, JoinState(t) PROVE SleepInv'
  BY <1>39 DEF JoinState, Goto
<1>40. ASSUME NEW t \in Threads, SendFrame(t) PROVE SleepInv'
  BY <1>40 DEF SendFrame, Goto
<1>41. ASSUME NEW t \in Threads, StopTransmit(t) PROVE SleepInv'
  BY <1>41 DEF StopTransmit, Goto
<1>42. ASSUME NEW t \in Threads, StopSend(t) PROVE SleepInv'
  BY <1>42 DEF StopSend, Goto
<1>43. ASSUME NEW t \in Threads, NetifRemove(t) PROVE SleepInv'
  BY <1>43 DEF NetifRemove, Goto, TcpipDeinit
<1>44. ASSUME NEW t \in Threads, DisableCheck(t) PROVE SleepInv'
  BY <1>44 DEF DisableCheck, Goto, DisableReturn, Return
<1>45. ASSUME NEW t \in Threads, DisableItf(t) PROVE SleepInv'
  BY <1>45 DEF DisableItf, DisableReturn, Goto, Return
<1>46. ASSUME NEW t \in Threads, NEW o \in Ops, Call(t, o) PROVE SleepInv'
  BY <1>46 DEF Call, Goto
<1> QED
  BY <1>1, <1>2, <1>3, <1>4, <1>5, <1>6, <1>7, <1>8, <1>9, <1>10, <1>11, <1>12,
     <1>13, <1>14, <1>15, <1>16, <1>17, <1>18, <1>19, <1>20, <1>21, <1>22,
     <1>23, <1>24, <1>25, <1>26, <1>27, <1>28, <1>29, <1>30, <1>31, <1>32,
     <1>33, <1>34, <1>35, <1>36, <1>37, <1>38, <1>39, <1>40, <1>41, <1>42,
     <1>43, <1>44, <1>45, <1>46
     DEF Next, BgStep, ThreadStep, LifecycleStep, DeinitStep

\* itf_state becomes 1 at the end of a bring-up, with w5x00_poll set, and
\* w5x00_poll goes only together with it.
LEMMA ItfPolledStep ==
  ASSUME CallTypeOK, CallInv, IrqInv, ItfPolled, [Next]_vars
  PROVE  ItfPolled'
<1> USE DEF ItfPolled
<1>1. CASE \/ UNCHANGED vars \/ Network \/ GpioIrq \/ SleepTimeoutReached
          \/ BgStep
  <2>1. UNCHANGED <<itf, poll>>
    BY <1>1 DEF Network, GpioIrq, SleepTimeoutReached, BgStep, DoPoll, PollPin,
       RecvEnter, RecvEmpty, RecvFrame, RecvError, ProcessFrame, DropFrame,
       ClearInterrupt, PostPollHook, Reschedule
  <2> QED
    BY <2>1
<1>2. CASE DriverInit \/ Deinit \/ LifecycleStep
  <2>1. itf' = 0 \/ UNCHANGED <<itf, poll>>
    BY <1>2 DEF DriverInit, Deinit, LifecycleStep, InitWorker, DeinitStep,
       DeinitTimer, DeinitWorker, DeinitHandler, DeinitIrq, DeinitSpi,
       DeinitState, DeinitArch
  <2> QED
    BY <2>1
<1>3. ASSUME NEW t \in Threads,
             \/ Disable(t) \/ ThreadEnter(t) \/ SetUpBody(t)
             \/ JoinBody(t) \/ OutputBody(t) \/ EnsureUp(t) \/ EnsureUpSpi(t)
             \/ EnsureUpConfig(t) \/ EnsureUpKick(t) \/ SetUpNetif(t)
             \/ SetUpUp(t) \/ JoinLink(t) \/ JoinState(t) \/ SendFrame(t)
             \/ StopTransmit(t) \/ StopSend(t)
             \/ NetifRemove(t) \/ DisableCheck(t) \/ DisableItf(t)
             \/ (\E o \in Ops : Call(t, o))
      PROVE  ItfPolled'
  <2>1. (poll' = poll /\ itf' \in {itf, 0}) \/ poll'
    BY <1>3 DEF Disable, ThreadEnter, SetUpBody, JoinBody,
       OutputBody, EnsureUp, EnsureUpSpi, EnsureUpConfig, EnsureUpKick,
       SetUpNetif,
       SetUpUp, JoinLink, JoinState, SendFrame, StopTransmit, StopSend,
       NetifRemove, DisableCheck, DisableItf, Call
  <2> QED
    BY <2>1
<1>4. ASSUME NEW t \in Threads, SetUpItf(t) PROVE ItfPolled'
  BY <1>4 DEF SetUpItf, Goto, CallInv, IrqInv, SetUpLabels
<1>5. ASSUME NEW t \in Threads, ThreadExit(t) PROVE ItfPolled'
  BY <1>5, ExitFrame
<1> QED
  BY <1>1, <1>2, <1>3, <1>4, <1>5 DEF Next, ThreadStep

----------------------------------------------------------------------------
(* What holds when lwIP's threads stay out of deinit, and disable is       *)
(* bracketed.                                                              *)

\* Nobody is in a locked part of a call without a context to unlock, nor while
\* deinit is past the removal of the worker.
LEMMA NobodyHolds ==
  ASSUME DeinitAlone, LockInv, LockHasContext, Unhooked \/ ~context
  PROVE  owner = NoOwner /\ \A t \in Threads : pc[t] \notin LockedLabels
BY DEF DeinitAlone, LockHasContext, LockInv, Holding

\* The chip and the DMA channels follow w5x00_poll, and the context outlives
\* every holder of its lock; only when lwIP's threads stay out of deinit, or
\* they could bring the driver up again.
LEMMA PollStep ==
  ASSUME DeinitAlone, CallTypeOK, ContextTypeOK, LockInv, CallInv, QuietInv,
         WorkerInv, PollInv, [Next]_vars
  PROVE  PollInv'
<1> USE DEF PollInv, LockHasContext, CallTypeOK, BringUpLabels, NestedLabels,
       CallInv, LockInv, Holding, LockedLabels, StopLabels, DeinitLabels,
       WorkerInv, Unhooked
<1>0. Unhooked \/ ~context =>
        owner = NoOwner /\ \A t \in Threads : pc[t] \notin LockedLabels
  BY NobodyHolds
<1>1. CASE \/ UNCHANGED vars \/ GpioIrq \/ SleepTimeoutReached \/ PollPin
          \/ RecvEnter \/ RecvEmpty \/ ProcessFrame \/ DropFrame
          \/ PostPollHook \/ Reschedule
  <2>1. /\ UNCHANGED <<poll, initted, context, held, unmasked, dma, pc>>
        /\ owner' \in {owner, NoOwner}
    BY <1>1 DEF GpioIrq, SleepTimeoutReached, PollPin, RecvEnter, RecvEmpty,
       ProcessFrame, DropFrame, PostPollHook, Reschedule, Release, Acquire
  <2> QED
    BY <2>1
<1>2. CASE DoPoll
  <2>1. /\ UNCHANGED <<poll, initted, context, held, unmasked, dma, pc>>
        /\ registered
    BY <1>2 DEF DoPoll
  <2>2. context
    BY <2>1
  <2> QED
    BY <2>1, <2>2
<1>3. CASE Network
  BY <1>3 DEF Network, FrameArrives
<1>4. CASE RecvFrame
  BY <1>4 DEF RecvFrame, TakeFrame, Release
<1>5. CASE RecvError
  BY <1>5 DEF RecvError, FailFrame, Release
<1>6. CASE ClearInterrupt
  BY <1>6 DEF ClearInterrupt, ClearRecv
<1>7. CASE DriverInit
  BY <1>0, <1>7 DEF DriverInit, Goto, HoldReset
<1>8. CASE InitWorker
  BY <1>8 DEF InitWorker, Goto, Return
<1>9. CASE Deinit
  BY <1>9 DEF Deinit, Goto
<1>10. CASE DeinitTimer
  BY <1>10 DEF DeinitTimer, Goto
<1>11. CASE DeinitWorker
  BY <1>11 DEF DeinitWorker, Goto
<1>12. CASE DeinitHandler
  BY <1>12 DEF DeinitHandler, Goto
<1>13. CASE DeinitIrq
  BY <1>13 DEF DeinitIrq, Goto
<1>14. CASE DeinitSpi
  BY <1>0, <1>14 DEF DeinitSpi, Goto
<1>15. CASE DeinitState
  BY <1>0, <1>15 DEF DeinitState, Goto
<1>16. CASE DeinitArch
  BY <1>16 DEF DeinitArch, Return, Goto
<1>17. ASSUME NEW t \in Threads, Disable(t) PROVE PollInv'
  BY <1>17 DEF Disable, Goto
<1>18. ASSUME NEW t \in Threads, ThreadEnter(t) PROVE PollInv'
  BY <1>18 DEF ThreadEnter, Goto, Acquire
<1>19. ASSUME NEW t \in Threads, ThreadExit(t) PROVE PollInv'
  BY <1>19, ExitFrame, ExitPath DEF Release
<1>20. ASSUME NEW t \in Threads, SetUpBody(t) PROVE PollInv'
  BY <1>20 DEF SetUpBody, Goto, Acquire
<1>21. ASSUME NEW t \in Threads, JoinBody(t) PROVE PollInv'
  BY <1>21 DEF JoinBody, Goto
<1>22. ASSUME NEW t \in Threads, OutputBody(t) PROVE PollInv'
  BY <1>22 DEF OutputBody, Goto, Acquire
<1>23. ASSUME NEW t \in Threads, EnsureUp(t) PROVE PollInv'
  BY <1>23 DEF EnsureUp, Goto, HoldReset, TcpipDeinit
<1>24. ASSUME NEW t \in Threads, EnsureUpSpi(t) PROVE PollInv'
  BY <1>24 DEF EnsureUpSpi, Goto, ReleaseReset
<1>25. ASSUME NEW t \in Threads, EnsureUpConfig(t) PROVE PollInv'
  BY <1>25 DEF EnsureUpConfig, Goto, EnableInterrupts
<1>26. ASSUME NEW t \in Threads, EnsureUpKick(t) PROVE PollInv'
  BY <1>26 DEF EnsureUpKick, Goto
<1>27. ASSUME NEW t \in Threads, SetUpNetif(t) PROVE PollInv'
  BY <1>27 DEF SetUpNetif, Goto, OpenSocket
<1>28. ASSUME NEW t \in Threads, SetUpUp(t) PROVE PollInv'
  BY <1>28 DEF SetUpUp, Goto
<1>29. ASSUME NEW t \in Threads, SetUpItf(t) PROVE PollInv'
  BY <1>29 DEF SetUpItf, Goto
<1>30. ASSUME NEW t \in Threads, JoinLink(t) PROVE PollInv'
  BY <1>30 DEF JoinLink, Goto
<1>31. ASSUME NEW t \in Threads, JoinState(t) PROVE PollInv'
  BY <1>31 DEF JoinState, Goto
<1>32. ASSUME NEW t \in Threads, SendFrame(t) PROVE PollInv'
  BY <1>32 DEF SendFrame, Goto
<1>33. ASSUME NEW t \in Threads, StopTransmit(t) PROVE PollInv'
  BY <1>33 DEF StopTransmit, Goto
<1>34. ASSUME NEW t \in Threads, StopSend(t) PROVE PollInv'
  BY <1>34 DEF StopSend, Goto
<1>35. ASSUME NEW t \in Threads, NetifRemove(t) PROVE PollInv'
  BY <1>35 DEF NetifRemove, Goto, TcpipDeinit
<1>36. ASSUME NEW t \in Threads, DisableCheck(t) PROVE PollInv'
  BY <1>36 DEF DisableCheck, Goto, DisableReturn, Return
<1>37. ASSUME NEW t \in Threads, DisableItf(t) PROVE PollInv'
  BY <1>37 DEF DisableItf, DisableReturn, Goto, Return
<1>38. ASSUME NEW t \in Threads, NEW o \in Ops, Call(t, o) PROVE PollInv'
  BY <1>38 DEF Call, Goto
<1> QED
  BY <1>1, <1>2, <1>3, <1>4, <1>5, <1>6, <1>7, <1>8, <1>9, <1>10, <1>11, <1>12,
     <1>13, <1>14, <1>15, <1>16, <1>17, <1>18, <1>19, <1>20, <1>21, <1>22,
     <1>23, <1>24, <1>25, <1>26, <1>27, <1>28, <1>29, <1>30, <1>31, <1>32,
     <1>33, <1>34, <1>35, <1>36, <1>37, <1>38
     DEF Next, BgStep, ThreadStep, LifecycleStep, DeinitStep

\* lwIP's list of netifs follows itf_state, given that disable is bracketed.
LEMMA NetifStep ==
  ASSUME DisableLocked, CallTypeOK, LockInv, CallInv, QuietInv, WorkerInv,
         NetifInv, [Next]_vars
  PROVE  NetifInv'
<1> USE DEF NetifInv, ListedMeansItf, CallTypeOK, CallInv, LockInv, Holding,
       LockedLabels, StopLabels, DisableLabels, DeinitLabels, QuietInv,
       AppThreads, Quiet
<1>1. CASE \/ UNCHANGED vars \/ Network \/ GpioIrq \/ SleepTimeoutReached
          \/ DoPoll \/ PollPin \/ RecvEnter \/ RecvEmpty \/ RecvFrame
          \/ RecvError \/ ProcessFrame \/ DropFrame \/ ClearInterrupt
          \/ PostPollHook \/ Reschedule
  <2>1. UNCHANGED <<listed, itf, pc, initted>>
    BY <1>1 DEF Network, GpioIrq, SleepTimeoutReached, DoPoll, PollPin,
       RecvEnter, RecvEmpty, RecvFrame, RecvError, ProcessFrame, DropFrame,
       ClearInterrupt, PostPollHook, Reschedule, Acquire, Release, TakeFrame,
       FailFrame, ClearRecv, FrameArrives
  <2> QED
    BY <2>1
<1>2. CASE DriverInit
  BY <1>2 DEF DriverInit, Goto, HoldReset
<1>3. CASE InitWorker
  BY <1>3 DEF InitWorker, Goto, Return
<1>4. CASE Deinit
  BY <1>4 DEF Deinit, Goto
<1>5. CASE DeinitTimer
  BY <1>5 DEF DeinitTimer, Goto
<1>6. CASE DeinitWorker
  BY <1>6 DEF DeinitWorker, Goto
<1>7. CASE DeinitHandler
  BY <1>7 DEF DeinitHandler, Goto
<1>8. CASE DeinitIrq
  BY <1>8 DEF DeinitIrq, Goto
<1>9. CASE DeinitSpi
  BY <1>9 DEF DeinitSpi, Goto
<1>10. CASE DeinitState
  BY <1>10 DEF DeinitState, Goto
<1>11. CASE DeinitArch
  BY <1>11 DEF DeinitArch, Return, Goto
<1>12. ASSUME NEW t \in Threads, Disable(t) PROVE NetifInv'
  BY <1>12 DEF Disable, Goto
<1>13. ASSUME NEW t \in Threads, ThreadEnter(t) PROVE NetifInv'
  BY <1>13 DEF ThreadEnter, Goto, Acquire
<1>14. ASSUME NEW t \in Threads, ThreadExit(t) PROVE NetifInv'
  BY <1>14, ExitFrame, ExitPath DEF Release
<1>15. ASSUME NEW t \in Threads, SetUpBody(t) PROVE NetifInv'
  BY <1>15 DEF SetUpBody, Goto, Acquire
<1>16. ASSUME NEW t \in Threads, JoinBody(t) PROVE NetifInv'
  BY <1>16 DEF JoinBody, Goto
<1>17. ASSUME NEW t \in Threads, OutputBody(t) PROVE NetifInv'
  BY <1>17 DEF OutputBody, Goto, Acquire
<1>18. ASSUME NEW t \in Threads, EnsureUp(t) PROVE NetifInv'
  BY <1>18 DEF EnsureUp, Goto, HoldReset, TcpipDeinit
<1>19. ASSUME NEW t \in Threads, EnsureUpSpi(t) PROVE NetifInv'
  BY <1>19 DEF EnsureUpSpi, Goto, ReleaseReset
<1>20. ASSUME NEW t \in Threads, EnsureUpConfig(t) PROVE NetifInv'
  BY <1>20 DEF EnsureUpConfig, Goto, EnableInterrupts
<1>21. ASSUME NEW t \in Threads, EnsureUpKick(t) PROVE NetifInv'
  BY <1>21 DEF EnsureUpKick, Goto
<1>22. ASSUME NEW t \in Threads, SetUpNetif(t) PROVE NetifInv'
  BY <1>22 DEF SetUpNetif, Goto, OpenSocket, SetUpLabels
<1>23. ASSUME NEW t \in Threads, SetUpUp(t) PROVE NetifInv'
  BY <1>23 DEF SetUpUp, Goto
<1>24. ASSUME NEW t \in Threads, SetUpItf(t) PROVE NetifInv'
  BY <1>24 DEF SetUpItf, Goto
<1>25. ASSUME NEW t \in Threads, JoinLink(t) PROVE NetifInv'
  BY <1>25 DEF JoinLink, Goto
<1>26. ASSUME NEW t \in Threads, JoinState(t) PROVE NetifInv'
  BY <1>26 DEF JoinState, Goto
<1>27. ASSUME NEW t \in Threads, SendFrame(t) PROVE NetifInv'
  BY <1>27 DEF SendFrame, Goto
<1>28. ASSUME NEW t \in Threads, StopTransmit(t) PROVE NetifInv'
  BY <1>28 DEF StopTransmit, Goto
<1>29. ASSUME NEW t \in Threads, StopSend(t) PROVE NetifInv'
  BY <1>29 DEF StopSend, Goto
<1>30. ASSUME NEW t \in Threads, NetifRemove(t) PROVE NetifInv'
  BY <1>30 DEF NetifRemove, Goto, TcpipDeinit
<1>31. ASSUME NEW t \in Threads, DisableCheck(t) PROVE NetifInv'
  BY <1>31 DEF DisableCheck, Goto, DisableReturn, Return
<1>32. ASSUME NEW t \in Threads, DisableItf(t) PROVE NetifInv'
  BY <1>32 DEF DisableItf, DisableReturn, Goto, Return
<1>33. ASSUME NEW t \in Threads, NEW o \in Ops, Call(t, o) PROVE NetifInv'
  BY <1>33 DEF Call, Goto
<1> QED
  BY <1>1, <1>2, <1>3, <1>4, <1>5, <1>6, <1>7, <1>8, <1>9, <1>10, <1>11, <1>12,
     <1>13, <1>14, <1>15, <1>16, <1>17, <1>18, <1>19, <1>20, <1>21, <1>22,
     <1>23, <1>24, <1>25, <1>26, <1>27, <1>28, <1>29, <1>30, <1>31, <1>32,
     <1>33
     DEF Next, BgStep, ThreadStep, LifecycleStep, DeinitStep

\* From w5x00_netif_output to the end of w5x00_send_ethernet eth_frame keeps
\* the frame: whoever else writes it needs the lock.
LEMMA TxFrameStep ==
  ASSUME DeinitAlone, DisableLocked, CallTypeOK, LockInv, CallInv, TxFrameIntact,
         [Next]_vars
  PROVE  TxFrameIntact'
<1> USE DEF TxFrameIntact, CallTypeOK, CallInv, LockInv, Holding, LockedLabels,
       StopLabels, DisableLabels
<1>1. CASE \/ UNCHANGED vars \/ Network \/ GpioIrq \/ SleepTimeoutReached
          \/ DoPoll \/ PollPin \/ RecvEnter \/ RecvEmpty \/ RecvError
          \/ DropFrame \/ ClearInterrupt \/ PostPollHook \/ Reschedule
  <2>1. UNCHANGED <<ethFrame, pc, op>>
    BY <1>1 DEF Network, GpioIrq, SleepTimeoutReached, DoPoll, PollPin,
       RecvEnter, RecvEmpty, RecvError, DropFrame, ClearInterrupt,
       PostPollHook, Reschedule, Acquire, Release, FailFrame, ClearRecv,
       FrameArrives
  <2> QED
    BY <2>1
<1>2. CASE RecvFrame
  BY <1>2 DEF RecvFrame, TakeFrame, Release
<1>3. CASE ProcessFrame
  BY <1>3 DEF ProcessFrame
<1>4. CASE DriverInit
  BY <1>4 DEF DriverInit, Goto, HoldReset
<1>5. CASE InitWorker
  BY <1>5 DEF InitWorker, Goto, Return
<1>6. CASE Deinit
  BY <1>6 DEF Deinit, Goto
<1>7. CASE DeinitTimer
  BY <1>7 DEF DeinitTimer, Goto
<1>8. CASE DeinitWorker
  BY <1>8 DEF DeinitWorker, Goto
<1>9. CASE DeinitHandler
  BY <1>9 DEF DeinitHandler, Goto
<1>10. CASE DeinitIrq
  BY <1>10 DEF DeinitIrq, Goto
<1>11. CASE DeinitSpi
  BY <1>11 DEF DeinitSpi, Goto
<1>12. CASE DeinitState
  BY <1>12 DEF DeinitState, Goto
<1>13. CASE DeinitArch
  BY <1>13 DEF DeinitArch, Return, Goto
<1>14. ASSUME NEW t \in Threads, Disable(t) PROVE TxFrameIntact'
  BY <1>14 DEF Disable, Goto
<1>15. ASSUME NEW t \in Threads, ThreadEnter(t) PROVE TxFrameIntact'
  BY <1>15 DEF ThreadEnter, Goto, Acquire
<1>16. ASSUME NEW t \in Threads, ThreadExit(t) PROVE TxFrameIntact'
  BY <1>16, ExitFrame, ExitPath DEF Release
<1>17. ASSUME NEW t \in Threads, SetUpBody(t) PROVE TxFrameIntact'
  BY <1>17 DEF SetUpBody, Goto, Acquire
<1>18. ASSUME NEW t \in Threads, JoinBody(t) PROVE TxFrameIntact'
  BY <1>18 DEF JoinBody, Goto
<1>19. ASSUME NEW t \in Threads, OutputBody(t) PROVE TxFrameIntact'
  BY <1>19 DEF OutputBody, Goto, Acquire
<1>20. ASSUME NEW t \in Threads, EnsureUp(t) PROVE TxFrameIntact'
  BY <1>20 DEF EnsureUp, Goto, HoldReset, TcpipDeinit
<1>21. ASSUME NEW t \in Threads, EnsureUpSpi(t) PROVE TxFrameIntact'
  BY <1>21 DEF EnsureUpSpi, Goto, ReleaseReset
<1>22. ASSUME NEW t \in Threads, EnsureUpConfig(t) PROVE TxFrameIntact'
  BY <1>22 DEF EnsureUpConfig, Goto, EnableInterrupts
<1>23. ASSUME NEW t \in Threads, EnsureUpKick(t) PROVE TxFrameIntact'
  BY <1>23 DEF EnsureUpKick, Goto
<1>24. ASSUME NEW t \in Threads, SetUpNetif(t) PROVE TxFrameIntact'
  BY <1>24 DEF SetUpNetif, Goto, OpenSocket
<1>25. ASSUME NEW t \in Threads, SetUpUp(t) PROVE TxFrameIntact'
  BY <1>25 DEF SetUpUp, Goto
<1>26. ASSUME NEW t \in Threads, SetUpItf(t) PROVE TxFrameIntact'
  BY <1>26 DEF SetUpItf, Goto
<1>27. ASSUME NEW t \in Threads, JoinLink(t) PROVE TxFrameIntact'
  BY <1>27 DEF JoinLink, Goto
<1>28. ASSUME NEW t \in Threads, JoinState(t) PROVE TxFrameIntact'
  BY <1>28 DEF JoinState, Goto
<1>29. ASSUME NEW t \in Threads, SendFrame(t) PROVE TxFrameIntact'
  BY <1>29 DEF SendFrame, Goto
<1>30. ASSUME NEW t \in Threads, StopTransmit(t) PROVE TxFrameIntact'
  <2>1. \A u \in Threads \ {t} : pc[u] \notin LockedLabels
    <3>1. CASE op[t] = "disable"
      BY <1>30, <3>1 DEF StopTransmit, Goto
    <3>2. CASE op[t] # "disable"
      <4>1. Unhooked
        BY <1>30, <3>2 DEF StopTransmit, Goto, Unhooked
      <4> QED
        BY <4>1 DEF DeinitAlone
    <3> QED
      BY <3>1, <3>2
  <2>2. pc'[t] = "stop_send" /\ \A u \in Threads \ {t} : pc'[u] = pc[u]
    BY <1>30 DEF StopTransmit, Goto
  <2> QED
    BY <2>1, <2>2
<1>31. ASSUME NEW t \in Threads, StopSend(t) PROVE TxFrameIntact'
  BY <1>31 DEF StopSend, Goto
<1>32. ASSUME NEW t \in Threads, NetifRemove(t) PROVE TxFrameIntact'
  BY <1>32 DEF NetifRemove, Goto, TcpipDeinit
<1>33. ASSUME NEW t \in Threads, DisableCheck(t) PROVE TxFrameIntact'
  BY <1>33 DEF DisableCheck, Goto, DisableReturn, Return
<1>34. ASSUME NEW t \in Threads, DisableItf(t) PROVE TxFrameIntact'
  BY <1>34 DEF DisableItf, DisableReturn, Goto, Return
<1>35. ASSUME NEW t \in Threads, NEW o \in Ops, Call(t, o) PROVE TxFrameIntact'
  BY <1>35 DEF Call, Goto
<1> QED
  BY <1>1, <1>2, <1>3, <1>4, <1>5, <1>6, <1>7, <1>8, <1>9, <1>10, <1>11, <1>12,
     <1>13, <1>14, <1>15, <1>16, <1>17, <1>18, <1>19, <1>20, <1>21, <1>22,
     <1>23, <1>24, <1>25, <1>26, <1>27, <1>28, <1>29, <1>30, <1>31, <1>32,
     <1>33, <1>34, <1>35
     DEF Next, BgStep, ThreadStep, LifecycleStep, DeinitStep

=============================================================================
