------------------------ MODULE W5x00InterfaceProofs ------------------------
(***************************************************************************)
(* The driver implements NetInterface: what the connect loop assumes about *)
(* itf_state, ethernet_link_state and the netif's flags is what the driver *)
(* does, given that disable is bracketed, and whatever lwIP's threads do.  *)
(***************************************************************************)
EXTENDS W5x00DriverTheorems

USE ChipAssumption, ContextAssumption, DriverAssumption
USE DEF vars, chipVars, lockVars, workVars, irqVars, drvVars, netVars, bufVars,
        callVars

\* Only one call at a time is between its test of itf_state and the end of
\* its bring-up, and nobody else changes itf_state meanwhile.
LEMMA ItfStep ==
  ASSUME DisableLocked, CallTypeOK, DriverTypeOK, LockInv, CallInv, QuietInv,
         ItfPolled, ItfInv, [Next]_vars
  PROVE  ItfInv'
<1> USE DEF ItfInv, CallTypeOK, BringUpLabels, NestedLabels, SetUpLabels,
       CallInv, LockInv, Holding, LockedLabels, StopLabels, DisableLabels,
       DeinitLabels
<1> DEFINE Tested == NestedLabels \cup SetUpLabels \cup {"linked"}
<1>1. CASE \/ UNCHANGED vars \/ Network \/ GpioIrq \/ SleepTimeoutReached
          \/ BgStep
  <2>1. UNCHANGED <<itf, pc, op>>
    BY <1>1 DEF Network, GpioIrq, SleepTimeoutReached, BgStep, DoPoll, PollPin,
       RecvEnter, RecvEmpty, RecvFrame, RecvError, ProcessFrame, DropFrame,
       ClearInterrupt, PostPollHook, Reschedule
  <2> QED
    BY <2>1
<1>2. CASE DriverInit \/ DeinitState
  <2>1. \A t \in Threads \ {Main} :
          op'[t] \in {"set_up", "join"} => pc'[t] = "idle"
    BY <1>2 DEF DriverInit, DeinitState, Goto, Quiet, QuietInv, AppThreads
  <2>2. pc'[Main] \notin Tested
    BY <1>2 DEF DriverInit, DeinitState, Goto
  <2> QED
    BY <2>1, <2>2
<1>3. CASE InitWorker \/ Deinit \/ DeinitTimer \/ DeinitWorker \/ DeinitHandler
          \/ DeinitIrq \/ DeinitSpi \/ DeinitArch
  <2>1. /\ itf' = itf
        /\ \A t \in Threads \ {Main} : pc'[t] = pc[t] /\ op'[t] = op[t]
    BY <1>3 DEF InitWorker, Deinit, DeinitTimer, DeinitWorker, DeinitHandler,
       DeinitIrq, DeinitSpi, DeinitArch, Return, Goto
  <2>2. pc'[Main] \in DeinitLabels \cup {"idle", "stop"}
    BY <1>3 DEF InitWorker, Deinit, DeinitTimer, DeinitWorker, DeinitHandler,
       DeinitIrq, DeinitSpi, DeinitArch, Return, Goto
  <2>3. pc'[Main] \notin Tested
    BY <2>2
  <2> QED
    BY <2>1, <2>3
<1>4. ASSUME NEW t \in Threads, NEW o \in Ops, Call(t, o) PROVE ItfInv'
  BY <1>4 DEF Call, Goto
<1>5. ASSUME NEW t \in Threads, Disable(t) \/ DisableCheck(t) PROVE ItfInv'
  BY <1>5 DEF Disable, DisableCheck, DisableReturn, Return, Goto
<1>6. ASSUME NEW t \in Threads, ThreadEnter(t) \/ ThreadExit(t) PROVE ItfInv'
  <2>1. CASE ThreadEnter(t)
    BY <2>1 DEF ThreadEnter, Goto
  <2>2. CASE ThreadExit(t)
    BY <2>2, ExitFrame, ExitPath
  <2> QED
    BY <1>6, <2>1, <2>2
<1>7. ASSUME NEW t \in Threads, SetUpBody(t) PROVE ItfInv'
  BY <1>7 DEF SetUpBody, Goto, DriverTypeOK
<1>8. ASSUME NEW t \in Threads, JoinBody(t) PROVE ItfInv'
  BY <1>8 DEF JoinBody, Goto, DriverTypeOK
<1>9. ASSUME NEW t \in Threads, OutputBody(t) PROVE ItfInv'
  BY <1>9 DEF OutputBody, Goto
<1>10. ASSUME NEW t \in Threads, EnsureUp(t) PROVE ItfInv'
  <2>1. poll \/ itf = 0
    BY DEF ItfPolled, DriverTypeOK
  <2>2. itf' = itf
    BY <1>10, <2>1 DEF EnsureUp
  <2> QED
    BY <1>10, <2>2 DEF EnsureUp, Goto
<1>11. ASSUME NEW t \in Threads,
              \/ EnsureUpSpi(t) \/ EnsureUpConfig(t) \/ EnsureUpKick(t)
              \/ SetUpNetif(t) \/ SetUpUp(t)
       PROVE  ItfInv'
  BY <1>11 DEF EnsureUpSpi, EnsureUpConfig, EnsureUpKick, SetUpNetif, SetUpUp,
     Goto
<1>12. ASSUME NEW t \in Threads, SetUpItf(t) PROVE ItfInv'
  <2>1. owner = t
    BY <1>12 DEF SetUpItf, Goto
  <2>2. \A u \in Threads \ {t} : pc'[u] = pc[u] /\ pc[u] \notin Tested
    BY <1>12, <2>1 DEF SetUpItf, Goto
  <2>3. pc'[t] \notin Tested
    BY <1>12 DEF SetUpItf, Goto
  <2> QED
    BY <2>2, <2>3
<1>13. ASSUME NEW t \in Threads,
              JoinLink(t) \/ JoinState(t) \/ SendFrame(t)
       PROVE  ItfInv'
  BY <1>13 DEF JoinLink, JoinState, SendFrame, Goto
<1>14. ASSUME NEW t \in Threads, StopTransmit(t) \/ StopSend(t) PROVE ItfInv'
  BY <1>14 DEF StopTransmit, StopSend, Goto
<1>15. ASSUME NEW t \in Threads, NetifRemove(t) PROVE ItfInv'
  BY <1>15 DEF NetifRemove, Goto
<1>16. ASSUME NEW t \in Threads, DisableItf(t) PROVE ItfInv'
  <2>1. pc[t] = "dis_itf" /\ op[t] = "disable"
    BY <1>16 DEF DisableItf, DisableReturn, Goto, Return
  <2>2. owner = t
    BY <2>1
  <2>3. \A u \in Threads \ {t} : pc'[u] = pc[u] /\ pc[u] \notin Tested
    BY <1>16, <2>2 DEF DisableItf, DisableReturn, Goto, Return
  <2>4. pc'[t] \notin Tested
    BY <1>16 DEF DisableItf, DisableReturn, Goto, Return
  <2> QED
    BY <2>3, <2>4
<1> QED
  BY <1>1, <1>2, <1>3, <1>4, <1>5, <1>6, <1>7, <1>8, <1>9, <1>10, <1>11, <1>12,
     <1>13, <1>14, <1>15, <1>16
     DEF Next, ThreadStep, LifecycleStep, DeinitStep

\* From netif_set_up to itf_state = 1 nobody else changes the flags: whoever
\* could needs the lock, or is a deinit that no set-up runs alongside.
LEMMA RaisedStep ==
  ASSUME DisableLocked, CallTypeOK, LockInv, CallInv, QuietInv, RaisedInv,
         [Next]_vars
  PROVE  RaisedInv'
<1> USE DEF RaisedInv, CallTypeOK, LockInv, Holding, LockedLabels
<1>1. CASE \/ UNCHANGED vars \/ Network \/ GpioIrq \/ SleepTimeoutReached
          \/ BgStep
  <2>1. UNCHANGED pc /\ (flags' = flags \/ bg # "idle")
    BY <1>1 DEF Network, GpioIrq, SleepTimeoutReached, BgStep, DoPoll, PollPin,
       RecvEnter, RecvEmpty, RecvFrame, RecvError, ProcessFrame, DropFrame,
       ClearInterrupt, PostPollHook, Reschedule
  <2>2. bg # "idle" => \A t \in Threads : pc[t] # "raised"
    OBVIOUS
  <2> QED
    BY <2>1, <2>2
<1>2. CASE DriverInit \/ Deinit \/ LifecycleStep
  <2>1. flags' = flags /\ \A u \in Threads : pc'[u] = "raised" => pc[u] = "raised"
    BY <1>2 DEF DriverInit, Deinit, LifecycleStep, InitWorker, DeinitStep,
       DeinitTimer, DeinitWorker, DeinitHandler, DeinitIrq, DeinitSpi,
       DeinitState, DeinitArch, Return, Goto
  <2> QED
    BY <2>1
<1>3. ASSUME NEW t \in Threads,
             \/ Disable(t) \/ DisableCheck(t) \/ ThreadEnter(t) \/ ThreadExit(t)
             \/ SetUpBody(t) \/ JoinBody(t) \/ OutputBody(t) \/ EnsureUpSpi(t)
             \/ EnsureUpConfig(t) \/ EnsureUpKick(t) \/ SetUpItf(t)
             \/ JoinState(t) \/ StopTransmit(t) \/ DisableItf(t)
             \/ (\E o \in Ops : Call(t, o))
      PROVE  RaisedInv'
  <2>1. flags' = flags
    BY <1>3, ExitFrame DEF Disable, DisableCheck, ThreadEnter, SetUpBody,
       JoinBody, OutputBody, EnsureUpSpi, EnsureUpConfig, EnsureUpKick,
       SetUpItf, JoinState, StopTransmit, DisableItf, Call
  <2>2. \A u \in Threads : pc'[u] = "raised" => pc[u] = "raised"
    BY <1>3, ExitPath DEF Disable, DisableCheck, ThreadEnter, SetUpBody,
       JoinBody, OutputBody, EnsureUpSpi, EnsureUpConfig, EnsureUpKick,
       SetUpItf, JoinState, StopTransmit, DisableItf, DisableReturn, Return,
       Call, Goto
  <2> QED
    BY <2>1, <2>2
<1>4. ASSUME NEW t \in Threads,
             EnsureUp(t) \/ SetUpNetif(t) \/ JoinLink(t) \/ SendFrame(t)
      PROVE  RaisedInv'
  <2>1. owner = t
    BY <1>4 DEF EnsureUp, SetUpNetif, JoinLink, SendFrame, Goto
  <2>2. /\ pc'[t] # "raised"
        /\ \A u \in Threads \ {t} : pc'[u] = pc[u]
    BY <1>4 DEF EnsureUp, SetUpNetif, JoinLink, SendFrame, Goto
  <2> QED
    BY <2>1, <2>2
<1>5. ASSUME NEW t \in Threads, SetUpUp(t) PROVE RaisedInv'
  BY <1>5 DEF SetUpUp
<1>6. ASSUME NEW t \in Threads, StopSend(t) PROVE RaisedInv'
  BY <1>6 DEF StopSend, Goto
<1>7. ASSUME NEW t \in Threads, NetifRemove(t) PROVE RaisedInv'
  <2>1. /\ pc'[t] # "raised" /\ pc[t] \in StopLabels
        /\ \A u \in Threads \ {t} : pc'[u] = pc[u]
    BY <1>7 DEF NetifRemove, Goto, StopLabels
  <2>2. CASE op[t] = "disable"
    BY <2>1, <2>2
  <2>3. CASE op[t] # "disable"
    <3>1. op[t] = "deinit" /\ t = Main
      BY <2>1, <2>3 DEF CallInv
    <3>2. \A u \in Threads \ {t} : pc[u] # "raised"
      BY <3>1 DEF QuietInv, CallInv, SetUpLabels
    <3> QED
      BY <2>1, <3>2
  <2> QED
    BY <2>2, <2>3
<1> QED
  BY <1>1, <1>2, <1>3, <1>4, <1>5, <1>6, <1>7 DEF Next, ThreadStep

\* w5x00_arch_deinit runs on an initialised driver, the one that a failed
\* w5x00_arch_init calls as well.
LEMMA DeinitInvStep ==
  ASSUME CallTypeOK, CallInv, WorkerInv, DeinitInv, [Next]_vars
  PROVE  DeinitInv'
<1> USE DEF DeinitInv, CallTypeOK, CallInv, DeinitLabels, StopLabels
<1>1. CASE \/ UNCHANGED vars \/ Network \/ GpioIrq \/ SleepTimeoutReached
          \/ BgStep
  <2>1. UNCHANGED <<initted, pc, op>>
    BY <1>1 DEF Network, GpioIrq, SleepTimeoutReached, BgStep, DoPoll, PollPin,
       RecvEnter, RecvEmpty, RecvFrame, RecvError, ProcessFrame, DropFrame,
       ClearInterrupt, PostPollHook, Reschedule
  <2> QED
    BY <2>1
<1>2. CASE DriverInit \/ Deinit \/ InitWorker
  BY <1>2 DEF DriverInit, Deinit, InitWorker, Return, Goto, WorkerInv
<1>3. CASE DeinitStep
  BY <1>3 DEF DeinitStep, DeinitTimer, DeinitWorker, DeinitHandler, DeinitIrq,
     DeinitSpi, DeinitState, DeinitArch, Return, Goto
<1>4. ASSUME NEW t \in Threads, NEW o \in Ops, Call(t, o) PROVE DeinitInv'
  BY <1>4 DEF Call, Goto
<1>5. ASSUME NEW t \in Threads, Disable(t) PROVE DeinitInv'
  BY <1>5 DEF Disable, Goto
<1>6. ASSUME NEW t \in Threads, ThreadStep(t) PROVE DeinitInv'
  <2>1. initted' = initted
    BY <1>6, ExitFrame DEF ThreadStep, ThreadEnter, SetUpBody, JoinBody,
       OutputBody, EnsureUp, EnsureUpSpi, EnsureUpConfig, EnsureUpKick,
       SetUpNetif, SetUpUp, SetUpItf, JoinLink, JoinState, SendFrame,
       StopTransmit, StopSend, NetifRemove, DisableCheck, DisableItf
  <2>2. op' = op \/ op' = [op EXCEPT ![t] = "none"]
    BY <1>6, ExitPath DEF ThreadStep, ThreadEnter, SetUpBody, JoinBody,
       OutputBody, EnsureUp, EnsureUpSpi, EnsureUpConfig, EnsureUpKick,
       SetUpNetif, SetUpUp, SetUpItf, JoinLink, JoinState, SendFrame,
       StopTransmit, StopSend, NetifRemove, DisableCheck, DisableItf,
       DisableReturn, Return
  <2>3. pc[t] # "dei_arch"
    BY <1>6, ExitPath DEF ThreadStep, ThreadEnter, SetUpBody, JoinBody,
       OutputBody, EnsureUp, EnsureUpSpi, EnsureUpConfig, EnsureUpKick,
       SetUpNetif, SetUpUp, SetUpItf, JoinLink, JoinState, SendFrame,
       StopTransmit, StopSend, NetifRemove, DisableCheck, DisableItf,
       DisableReturn, Return, Goto
  <2>4. \A u \in Threads \ {t} : pc'[u] = pc[u]
    BY <1>6, ExitPath DEF ThreadStep, ThreadEnter, SetUpBody, JoinBody,
       OutputBody, EnsureUp, EnsureUpSpi, EnsureUpConfig, EnsureUpKick,
       SetUpNetif, SetUpUp, SetUpItf, JoinLink, JoinState, SendFrame,
       StopTransmit, StopSend, NetifRemove, DisableCheck, DisableItf,
       DisableReturn, Return, Goto
  <2> QED
    BY <2>1, <2>2, <2>3, <2>4
<1> QED
  BY <1>1, <1>2, <1>3, <1>4, <1>5, <1>6 DEF Next, LifecycleStep

\* In every state, what a call found in itf_state still holds, what set-up did
\* to the flags too, and deinit runs on an initialised driver.
LEMMA ItfInvariant ==
  ASSUME DisableLocked PROVE Spec => [](ItfInv /\ RaisedInv /\ DeinitInv)
<1>1. Init => ItfInv /\ RaisedInv /\ DeinitInv
  BY DEF Init, ItfInv, RaisedInv, DeinitInv
<1>2. Inductive /\ ItfInv /\ RaisedInv /\ DeinitInv /\ [Next]_vars
        => ItfInv' /\ RaisedInv' /\ DeinitInv'
  BY ItfStep, RaisedStep, DeinitInvStep DEF Inductive, TypeOK
<1> QED
  BY <1>1, <1>2, InductiveInvariant, PTL DEF Spec

\* With lwIP's threads out of deinit and disable bracketed, the whole
\* strengthened invariant holds: lock, calls, interrupt, netif list, itf_state
\* and the frame buffer together.
THEOREM AppInvariant ==
  ASSUME DisableLocked PROVE StackOutSpec => []AppInductive
<1>1. Inductive /\ PollInv /\ NetifInv /\ (ItfInv /\ RaisedInv /\ DeinitInv)
        /\ TxFrameIntact => AppInductive
  BY DEF AppInductive
<1> QED
  BY <1>1, InductiveInvariant, PollInvariant, NetifInvariant, ItfInvariant,
     TxFrameKept, StackOutBehaviours, PTL

\* Every step of the driver is a step of its interface or leaves it alone.
LEMMA InterfaceStep ==
  ASSUME Inductive, ItfInv, RaisedInv, DeinitInv, [Next]_vars
  PROVE  [Interface!Next]_(Interface!netIfVars)
<1>0. /\ CallTypeOK /\ DriverTypeOK /\ CallInv /\ QuietInv
      /\ ItfPolled
  BY DEF Inductive, TypeOK
<1> USE DEF Interface!Next, Interface!netIfVars
<1>1. CASE \/ UNCHANGED vars \/ Network \/ GpioIrq \/ SleepTimeoutReached
          \/ DoPoll \/ PollPin \/ RecvEnter \/ RecvEmpty \/ RecvFrame
          \/ DropFrame \/ ClearInterrupt \/ PostPollHook \/ Reschedule
  BY <1>1 DEF Network, GpioIrq, SleepTimeoutReached, DoPoll, PollPin,
     RecvEnter, RecvEmpty, RecvFrame, DropFrame, ClearInterrupt, PostPollHook,
     Reschedule
<1>2. CASE RecvError \/ ProcessFrame
  BY <1>2 DEF RecvError, ProcessFrame, AfterSend, Interface!LinkDown
<1>3. CASE DriverInit
  BY <1>3 DEF DriverInit, Interface!SwitchOn
<1>4. CASE DeinitState
  <2>1. initted
    BY <1>0, <1>4 DEF DeinitState, Goto, CallInv, DeinitInv, DeinitLabels,
       CallTypeOK, DriverAssumption
  <2> QED
    BY <1>4, <2>1 DEF DeinitState, Interface!SwitchOff
<1>5. CASE InitWorker \/ Deinit \/ DeinitTimer \/ DeinitWorker \/ DeinitHandler
          \/ DeinitIrq \/ DeinitSpi \/ DeinitArch
  BY <1>5 DEF InitWorker, Deinit, DeinitTimer, DeinitWorker, DeinitHandler,
     DeinitIrq, DeinitSpi, DeinitArch
<1>6. ASSUME NEW t \in Threads,
             \/ Disable(t) \/ DisableCheck(t) \/ ThreadEnter(t) \/ ThreadExit(t)
             \/ SetUpBody(t) \/ JoinBody(t) \/ OutputBody(t) \/ EnsureUpSpi(t)
             \/ EnsureUpConfig(t) \/ EnsureUpKick(t) \/ StopTransmit(t)
             \/ (\E o \in Ops : Call(t, o))
      PROVE  UNCHANGED Interface!netIfVars
  BY <1>6, ExitFrame DEF Disable, DisableCheck, ThreadEnter, SetUpBody,
     JoinBody, OutputBody, EnsureUpSpi, EnsureUpConfig, EnsureUpKick,
     StopTransmit, Call
<1>7. ASSUME NEW t \in Threads, EnsureUp(t)
      PROVE  Interface!Remove \/ UNCHANGED Interface!netIfVars
  <2>1. poll \/ itf = 0
    BY <1>0 DEF ItfPolled, DriverTypeOK
  <2> QED
    BY <1>7, <2>1 DEF EnsureUp, TcpipDeinit, Interface!Remove
<1>8. ASSUME NEW t \in Threads, SetUpNetif(t) PROVE Interface!Remove
  BY <1>8 DEF SetUpNetif, Interface!Remove
<1>9. ASSUME NEW t \in Threads, SetUpUp(t) \/ SetUpItf(t)
      PROVE  Interface!Raise \/ Interface!Enable
  <2>1. pc[t] \in SetUpLabels /\ op[t] = "set_up"
    BY <1>0, <1>9 DEF SetUpUp, SetUpItf, Goto, CallInv, SetUpLabels
  <2>2. initted /\ itf = 0
    BY <1>0, <2>1 DEF QuietInv, CallInv, ItfInv
  <2>3. CASE SetUpUp(t)
    BY <2>2, <2>3 DEF SetUpUp, Interface!Raise
  <2>4. CASE SetUpItf(t)
    BY <2>2, <2>4 DEF SetUpItf, Goto, RaisedInv, Interface!Enable
  <2> QED
    BY <1>9, <2>3, <2>4
<1>10. ASSUME NEW t \in Threads, JoinLink(t) \/ JoinState(t)
       PROVE  Interface!LinkUp \/ Interface!Join
  <2>1. pc[t] \in {"ensured", "linked"} /\ op[t] = "join"
    BY <1>0, <1>10 DEF JoinLink, JoinState, Goto, CallInv
  <2>2. initted /\ itf = 1
    BY <1>0, <2>1 DEF QuietInv, CallInv, ItfInv, NestedLabels
  <2>3. CASE JoinLink(t)
    BY <2>2, <2>3 DEF JoinLink, AfterSend, Interface!LinkUp, Interface!Linked
  <2>4. CASE JoinState(t)
    BY <2>2, <2>4 DEF JoinState, Interface!Join
  <2> QED
    BY <1>10, <2>3, <2>4
<1>11. ASSUME NEW t \in Threads, SendFrame(t) \/ StopSend(t)
       PROVE  Interface!LinkDown \/ UNCHANGED Interface!netIfVars
  BY <1>11 DEF SendFrame, StopSend, AfterSend, Interface!LinkDown
<1>12. ASSUME NEW t \in Threads, NetifRemove(t)
       PROVE  Interface!Remove \/ UNCHANGED Interface!netIfVars
  BY <1>12 DEF NetifRemove, TcpipDeinit, Interface!Remove
<1>13. ASSUME NEW t \in Threads, DisableItf(t) PROVE Interface!Disable
  BY <1>13 DEF DisableItf, DisableReturn, Interface!Disable, Return
<1> QED
  BY <1>1, <1>2, <1>3, <1>4, <1>5, <1>6, <1>7, <1>8, <1>9, <1>10, <1>11, <1>12,
     <1>13 DEF Next, BgStep, ThreadStep, LifecycleStep, DeinitStep

\* The driver implements its interface: enabled once, joined only while
\* enabled, with losses of link, netif and interface at any time.
THEOREM InterfaceImplemented ==
  ASSUME DisableLocked PROVE Spec => InterfaceKept
<1>1. Init => Interface!Init
  BY DEF Init, Interface!Init
<1>2. Inductive /\ ItfInv /\ RaisedInv /\ DeinitInv /\ [Next]_vars
        => [Interface!Next]_(Interface!netIfVars)
  BY InterfaceStep
<1> QED
  BY <1>1, <1>2, InductiveInvariant, ItfInvariant, PTL
     DEF Spec, InterfaceKept, Interface!Spec
=============================================================================
