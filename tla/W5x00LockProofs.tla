-------------------------- MODULE W5x00LockProofs --------------------------
(***************************************************************************)
(* The lock is given back: a call or a poll that holds it is finitely many *)
(* steps of its own from its last release, whatever the others do between  *)
(* those steps.  This is the safety half of CallsReturn.                   *)
(***************************************************************************)
EXTENDS W5x00DriverTheorems

USE ChipAssumption, ContextAssumption, DriverAssumption
USE DEF vars, chipVars, lockVars, workVars, irqVars, drvVars, netVars, bufVars,
        callVars

----------------------------------------------------------------------------
(* A call.                                                                 *)

\* Where the holder of the lock may be.
LEMMA HolderInCall ==
  ASSUME LockInv, CallInv, NEW t \in Threads, owner = t
  PROVE  /\ pc[t] \in LockedLabels \cup StopLabels \cup DisableLabels
         /\ op[t] \notin {"init", "deinit"}
         /\ bg = "idle"
<1>1. Holding(t) /\ owner # Bg
  BY DEF LockInv
<1>2. bg = "idle"
  BY <1>1 DEF LockInv
<1>3. op[t] = "deinit" => pc[t] \in DeinitLabels \cup StopLabels
  BY DEF CallInv
<1>4. op[t] = "init" => pc[t] = "init_worker"
  BY DEF CallInv
<1> QED
  BY <1>1, <1>2, <1>3, <1>4 DEF Holding, LockedLabels, StopLabels,
     DisableLabels, DeinitLabels

\* A step of another actor neither moves the holder nor takes its lock.
LEMMA HolderAlone ==
  ASSUME CallTypeOK, NEW t \in Threads, NEW u \in Threads \ {t}, owner = t,
         ThreadStep(u) \/ Disable(u) \/ (\E o \in Ops : Call(u, o))
  PROVE  UNCHANGED <<pc[t], depth>>
<1> USE DEF CallTypeOK, Goto, Return, DisableReturn
<1>1. CASE ThreadEnter(u) \/ ThreadExit(u)
  BY <1>1, ExitFrame DEF ThreadEnter, Acquire, Release
<1>2. CASE SetUpBody(u) \/ OutputBody(u)
  BY <1>2 DEF SetUpBody, OutputBody, Acquire
<1>3. CASE \/ JoinBody(u) \/ EnsureUp(u) \/ EnsureUpSpi(u) \/ EnsureUpConfig(u)
          \/ EnsureUpKick(u) \/ SetUpNetif(u) \/ SetUpUp(u) \/ SetUpItf(u)
          \/ JoinLink(u) \/ JoinState(u) \/ SendFrame(u) \/ StopTransmit(u)
          \/ StopSend(u) \/ NetifRemove(u)
  BY <1>3 DEF JoinBody, EnsureUp, EnsureUpSpi, EnsureUpConfig, EnsureUpKick,
     SetUpNetif, SetUpUp, SetUpItf, JoinLink, JoinState, SendFrame,
     StopTransmit, StopSend, NetifRemove
<1>4. CASE \/ DisableCheck(u) \/ DisableItf(u) \/ Disable(u)
          \/ (\E o \in Ops : Call(u, o))
  BY <1>4 DEF DisableCheck, DisableItf, Disable, Call
<1> QED
  BY <1>1, <1>2, <1>3, <1>4 DEF ThreadStep

\* A step of the holder brings it nearer to giving the lock back: there is no
\* way back from any label, not even from an error return of a nested call.
LEMMA CallStepsDown ==
  ASSUME CallTypeOK, LockInv, CallInv,
         NEW t \in Threads, owner = t, owner' = t, ThreadStep(t)
  PROVE  CallLeft(t)' < CallLeft(t)
<1> USE DEF CallTypeOK, Goto, CallLeft
<1>1. pc[t] # "lock"
  BY HolderInCall DEF LockedLabels, StopLabels, DisableLabels
<1>2. CASE ThreadEnter(t)
  BY <1>1, <1>2 DEF ThreadEnter
<1>3. CASE ThreadExit(t)
  BY <1>3, ExitPath
<1>4. CASE SetUpBody(t) \/ JoinBody(t) \/ OutputBody(t)
  BY <1>4 DEF SetUpBody, JoinBody, OutputBody
<1>5. CASE EnsureUp(t) \/ EnsureUpSpi(t)
  BY <1>5 DEF EnsureUp, EnsureUpSpi
<1>6. CASE EnsureUpConfig(t) \/ EnsureUpKick(t)
  BY <1>6 DEF EnsureUpConfig, EnsureUpKick
<1>7. CASE SetUpNetif(t) \/ SetUpUp(t) \/ SetUpItf(t)
  BY <1>7 DEF SetUpNetif, SetUpUp, SetUpItf
<1>8. CASE JoinLink(t) \/ JoinState(t) \/ SendFrame(t)
  BY <1>8 DEF JoinLink, JoinState, SendFrame
<1>9. CASE StopTransmit(t) \/ StopSend(t)
  BY <1>9 DEF StopTransmit, StopSend
<1>10. CASE NetifRemove(t)
  <2>1. op[t] # "deinit"
    BY HolderInCall
  <2>2. op[t] = "disable"
    BY <2>1, <1>10 DEF NetifRemove, CallInv, StopLabels
  <2> QED
    BY <2>2, <1>10 DEF NetifRemove
<1>11. CASE DisableCheck(t)
  <2>1. DisableLocked
    BY <1>11 DEF DisableCheck, DisableReturn, Return, LockInv, Holding,
       LockedLabels
  <2> QED
    BY <2>1, <1>11 DEF DisableCheck, DisableReturn
<1>12. CASE DisableItf(t)
  <2>1. DisableLocked
    BY <1>12 DEF DisableItf, DisableReturn, Return, LockInv, Holding,
       LockedLabels
  <2> QED
    BY <2>1, <1>12 DEF DisableItf, DisableReturn
<1> QED
  BY <1>2, <1>3, <1>4, <1>5, <1>6, <1>7, <1>8, <1>9, <1>10, <1>11, <1>12
     DEF ThreadStep

\* Any step that leaves a thread in possession of the lock.
LEMMA CallRunsDown ==
  ASSUME Inductive, [Next]_vars, NEW t \in Threads, owner = t, owner' = t
  PROVE  CallLeft(t)' < CallLeft(t) \/ UNCHANGED <<pc[t], depth>>
<1>0. CallTypeOK /\ LockInv /\ CallInv /\ Main \in Threads
  BY DEF Inductive, TypeOK
<1>1. /\ pc[t] \in LockedLabels \cup StopLabels \cup DisableLabels
      /\ op[t] \notin {"init", "deinit"}
      /\ bg = "idle"
  BY <1>0, HolderInCall
<1>2. CASE UNCHANGED vars \/ Network \/ GpioIrq \/ SleepTimeoutReached
  BY <1>2 DEF Network, GpioIrq, SleepTimeoutReached
<1>3. CASE BgStep
  <2>1. DoPoll
    BY <1>1, <1>3 DEF BgStep, PollPin, RecvEnter, RecvEmpty, RecvFrame,
       RecvError, ProcessFrame, DropFrame, ClearInterrupt, PostPollHook,
       Reschedule
  <2>2. owner # NoOwner
    OBVIOUS
  <2> QED
    BY <2>1, <2>2 DEF DoPoll, ListsFree
<1>4. CASE DriverInit \/ Deinit \/ LifecycleStep
  <2>1. UNCHANGED depth
    BY <1>4 DEF DriverInit, Deinit, LifecycleStep, InitWorker, DeinitStep,
       DeinitTimer, DeinitWorker, DeinitHandler, DeinitIrq, DeinitSpi,
       DeinitState, DeinitArch
  <2>2. /\ pc[Main] \in DeinitLabels \cup {"idle", "init_worker"}
        /\ \A u \in Threads \ {Main} : pc'[u] = pc[u]
    BY <1>0, <1>4 DEF DriverInit, Deinit, LifecycleStep, InitWorker,
       DeinitStep, DeinitTimer, DeinitWorker, DeinitHandler, DeinitIrq,
       DeinitSpi, DeinitState, DeinitArch, Goto, Return, DeinitLabels,
       CallTypeOK
  <2>3. t # Main
    BY <1>1, <2>2 DEF DeinitLabels, LockedLabels, StopLabels, DisableLabels
  <2> QED
    BY <2>1, <2>2, <2>3
<1>5. ASSUME NEW u \in Threads,
             ThreadStep(u) \/ Disable(u) \/ (\E o \in Ops : Call(u, o))
      PROVE  CallLeft(t)' < CallLeft(t) \/ UNCHANGED <<pc[t], depth>>
  <2>1. CASE u # t
    BY <1>0, <1>5, <2>1, HolderAlone
  <2>2. CASE u = t
    <3>1. ThreadStep(t)
      BY <1>1, <1>5, <2>2 DEF Disable, Call, Goto, LockedLabels, StopLabels,
         DisableLabels
    <3> QED
      BY <1>0, <3>1, CallStepsDown
  <2> QED
    BY <2>1, <2>2
<1> QED
  BY <1>2, <1>3, <1>4, <1>5 DEF Next

----------------------------------------------------------------------------
(* A poll.                                                                 *)

\* One frame taken out of the chip.
LEMMA TailShorter ==
  ASSUME NEW S, NEW s \in Seq(S), s # <<>>
  PROVE  Len(s) \in Nat /\ Len(Tail(s)) = Len(s) - 1
OBVIOUS

\* A step of the poll brings it nearer to its end: it goes back for another
\* frame only after one was taken out of the chip.
LEMMA PollStepsDown ==
  ASSUME ChipTypeOK, CallTypeOK, LockInv, owner = Bg, owner' = Bg, BgStep
  PROVE  PollLeft' < PollLeft
<1> USE DEF PollLeft
<1>0. rx \in Seq({"rx"} \X Nat) /\ Len(rx) \in Nat
  BY DEF ChipTypeOK
<1>1. bg # "idle" /\ depth = IF bg = "take" THEN 2 ELSE 1
  BY DEF LockInv
<1>2. CASE DoPoll
  BY <1>1, <1>2 DEF DoPoll
<1>3. CASE PollPin \/ RecvEnter
  BY <1>0, <1>3 DEF PollPin, RecvEnter
<1>4. CASE RecvEmpty
  BY <1>0, <1>4 DEF RecvEmpty
<1>5. CASE RecvFrame
  <2>1. rx # <<>> /\ rx' = Tail(rx) /\ bg = "take" /\ bg' = "process"
    BY <1>5 DEF RecvFrame, TakeFrame
  <2>2. Len(rx') = Len(rx) - 1
    BY <1>0, <2>1, TailShorter
  <2> QED
    BY <1>0, <2>1, <2>2
<1>6. CASE RecvError
  <2>1. bg = "take" /\ bg' = "clear" /\ (rx' = rx \/ rx' = <<>>)
    BY <1>6 DEF RecvError, FailFrame
  <2>2. Len(rx') \in Nat /\ Len(rx') <= Len(rx)
    BY <1>0, <2>1
  <2> QED
    BY <1>0, <2>1, <2>2
<1>7. CASE ProcessFrame \/ DropFrame
  BY <1>0, <1>7 DEF ProcessFrame, DropFrame
<1>8. CASE ClearInterrupt \/ PostPollHook
  BY <1>0, <1>8 DEF ClearInterrupt, ClearRecv, PostPollHook
<1>9. CASE Reschedule
  BY <1>1, <1>9 DEF Reschedule, Release
<1> QED
  BY <1>2, <1>3, <1>4, <1>5, <1>6, <1>7, <1>8, <1>9 DEF BgStep

\* Any step that leaves the background processing in possession of the lock.
LEMMA PollRunsDown ==
  ASSUME Inductive, [Next]_vars, owner = Bg, owner' = Bg
  PROVE  PollLeft' < PollLeft \/ UNCHANGED <<bg, rx>> \/ Network
<1>0. /\ ChipTypeOK /\ CallTypeOK /\ LockInv /\ WorkerInv
      /\ bg # "idle"
      /\ \A t \in Threads : ~Holding(t)
  BY DEF Inductive, TypeOK, LockInv
<1>1. CASE UNCHANGED vars \/ Network \/ GpioIrq \/ SleepTimeoutReached
  BY <1>1 DEF GpioIrq, SleepTimeoutReached
<1>2. CASE BgStep
  BY <1>0, <1>2, PollStepsDown
<1>3. CASE DriverInit
  BY <1>0, <1>3 DEF DriverInit, WorkerInv
<1>4. CASE Deinit \/ LifecycleStep
  BY <1>4 DEF Deinit, LifecycleStep, InitWorker, DeinitStep, DeinitTimer,
     DeinitWorker, DeinitHandler, DeinitIrq, DeinitSpi, DeinitState, DeinitArch
<1>5. ASSUME NEW t \in Threads,
             ThreadStep(t) \/ Disable(t) \/ (\E o \in Ops : Call(t, o))
      PROVE  UNCHANGED <<bg, rx>>
  <2>1. pc[t] \notin LockedLabels
    BY <1>0 DEF Holding
  <2> QED
    BY <1>5, <2>1, ExitFrame DEF ThreadStep, ThreadEnter, SetUpBody, JoinBody,
       OutputBody, EnsureUp, EnsureUpSpi, EnsureUpConfig, EnsureUpKick,
       SetUpNetif, SetUpUp, SetUpItf, JoinLink, JoinState, SendFrame,
       StopTransmit, StopSend, NetifRemove, DisableCheck, DisableItf, Disable,
       Call, Goto, LockedLabels
<1> QED
  BY <1>1, <1>2, <1>3, <1>4, <1>5 DEF Next

----------------------------------------------------------------------------
\* Nobody goes round in circles with the lock: between two releases a call
\* makes boundedly many steps, and a poll as many as the chip holds frames.
THEOREM LockIsGivenBack == Spec => LockRunsDown
<1> DEFINE Down ==
      /\ \A t \in Threads :
           owner = t /\ owner' = t =>
             CallLeft(t)' < CallLeft(t) \/ UNCHANGED <<pc[t], depth>>
      /\ owner = Bg /\ owner' = Bg =>
           PollLeft' < PollLeft \/ UNCHANGED <<bg, rx>> \/ Network
<1>1. Inductive /\ [Next]_vars => [Down]_vars
  <2> SUFFICES ASSUME Inductive, [Next]_vars PROVE Down
    OBVIOUS
  <2> QED
    BY CallRunsDown, PollRunsDown
<1> QED
  BY <1>1, InductiveInvariant, PTL DEF Spec, LockRunsDown
=============================================================================
