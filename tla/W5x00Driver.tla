---------------------------- MODULE W5x00Driver ----------------------------
(***************************************************************************)
(* The driver core: w5x00_driver.c with the lwIP glue of w5x00_lwip.c and  *)
(* the init / deinit / enable / disable / connect entry points of          *)
(* w5x00_arch*.c.  Four kinds of actor interleave: the network (frames),   *)
(* the GPIO interrupt, the async_context's background processing (Bg), and *)
(* the Threads that call the API.                                          *)
(*                                                                         *)
(* A thread's call is a sequence of labelled steps.  A step ends where     *)
(* another actor could see the difference: around the lock, around each    *)
(* SPI exchange that matters, and around each unlocked section.            *)
(***************************************************************************)
EXTENDS WizChip, AsyncContext

CONSTANTS
  Main,           \* the thread that calls w5x00_arch_init and _deinit
  StackThreads,   \* lwIP's own activity: tcpip_thread, or with NO_SYS=1 its
                  \* timers in the context, as an actor of its own
  SleepMax,       \* W5X00_SLEEP_MAX
  OwnContext,     \* the async_context is the default one of w5x00_arch
  DisableLocked   \* applications bracket w5x00_arch_disable_ethernet with
                  \* w5x00_arch_lwip_begin and _end

ASSUME DriverAssumption ==
  /\ Main \in Threads
  /\ StackThreads \subseteq Threads \ {Main}
  /\ SleepMax \in Nat \ {0}
  /\ OwnContext \in BOOLEAN
  /\ DisableLocked \in BOOLEAN

VARIABLES
  handler,     \* the raw GPIO handler of INTN is installed
  irqEnabled,  \* GPIO_IRQ_LEVEL_LOW of INTN is enabled
  context,     \* w5x00_async_context # NULL
  initted,     \* w5x00_state.initted
  poll,        \* w5x00_poll # NULL
  sleep,       \* w5x00_sleep
  dma,         \* w5x00_state.dma_tx and dma_rx are claimed channels
  itf,         \* w5x00_state.itf_state
  link,        \* w5x00_state.ethernet_link_state
  ethFrame,    \* contents of w5x00_state.eth_frame
  listed,      \* w5x00_state.netif is in lwIP's netif_list
  flags,       \* the UP and LINK_UP bits of netif.flags
  delivered,   \* history: what netif->input was given, in order
  bg,          \* where the background processing is in w5x00_do_poll
  pc, op       \* where each thread is, and in which call

irqVars == <<handler, irqEnabled>>
drvVars == <<context, initted, poll, sleep, dma>>
netVars == <<itf, link, listed, flags>>
bufVars == <<ethFrame, delivered>>
callVars == <<pc, op>>
vars == <<chipVars, lockVars, workVars, irqVars, drvVars, netVars, bufVars,
          bg, callVars>>

LinkFlags == {"UP", "LINK_UP"}
LinkStates == {"DOWN", "JOIN"}      \* the only ones the code ever assigns
BgLabels == {"idle", "poll", "recv", "take", "process", "clear", "hook",
             "resched"}
LockedLabels == {"body", "ensure", "reset", "config", "kick", "ensured",
                 "failed", "on_failed", "on", "added", "raised", "set_up_end",
                 "denied", "linked", "joined", "sent", "lwip_end"}
StopLabels == {"stop", "stop_send", "remove"}
DisableLabels == {"dis_check", "dis_itf"}
DeinitLabels == {"dei_timer", "dei_worker", "dei_handler", "dei_irq",
                 "dei_spi", "dei_state", "dei_arch"}
Labels == {"idle", "lock", "init_worker"} \cup LockedLabels
            \cup StopLabels \cup DisableLabels \cup DeinitLabels
Ops == {"none", "init", "deinit", "set_up", "join", "output", "disable"}

Init ==
  /\ ChipInit /\ ContextInit
  /\ handler = FALSE /\ irqEnabled = FALSE
  /\ context = FALSE /\ initted = FALSE /\ poll = FALSE
  /\ sleep = 0 /\ dma = FALSE
  /\ itf = 0 /\ link = "DOWN" /\ listed = FALSE /\ flags = {}
  /\ ethFrame = RxFrame(0) /\ delivered = <<>>
  /\ bg = "idle"
  /\ pc = [t \in Threads |-> "idle"]
  /\ op = [t \in Threads |-> "none"]

Goto(t, from, to) == pc[t] = from /\ pc' = [pc EXCEPT ![t] = to]

\* lwIP routes a packet to the netif only while it is listed, up and linked.
Routable == listed /\ flags = LinkFlags

\* sendto() of w5x00_send_ethernet: a short count takes the link down.
AfterSend(f) == {f, f \ {"LINK_UP"}}

----------------------------------------------------------------------------
(* The interrupt and the background processing.                            *)

\* w5x00_gpio_irq_handler: a level interrupt, masked until the poll re-enables.
GpioIrq ==
  /\ handler /\ irqEnabled /\ IntnLow
  /\ irqEnabled' = FALSE
  /\ pending' = TRUE
  /\ UNCHANGED <<chipVars, lockVars, registered, armed, handler, drvVars,
                 netVars, bufVars, bg, callVars>>

\* w5x00_sleep_timeout_reached, run once by the context under its lock.
SleepTimeoutReached ==
  /\ armed /\ ListsFree
  /\ armed' = FALSE
  /\ pending' = TRUE
  /\ UNCHANGED <<chipVars, lockVars, registered, irqVars, drvVars, netVars,
                 bufVars, bg, callVars>>

\* Mutant: w5x00_do_poll without the context's lock.
DoPollUnlocked ==
  /\ bg = "idle" /\ registered /\ pending
  /\ pending' = FALSE
  /\ sleep' = IF poll /\ sleep > 0 THEN sleep - 1 ELSE sleep
  /\ bg' = IF poll THEN "poll" ELSE bg
  /\ UNCHANGED <<chipVars, lockVars, registered, armed, irqVars, context,
                 initted, poll, dma, netVars, bufVars, callVars>>

\* Mutant: the sleep counter is not tested before it is decremented.
DoPollUnderflow ==
  /\ bg = "idle" /\ registered /\ pending /\ ListsFree /\ poll
  /\ pending' = FALSE
  /\ Acquire(Bg)
  /\ sleep' = sleep - 1
  /\ bg' = "poll"
  /\ UNCHANGED <<chipVars, registered, armed, irqVars, context, initted, poll,
                 dma, netVars, bufVars, callVars>>

\* Mutant: the sleep counter is not decremented.
DoPollNoCount ==
  /\ bg = "idle" /\ registered /\ pending /\ ListsFree /\ poll
  /\ pending' = FALSE
  /\ Acquire(Bg)
  /\ bg' = "poll"
  /\ UNCHANGED <<chipVars, registered, armed, irqVars, drvVars, netVars,
                 bufVars, callVars>>

\* The context picks the poll worker up: w5x00_do_poll up to w5x00_poll().
DoPoll ==
  /\ bg = "idle" /\ registered /\ pending /\ ListsFree
  /\ pending' = FALSE
  /\ IF poll
       THEN /\ Acquire(Bg)
            /\ sleep' = IF sleep > 0 THEN sleep - 1 ELSE 0
            /\ bg' = "poll"
       ELSE UNCHANGED <<lockVars, sleep, bg>>
  /\ UNCHANGED <<chipVars, registered, armed, irqVars, context, initted, poll,
                 dma, netVars, bufVars, callVars>>

\* w5x00_poll_func reads the INTN pin and the netif flags.
PollPin ==
  /\ bg = "poll"
  /\ bg' = IF IntnLow /\ flags = LinkFlags THEN "recv" ELSE "clear"
  /\ UNCHANGED <<chipVars, lockVars, workVars, irqVars, drvVars, netVars,
                 bufVars, callVars>>

\* wiznet5k_recv_ethernet enters the lock a second time ...
RecvEnter ==
  /\ bg = "recv"
  /\ bg' = "take"
  /\ Acquire(Bg)
  /\ UNCHANGED <<chipVars, workVars, irqVars, drvVars, netVars, bufVars,
                 callVars>>

\* ... and leaves it on each of its three returns: nothing received,
RecvEmpty ==
  /\ bg = "take" /\ rx = <<>>
  /\ bg' = "clear"
  /\ Release(Bg)
  /\ UNCHANGED <<chipVars, workVars, irqVars, drvVars, netVars, bufVars,
                 callVars>>

\* Mutant: the frame is read but not taken out of the chip's buffer.
RecvFrameKept ==
  /\ bg = "take" /\ rx # <<>>
  /\ ethFrame' = Head(rx)
  /\ bg' = "process"
  /\ Release(Bg)
  /\ UNCHANGED <<chipVars, workVars, irqVars, drvVars, netVars, delivered,
                 callVars>>

\* a frame,
RecvFrame ==
  /\ bg = "take" /\ rx # <<>>
  /\ ethFrame' = Head(rx)
  /\ TakeFrame
  /\ bg' = "process"
  /\ Release(Bg)
  /\ UNCHANGED <<workVars, irqVars, drvVars, netVars, delivered, callVars>>

\* Mutant: the error return forgets W5X00_THREAD_EXIT.
RecvErrorHeld ==
  /\ bg = "take" /\ rx # <<>>
  /\ FailFrame
  /\ flags' = flags \ {"LINK_UP"}
  /\ bg' = "clear"
  /\ UNCHANGED <<lockVars, workVars, irqVars, drvVars, itf, link, listed,
                 bufVars, callVars>>

\* or a receive error, on which the link is taken down.
RecvError ==
  /\ bg = "take" /\ rx # <<>>
  /\ FailFrame
  /\ flags' = flags \ {"LINK_UP"}
  /\ bg' = "clear"
  /\ Release(Bg)
  /\ UNCHANGED <<workVars, irqVars, drvVars, itf, link, listed, bufVars,
                 callVars>>

\* w5x00_cb_process_ethernet: the frame is copied to a pbuf and given to
\* lwIP, which may answer at once through w5x00_netif_output.
ProcessFrame ==
  /\ bg = "process" /\ "LINK_UP" \in flags
  /\ delivered' = Append(delivered, ethFrame)
  /\ \/ UNCHANGED <<ethFrame, flags>>
     \/ ethFrame' = TxFrame(Bg) /\ flags' \in AfterSend(flags)
  /\ bg' = "recv"
  /\ UNCHANGED <<chipVars, lockVars, workVars, irqVars, drvVars, itf, link,
                 listed, callVars>>

\* ... or dropped: link down, no pbuf, or refused by lwIP.
DropFrame ==
  /\ bg = "process"
  /\ bg' = "recv"
  /\ UNCHANGED <<chipVars, lockVars, workVars, irqVars, drvVars, netVars,
                 bufVars, callVars>>

\* Mutant: the interrupt is not cleared in the chip.
ClearInterruptNot ==
  /\ bg = "clear"
  /\ bg' = "hook"
  /\ UNCHANGED <<chipVars, lockVars, workVars, irqVars, drvVars, netVars,
                 bufVars, callVars>>

\* wizchip_clrinterrupt(IK_SOCK_0) and setSn_IR(0, Sn_IR_RECV).
ClearInterrupt ==
  /\ bg = "clear"
  /\ ClearRecv
  /\ bg' = "hook"
  /\ UNCHANGED <<lockVars, workVars, irqVars, drvVars, netVars, bufVars,
                 callVars>>

\* Mutant: the interrupt stays masked.
PostPollHookMasked ==
  /\ bg = "hook"
  /\ bg' = "resched"
  /\ UNCHANGED <<chipVars, lockVars, workVars, irqVars, drvVars, netVars,
                 bufVars, callVars>>

\* w5x00_post_poll_hook.
PostPollHook ==
  /\ bg = "hook"
  /\ irqEnabled' = TRUE
  /\ bg' = "resched"
  /\ UNCHANGED <<chipVars, lockVars, workVars, handler, drvVars, netVars,
                 bufVars, callVars>>

\* Mutant: off by one, the last sleep period is not waited for.
RescheduleEarly ==
  /\ bg = "resched"
  /\ armed' = (sleep > 1)
  /\ Release(Bg)
  /\ bg' = "idle"
  /\ UNCHANGED <<chipVars, registered, pending, irqVars, drvVars, netVars,
                 bufVars, callVars>>

\* The rest of w5x00_do_poll: the sleep timer is re-armed or removed.
Reschedule ==
  /\ bg = "resched"
  /\ armed' = (sleep # 0)
  /\ Release(Bg)
  /\ bg' = "idle"
  /\ UNCHANGED <<chipVars, registered, pending, irqVars, drvVars, netVars,
                 bufVars, callVars>>

BgStep ==
  \/ DoPoll \/ PollPin \/ RecvEnter \/ RecvEmpty \/ RecvFrame \/ RecvError
  \/ ProcessFrame \/ DropFrame \/ ClearInterrupt \/ PostPollHook \/ Reschedule

Network ==
  /\ FrameArrives
  /\ UNCHANGED <<lockVars, workVars, irqVars, drvVars, netVars, bufVars, bg,
                 callVars>>

----------------------------------------------------------------------------
(* Locked API calls: w5x00_ethernet_set_up, w5x00_ethernet_join, and a     *)
(* transmission by lwIP (w5x00_netif_output and w5x00_send_ethernet).      *)

AppThreads == Threads \ StackThreads

\* Applications use the driver only between init and deinit, and main calls
\* those only when no application call is in progress.  lwIP's own threads
\* know nothing of this.
MayCall == initted /\ op[Main] \notin {"init", "deinit"}
Quiet == \A t \in AppThreads : pc[t] = "idle"

Call(t, o) ==
  /\ \/ t \in AppThreads /\ MayCall /\ o \in {"set_up", "join", "output"}
     \/ t \in StackThreads /\ listed /\ o = "output"
  /\ Goto(t, "idle", "lock")
  /\ op' = [op EXCEPT ![t] = o]
  /\ UNCHANGED <<chipVars, lockVars, workVars, irqVars, drvVars, netVars,
                 bufVars, bg>>

\* W5X00_THREAD_ENTER, or w5x00_arch_lwip_begin around a call into lwIP.  A
\* thread that finds no context - only lwIP's own can, after deinit - would
\* follow a NULL pointer: the model lets it go no further.
ThreadEnter(t) ==
  /\ context
  /\ Goto(t, "lock", IF op[t] = "disable" THEN "dis_check" ELSE "body")
  /\ Acquire(t)
  /\ UNCHANGED <<chipVars, workVars, irqVars, drvVars, netVars, bufVars, bg,
                 op>>

\* One W5X00_THREAD_EXIT, on the way from one label to another; at "idle" the
\* call has returned.
Exit(t, from, to) ==
  /\ context
  /\ Goto(t, from, to)
  /\ Release(t)
  /\ op' = IF to = "idle" THEN [op EXCEPT ![t] = "none"] ELSE op
  /\ UNCHANGED <<chipVars, workVars, irqVars, drvVars, netVars, bufVars, bg>>

\* w5x00_send_ethernet: w5x00_ensure_up failed, or the frame was sent.
SendFailed(t) == op[t] = "output" /\ Exit(t, "failed", "lwip_end")
SendReturn(t) == Exit(t, "sent", "lwip_end")

\* Mutant: w5x00_ethernet_on forgets W5X00_THREAD_EXIT on its error return.
OnFailedHeld(t) ==
  /\ op[t] = "set_up"
  /\ Goto(t, "failed", "on_failed")
  /\ UNCHANGED <<chipVars, lockVars, workVars, irqVars, drvVars, netVars,
                 bufVars, bg, op>>

\* Mutant: w5x00_ethernet_on tries again at once, with the lock held.
OnFailedRetry(t) ==
  /\ op[t] = "set_up"
  /\ Goto(t, "failed", "ensure")
  /\ UNCHANGED <<chipVars, lockVars, workVars, irqVars, drvVars, netVars,
                 bufVars, bg, op>>

\* w5x00_ethernet_on, called by w5x00_ethernet_set_up.
OnFailed(t) == op[t] = "set_up" /\ Exit(t, "failed", "on_failed")

\* Mutant: w5x00_ethernet_on exits for its caller as well.
OnReturnTwice(t) ==
  /\ op[t] = "set_up" /\ owner = t
  /\ Goto(t, "ensured", "on")
  /\ owner' = NoOwner /\ depth' = 0
  /\ UNCHANGED <<chipVars, workVars, irqVars, drvVars, netVars, bufVars, bg,
                 op>>

OnReturn(t) == op[t] = "set_up" /\ Exit(t, "ensured", "on")

\* w5x00_ethernet_set_up: w5x00_ethernet_on failed, or it has run to its end.
SetUpFailed(t) == Exit(t, "on_failed", "idle")
SetUpReturn(t) == Exit(t, "set_up_end", "idle")

\* w5x00_ethernet_join: not permitted or w5x00_ensure_up failed (which it
\* cannot with itf_state 1, see ItfMeansRunning), or joined.
JoinFailed(t) ==
  op[t] = "join" /\ \E from \in {"denied", "failed"} : Exit(t, from, "idle")
JoinReturn(t) == Exit(t, "joined", "idle")

\* w5x00_arch_lwip_end, after a transmission or a bracketed disable.
LwipEnd(t) == Exit(t, "lwip_end", "idle")

ThreadExit(t) ==
  \/ SendFailed(t) \/ SendReturn(t) \/ OnFailed(t) \/ OnReturn(t)
  \/ SetUpFailed(t) \/ SetUpReturn(t) \/ JoinFailed(t) \/ JoinReturn(t)
  \/ LwipEnd(t)

\* w5x00_ethernet_set_up(self, true) and, nested, w5x00_ethernet_on.
SetUpBody(t) ==
  /\ op[t] = "set_up"
  /\ IF itf = 0
       THEN Goto(t, "body", "ensure") /\ Acquire(t)
       ELSE Goto(t, "body", "set_up_end") /\ UNCHANGED lockVars
  /\ UNCHANGED <<chipVars, workVars, irqVars, drvVars, netVars, bufVars, bg,
                 op>>

\* Mutant: w5x00_ethernet_join does not look at itf_state.
JoinBodyUnchecked(t) ==
  /\ op[t] = "join"
  /\ Goto(t, "body", "ensure")
  /\ UNCHANGED <<chipVars, lockVars, workVars, irqVars, drvVars, netVars,
                 bufVars, bg, op>>

\* w5x00_ethernet_join: not permitted while the interface is not set up.
JoinBody(t) ==
  /\ op[t] = "join"
  /\ Goto(t, "body", IF itf = 0 THEN "denied" ELSE "ensure")
  /\ UNCHANGED <<chipVars, lockVars, workVars, irqVars, drvVars, netVars,
                 bufVars, bg, op>>

\* w5x00_netif_output copies the pbuf to eth_frame, and w5x00_send_ethernet
\* enters the lock again.
OutputBody(t) ==
  /\ op[t] = "output"
  /\ IF Routable
       THEN /\ Goto(t, "body", "ensure")
            /\ ethFrame' = TxFrame(t)
            /\ Acquire(t)
       ELSE /\ Goto(t, "body", "lwip_end")
            /\ UNCHANGED <<ethFrame, lockVars>>
  /\ UNCHANGED <<chipVars, workVars, irqVars, drvVars, netVars, delivered, bg,
                 op>>

\* Mutant: the flags are cleared, but the netif is not removed.
TcpipDeinitKept == listed' = listed /\ flags' = {}

\* netif_remove and clearing the flags in w5x00_cb_tcpip_deinit, if listed.
TcpipDeinit ==
  /\ listed' = FALSE
  /\ flags' = IF listed THEN {} ELSE flags

\* w5x00_ensure_up: nothing to do once w5x00_poll is set; if not, the netif
\* goes and the chip is reset.
EnsureUp(t) ==
  /\ IF poll
       THEN Goto(t, "ensure", "ensured") /\ UNCHANGED <<chipVars, netVars>>
       ELSE /\ Goto(t, "ensure", "reset")
            /\ TcpipDeinit
            /\ itf' = 0
            /\ HoldReset
            /\ UNCHANGED link
  /\ UNCHANGED <<lockVars, workVars, irqVars, drvVars, bufVars, bg, op>>

\* ... RSTN high, then w5x00_spi_init, which may find no free DMA channels.
EnsureUpSpi(t) ==
  /\ ReleaseReset
  /\ \/ Goto(t, "reset", "config") /\ dma' = TRUE
     \/ Goto(t, "reset", "failed") /\ dma' = FALSE
  /\ UNCHANGED <<lockVars, workVars, irqVars, context, initted, poll, sleep,
                 netVars, bufVars, bg, op>>

\* ... the chip's interrupt masks and MAC address are set.
EnsureUpConfig(t) ==
  /\ Goto(t, "config", "kick")
  /\ EnableInterrupts
  /\ UNCHANGED <<lockVars, workVars, irqVars, drvVars, netVars, bufVars, bg,
                 op>>

\* ... async events start and a first poll is scheduled.
EnsureUpKick(t) ==
  /\ Goto(t, "kick", "ensured")
  /\ sleep' = SleepMax
  /\ poll' = TRUE
  /\ pending' = TRUE
  /\ UNCHANGED <<chipVars, lockVars, registered, armed, irqVars, context,
                 initted, dma, netVars, bufVars, bg, op>>

\* w5x00_ethernet_on has returned: w5x00_cb_tcpip_deinit, in which lwIP may
\* transmit, then _init.  What w5x00_netif_init returns for the socket decides
\* whether netif_add lists the netif, whose flags it clears ...
SetUpNetif(t) ==
  /\ Goto(t, "on", "added")
  /\ \E ok \in BOOLEAN : OpenSocket(ok) /\ listed' = ok
  /\ flags' = {}
  /\ ethFrame' \in {ethFrame} \cup {f \in {TxFrame(t)} : Routable}
  /\ UNCHANGED <<lockVars, workVars, irqVars, drvVars, itf, link, delivered,
                 bg, op>>

\* ... netif_set_up runs either way ...
SetUpUp(t) ==
  /\ Goto(t, "added", "raised")
  /\ flags' = {"UP"}
  /\ UNCHANGED <<chipVars, lockVars, workVars, irqVars, drvVars, itf, link,
                 listed, bufVars, bg, op>>

\* ... and the interface counts as set up.
SetUpItf(t) ==
  /\ Goto(t, "raised", "set_up_end")
  /\ itf' = 1
  /\ UNCHANGED <<chipVars, lockVars, workVars, irqVars, drvVars, link, listed,
                 flags, bufVars, bg, op>>

\* w5x00_cb_tcpip_set_link_up, on which lwIP may announce itself at once if
\* the netif is up ...
JoinLink(t) ==
  /\ op[t] = "join"
  /\ Goto(t, "ensured", "linked")
  /\ LET up == flags \cup {"LINK_UP"}
     IN \/ flags' = up /\ UNCHANGED ethFrame
        \/ /\ up = LinkFlags
           /\ ethFrame' = TxFrame(t)
           /\ flags' \in AfterSend(up)
  /\ UNCHANGED <<chipVars, lockVars, workVars, irqVars, drvVars, itf, link,
                 listed, delivered, bg, op>>

\* ... and the link state of w5x00_ethernet_join.
JoinState(t) ==
  /\ Goto(t, "linked", "joined")
  /\ link' = "JOIN"
  /\ UNCHANGED <<chipVars, lockVars, workVars, irqVars, drvVars, itf, listed,
                 flags, bufVars, bg, op>>

\* sendto() in w5x00_send_ethernet.
SendFrame(t) ==
  /\ op[t] = "output"
  /\ Goto(t, "ensured", "sent")
  /\ flags' \in AfterSend(flags)
  /\ UNCHANGED <<chipVars, lockVars, workVars, irqVars, drvVars, itf, link,
                 listed, bufVars, bg, op>>

----------------------------------------------------------------------------
(* w5x00_arch_disable_ethernet takes no lock of its own.                   *)

Disable(t) ==
  /\ t \in AppThreads /\ MayCall
  /\ Goto(t, "idle", IF DisableLocked THEN "lock" ELSE "dis_check")
  /\ op' = [op EXCEPT ![t] = "disable"]
  /\ UNCHANGED <<chipVars, lockVars, workVars, irqVars, drvVars, netVars,
                 bufVars, bg>>

Return(t, from) ==
  /\ Goto(t, from, "idle")
  /\ op' = [op EXCEPT ![t] = "none"]

DisableReturn(t, from) ==
  IF DisableLocked
    THEN Goto(t, from, "lwip_end") /\ UNCHANGED op
    ELSE Return(t, from)

\* w5x00_ethernet_leave changes nothing, so neither does its test of the link.
DisableCheck(t) ==
  /\ IF itf = 1
       THEN Goto(t, "dis_check", "stop") /\ UNCHANGED op
       ELSE DisableReturn(t, "dis_check")
  /\ UNCHANGED <<chipVars, lockVars, workVars, irqVars, drvVars, netVars,
                 bufVars, bg>>

\* w5x00_cb_tcpip_deinit, called by disable and by deinit.  Stopping DHCP and
\* closing connections lwIP may transmit, and w5x00_netif_output copies to
\* eth_frame before w5x00_send_ethernet takes the lock ...
StopTransmit(t) ==
  /\ Goto(t, "stop", "stop_send")
  /\ Routable
  /\ ethFrame' = TxFrame(t)
  /\ UNCHANGED <<chipVars, lockVars, workVars, irqVars, drvVars, netVars,
                 delivered, bg, op>>

\* ... and leaves it again (w5x00_poll is set: nothing to ensure);
StopSend(t) ==
  /\ Goto(t, "stop_send", "remove")
  /\ owner \in {NoOwner, t}
  /\ flags' \in AfterSend(flags)
  /\ UNCHANGED <<chipVars, lockVars, workVars, irqVars, drvVars, itf, link,
                 listed, bufVars, bg, op>>

\* then the netif goes.
NetifRemove(t) ==
  /\ \E from \in {"stop", "remove"} :
       Goto(t, from, IF op[t] = "disable" THEN "dis_itf" ELSE "dei_spi")
  /\ TcpipDeinit
  /\ UNCHANGED <<chipVars, lockVars, workVars, irqVars, drvVars, itf, link,
                 bufVars, bg, op>>

DisableItf(t) ==
  /\ DisableReturn(t, "dis_itf")
  /\ itf' = 0
  /\ UNCHANGED <<chipVars, lockVars, workVars, irqVars, drvVars, link, listed,
                 flags, bufVars, bg>>

----------------------------------------------------------------------------
(* w5x00_arch_init and w5x00_arch_deinit, called by Main.                  *)

\* w5x00_driver_init up to w5x00_irq_init: the chip is held in reset first.
DriverInit ==
  /\ ~initted /\ Quiet
  /\ Goto(Main, "idle", "init_worker")
  /\ op' = [op EXCEPT ![Main] = "init"]
  /\ HoldReset
  /\ itf' = 0 /\ link' = "DOWN" /\ dma' = FALSE
  /\ poll' = FALSE /\ initted' = TRUE /\ context' = TRUE
  /\ handler' = TRUE /\ irqEnabled' = TRUE
  /\ UNCHANGED <<lockVars, workVars, sleep, listed, flags, bufVars, bg>>

\* The poll worker is added; if lwIP's own init fails, all is undone again.
InitWorker ==
  /\ ListsFree
  /\ registered' = TRUE
  /\ \/ Return(Main, "init_worker")
     \/ /\ Goto(Main, "init_worker", "dei_timer")
        /\ op' = [op EXCEPT ![Main] = "deinit"]
  /\ UNCHANGED <<chipVars, lockVars, pending, armed, irqVars, drvVars, netVars,
                 bufVars, bg>>

Deinit ==
  /\ initted /\ Quiet
  /\ Goto(Main, "idle", "dei_timer")
  /\ op' = [op EXCEPT ![Main] = "deinit"]
  /\ UNCHANGED <<chipVars, lockVars, workVars, irqVars, drvVars, netVars,
                 bufVars, bg>>

DeinitTimer ==
  /\ Goto(Main, "dei_timer", "dei_worker")
  /\ ListsFree
  /\ armed' = FALSE
  /\ UNCHANGED <<chipVars, lockVars, registered, pending, irqVars, drvVars,
                 netVars, bufVars, bg, op>>

\* Mutant: the poll worker is not removed.
DeinitWorkerKept ==
  /\ Goto(Main, "dei_worker", "dei_handler")
  /\ UNCHANGED <<chipVars, lockVars, workVars, irqVars, drvVars, netVars,
                 bufVars, bg, op>>

\* Mutant: it is removed without waiting for a poll in progress.
DeinitWorkerNoWait ==
  /\ Goto(Main, "dei_worker", "dei_handler")
  /\ registered' = FALSE
  /\ UNCHANGED <<chipVars, lockVars, pending, armed, irqVars, drvVars, netVars,
                 bufVars, bg, op>>

DeinitWorker ==
  /\ Goto(Main, "dei_worker", "dei_handler")
  /\ ListsFree
  /\ registered' = FALSE
  /\ UNCHANGED <<chipVars, lockVars, pending, armed, irqVars, drvVars, netVars,
                 bufVars, bg, op>>

\* w5x00_irq_deinit, first half: the handler goes ...
DeinitHandler ==
  /\ Goto(Main, "dei_handler", "dei_irq")
  /\ handler' = FALSE
  /\ UNCHANGED <<chipVars, lockVars, workVars, irqEnabled, drvVars, netVars,
                 bufVars, bg, op>>

\* ... and second half: the level interrupt is masked.  What follows in
\* w5x00_driver_deinit, w5x00_cb_tcpip_deinit first, is done without the lock.
DeinitIrq ==
  /\ Goto(Main, "dei_irq", "stop")
  /\ irqEnabled' = FALSE
  /\ UNCHANGED <<chipVars, lockVars, workVars, handler, drvVars, netVars,
                 bufVars, bg, op>>

\* w5x00_spi_deinit.
DeinitSpi ==
  /\ Goto(Main, "dei_spi", "dei_state")
  /\ dma' = FALSE
  /\ UNCHANGED <<chipVars, lockVars, workVars, irqVars, context, initted, poll,
                 sleep, netVars, bufVars, bg, op>>

\* Mutant: itf_state survives deinit.
DeinitStateItfKept ==
  /\ Goto(Main, "dei_state", "dei_arch")
  /\ link' = "DOWN"
  /\ poll' = FALSE /\ initted' = FALSE /\ context' = FALSE
  /\ UNCHANGED <<chipVars, lockVars, workVars, irqVars, sleep, dma, itf,
                 listed, flags, bufVars, bg, op>>

DeinitState ==
  /\ Goto(Main, "dei_state", "dei_arch")
  /\ itf' = 0 /\ link' = "DOWN"
  /\ poll' = FALSE /\ initted' = FALSE /\ context' = FALSE
  /\ UNCHANGED <<chipVars, lockVars, workVars, irqVars, sleep, dma, listed,
                 flags, bufVars, bg, op>>

\* The default async_context is torn down with whatever it still holds; one
\* the application provided lives on.
DeinitArch ==
  /\ Return(Main, "dei_arch")
  /\ armed' = IF OwnContext THEN FALSE ELSE armed
  /\ UNCHANGED <<chipVars, lockVars, registered, pending, irqVars, drvVars,
                 netVars, bufVars, bg>>

DeinitStep ==
  \/ DeinitTimer \/ DeinitWorker \/ DeinitHandler \/ DeinitIrq
  \/ DeinitSpi \/ DeinitState \/ DeinitArch

----------------------------------------------------------------------------
ThreadStep(t) ==
  \/ ThreadEnter(t) \/ ThreadExit(t)
  \/ SetUpBody(t) \/ JoinBody(t) \/ OutputBody(t)
  \/ EnsureUp(t) \/ EnsureUpSpi(t) \/ EnsureUpConfig(t) \/ EnsureUpKick(t)
  \/ SetUpNetif(t) \/ SetUpUp(t) \/ SetUpItf(t)
  \/ JoinLink(t) \/ JoinState(t) \/ SendFrame(t)
  \/ StopTransmit(t) \/ StopSend(t) \/ NetifRemove(t)
  \/ DisableCheck(t) \/ DisableItf(t)

LifecycleStep == InitWorker \/ DeinitStep

Next ==
  \/ Network \/ GpioIrq \/ SleepTimeoutReached \/ BgStep
  \/ \E t \in Threads :
       \/ \E o \in Ops : Call(t, o)
       \/ Disable(t)
       \/ ThreadStep(t)
  \/ DriverInit \/ Deinit \/ LifecycleStep

Spec == Init /\ [][Next]_vars
=============================================================================
