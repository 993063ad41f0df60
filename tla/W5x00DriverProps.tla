-------------------------- MODULE W5x00DriverProps --------------------------
(***************************************************************************)
(* What the driver core must guarantee, and under which fairness.          *)
(***************************************************************************)
EXTENDS W5x00Driver

Frames == ({"rx"} \X Nat) \cup ({"tx"} \X (Threads \cup {Bg}))

DriverTypeOK ==
  /\ handler \in BOOLEAN /\ irqEnabled \in BOOLEAN
  /\ context \in BOOLEAN /\ initted \in BOOLEAN /\ poll \in BOOLEAN
  /\ sleep \in 0..SleepMax /\ dma \in BOOLEAN
  /\ itf \in {0, 1} /\ link \in LinkStates
  /\ listed \in BOOLEAN /\ flags \in SUBSET LinkFlags

BufferTypeOK == ethFrame \in Frames /\ delivered \in Seq(Frames)

CallTypeOK ==
  /\ bg \in BgLabels
  /\ pc \in [Threads -> Labels]
  /\ op \in [Threads -> Ops]

\* Every variable has its type.
TypeOK ==
  ChipTypeOK /\ ContextTypeOK /\ DriverTypeOK /\ BufferTypeOK /\ CallTypeOK

----------------------------------------------------------------------------
(* Interrupt and background processing.                                    *)

\* w5x00_gpio_irq_handler masks the level interrupt and only the post-poll
\* hook unmasks it.  While it is masked a poll that will reach the hook is
\* therefore always under way or pending - a pending poll with w5x00_poll
\* NULL would be swallowed and leave the chip deaf for good.
MaskedIrqIsServiced ==
  handler /\ registered /\ ~irqEnabled =>
    \/ bg \in BgLabels \ {"idle", "resched"}
    \/ pending /\ poll

\* An enabled level interrupt has a handler to mask it, but for the one step
\* between the two halves of w5x00_irq_deinit: no poll still under way unmasks
\* it behind deinit's back, where it would "go off forever".
IrqHasHandler == irqEnabled /\ ~handler => pc[Main] = "dei_irq"

\* The periodic poll (w5x00_sleep) is a chain: worker, timer, worker.  Until
\* w5x00_sleep has run down, one link of it is always there.
SleepChainUnbroken ==
  poll /\ registered /\ sleep > 0 /\ op[Main] # "deinit" =>
    armed \/ pending \/ bg # "idle"

\* A poll in progress never overlaps deinit or a chip reset: what it uses -
\* w5x00_poll, the context, the DMA channels, a configured chip - is there.
PollHasDriver ==
  bg # "idle" =>
    /\ poll /\ initted /\ context /\ dma
    /\ ~held /\ unmasked

----------------------------------------------------------------------------
(* The lock and lwIP.                                                      *)

\* The parts of a call during which thread t executes lwIP code.
InLwip(t) ==
  \/ pc[t] \in StopLabels
  \/ op[t] = "output" /\ pc[t] \in LockedLabels
  \/ pc[t] = "ensure" /\ ~poll
  \/ pc[t] \in {"on", "added"}
  \/ pc[t] = "ensured" /\ op[t] = "join"
LwipUsers ==
  {t \in Threads : InLwip(t)} \cup (IF bg = "process" THEN {Bg} ELSE {})

\* lwIP "is not thread-safe": two actors are never inside it at once.  It
\* rests on the lock for the API and the poll, on DisableLocked for disable,
\* and on the order of deinit's steps, as deinit takes no lock.
LwipExclusive == \A a, b \in LwipUsers : a = b

\* Every path of every call and of the receive loop has as many
\* W5X00_THREAD_EXITs as it had ENTERs: with one too few a call would return
\* with the lock held, with one too many, in a nested call, its caller would
\* run on without it.
LockGivenBack ==
  /\ \A t \in Threads :
       /\ pc[t] \in {"idle", "lock"} => owner # t
       /\ pc[t] \in LockedLabels => owner = t
  /\ bg = "idle" <=> owner # Bg
  /\ owner = NoOwner => depth = 0

\* W5X00_THREAD_EXIT gives the lock back through w5x00_async_context: deinit
\* never clears it under whoever holds the lock, who could not return it then.
LockHasContext == owner # NoOwner => context

\* How many steps the holder of the lock is from giving it back: a call by its
\* label, a poll by its label and the frames it still has to take.
CallLeft(t) ==
  CASE pc[t] = "body" -> 10
    [] pc[t] \in {"ensure", "dis_check"} -> 9
    [] pc[t] \in {"reset", "stop"} -> 8
    [] pc[t] \in {"config", "stop_send"} -> 7
    [] pc[t] \in {"kick", "remove"} -> 6
    [] pc[t] \in {"ensured", "failed", "dis_itf"} -> 5
    [] pc[t] = "on" -> 4
    [] pc[t] = "added" -> 3
    [] pc[t] \in {"raised", "linked", "sent"} -> 2
    [] pc[t] \in {"on_failed", "set_up_end", "denied", "joined", "lwip_end"} -> 1
    [] OTHER -> 0
PollLeft ==
  3 * Len(rx) + CASE bg = "process" -> 7
                  [] bg = "poll" -> 7
                  [] bg = "recv" -> 6
                  [] bg = "take" -> 5
                  [] bg = "clear" -> 3
                  [] bg = "hook" -> 2
                  [] bg = "resched" -> 1
                  [] OTHER -> 0

\* Nobody keeps the lock: no call or poll, on any path, errors included, goes
\* round in circles with it.  A step of its holder gives it back or is one of
\* finitely many until then, and only the network adds to them.
LockRunsDown ==
  [][/\ \A t \in Threads :
          owner = t /\ owner' = t =>
            CallLeft(t)' < CallLeft(t) \/ UNCHANGED <<pc[t], depth>>
     /\ owner = Bg /\ owner' = Bg =>
          PollLeft' < PollLeft \/ UNCHANGED <<bg, rx>> \/ Network]_vars

\* eth_frame is one buffer for both directions and all senders.  From the
\* copy in w5x00_netif_output until the frame is on the wire, a chip bring-up
\* on the way included, nothing overwrites it.
TxFrameIntact ==
  \A t \in Threads :
    op[t] = "output" /\ pc[t] \in {"ensure", "reset", "config", "kick", "ensured"}
      => ethFrame = TxFrame(t)

\* itf_state is read without ensuring anything: whoever finds it 1 relies on
\* a driver whose chip is configured and whose poll function is set.
ItfMeansRunning == itf = 1 => poll /\ unmasked /\ ~held

\* itf_state tells whether lwIP holds the netif: a netif left in lwIP's list
\* with itf_state 0 could not be disabled any more.  Only the set-up under way
\* is ahead of itf_state.
ListedMeansItf ==
  listed => itf = 1 \/ \E t \in Threads : pc[t] \in {"added", "raised"}

\* The receive path is a lossy FIFO.  The frame being processed is in
\* eth_frame, ahead of those in the chip.
InFlight == IF bg = "process" THEN <<ethFrame>> \o rx ELSE rx
Fifo == INSTANCE FrameDelivery
          WITH Frame <- RxFrame, sent <- arrived, inFlight <- InFlight
LossyFifo == Fifo!Spec

\* What this means to lwIP: it is given frames of the network's only, each at
\* most once and none after a later one, over any number of resets of the chip.
Genuine(s) ==
  \A i \in 1..Len(s) : s[i][1] = "rx" /\ s[i][2] \in 1..arrived
Rising(s) == \A i, j \in 1..Len(s) : i < j => s[i][2] < s[j][2]
DeliveredInOrder == Genuine(delivered) /\ Rising(delivered)

\* Seen from outside, the driver keeps the rules of its interface: whatever
\* the nested calls, bring-ups and the lock do in between, the interface is
\* enabled once, and a join that takes effect finds it still enabled although
\* itf_state was tested steps earlier.
Interface == INSTANCE NetInterface WITH on <- initted
InterfaceKept == Interface!Spec

----------------------------------------------------------------------------
(* Deinit and lwIP's own threads.                                          *)

\* Deinit after the poll worker was removed.
Unhooked ==
  /\ op[Main] = "deinit"
  /\ pc[Main] \notin {"dei_timer", "dei_worker"}

\* w5x00_driver_deinit goes through chip, netif and channels without the lock.
\* What that takes to be safe: no thread of lwIP's is in the driver meanwhile.
\* It is so when lwIP runs in the main loop only, or when nothing of lwIP's
\* transmits by then; the code does not see to it.
StackOut == Unhooked => owner \notin StackThreads
StackOutSpec == Init /\ [][Next /\ StackOut']_vars

\* The rest of what it takes the code does see to: by then the poll is over,
\* which removing the worker waits for, and so are the application's calls.
DeinitAlone == Unhooked => owner = NoOwner

----------------------------------------------------------------------------
(* Fairness: an enabled level interrupt is taken; whoever waits for the    *)
(* context's lock gets it (the SDK re-raises a missed background request   *)
(* on the last release); a call that was started runs on.  Nothing makes   *)
(* the network deliver or an application call.                             *)

FairSpec ==
  /\ Spec
  /\ WF_vars(GpioIrq)
  /\ SF_vars(SleepTimeoutReached)
  /\ SF_vars(BgStep)
  /\ \A t \in Threads : SF_vars(ThreadStep(t))
  /\ SF_vars(LifecycleStep)

\* INTN does not stay asserted: the interrupt always leads to a poll that
\* acknowledges it, unless deinit takes the handler away.
InterruptAcknowledged == IntnLow ~> (~IntnLow \/ ~handler)

\* The periodic poll winds down.
SleepWindsDown == poll ~> (sleep = 0 \/ ~poll)

\* Every API call returns.
CallsReturn == \A t \in Threads : pc[t] # "idle" ~> pc[t] = "idle"

----------------------------------------------------------------------------
(* What a comment, an assertion or a document says and the code does not   *)
(* do.  Each is refuted by a run of its own.                               *)

\* "maintenance of the driver and TCP/IP stack is handled automatically in
\* the background": a frame that raised the interrupt while the netif is up
\* does not stay in the chip for ever.
FramesServiced ==
  rx # <<>> /\ recvIr /\ flags = LinkFlags ~> (rx = <<>> \/ flags # LinkFlags)

\* assert(context == w5x00_async_context) in w5x00_sleep_timeout_reached.
SleepTimeoutContext == [][SleepTimeoutReached => context]_vars

\* A socket error in w5x00_netif_init is a "fatal error in netifinit": lwIP
\* does not list the netif, so it must not come to look up and linked, which
\* w5x00_tcpip_link_status reports as connected.
LinkUpIsListed == flags = LinkFlags => listed
=============================================================================
