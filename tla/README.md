# Verification of the pico_w5x00 driver

TLA+ models, TLC runs and TLAPS proofs for the WIZnet W5100S / W5500 driver of the Raspberry Pi
Pico (`src/src/pico_w5x00_driver`) and its architecture layer (`src/src/pico_w5x00_arch`).
File names below are relative to those two directories.

## The system

The driver is a port of the Pico SDK's cyw43 driver. It binds an Ethernet chip on SPI, in MACRAW
mode, to lwIP, and hangs its work on an `async_context` of the SDK, which runs it in the background
(an IRQ, a FreeRTOS task) or when the main loop polls.

| component | state it keeps | operations | interacts through |
|---|---|---|---|
| interrupt and poll core (`w5x00_driver.c` 26-108, 310-343, 386-410) | GPIO interrupt enabled / handler, poll worker, sleep timer, `w5x00_sleep` | `w5x00_gpio_irq_handler`, `w5x00_do_poll`, `w5x00_poll_func`, `wiznet5k_recv_ethernet`, post-poll hook, `w5x00_sleep_timeout_reached` | the context's workers and lock; the chip; lwIP input |
| bring-up and API (`w5x00_driver.c` 110-151, 235-308, 360-384, 412-476) | `w5x00_poll`, `initted`, `itf_state`, `ethernet_link_state`, `eth_frame` | driver init / deinit, `w5x00_ensure_up`, `w5x00_ethernet_set_up`, `_join`, `_leave`, `w5x00_send_ethernet` | recursive lock (`W5X00_THREAD_ENTER/EXIT`), lwIP callbacks |
| lwIP glue (`w5x00_lwip.c`) | the `netif`: listed in lwIP or not, flags, address | `w5x00_netif_output`, `_netif_init`, `w5x00_cb_tcpip_init`, `_deinit`, `_process_ethernet`, `_set_link_up/down`, `w5x00_tcpip_link_status` | lwIP |
| SPI and DMA (`w5x00_spi.c`) | two DMA channels | claim / release, chip select, byte and burst transfers | DMA, SPI, callbacks of ioLibrary |
| architecture layer (`w5x00_arch*.c`) | which `async_context` is used | init, deinit, enable, disable, connect (async, blocking, timeout), poll, wait | all of the above |
| MAC address (`w5x00_driver.c` 153-169, 288-293) | `w5x00_state.mac`, the chip's register | read from the chip or generated at bring-up | chip, lwIP |
| configuration, debug output | - | macros | - |

What is hard about it: the network, the level interrupt, the background poll, one or more
application threads or cores and lwIP's own thread interleave; the lock is recursive and three
entry points do not take it (`w5x00_arch_disable_ethernet`, the second half of
`w5x00_driver_deinit`, `w5x00_tcpip_link_status`); one frame buffer serves both directions; bring-up
and `socket()` can fail half way; deinit and re-init run against a poll in progress.

What makes each component correct:

- interrupt and poll: a masked interrupt is always unmasked again; the periodic poll is not lost
  before its counter has run down; an asserted interrupt is acknowledged; a poll never meets a
  driver that is being taken down;
- bring-up and API: the lock is given back on every path and every call returns; `itf_state` never
  claims more than the chip and lwIP know;
- lwIP glue: lwIP is entered by one actor at a time; a frame being sent is not overwritten; what
  lwIP receives is what the network sent, in order, with losses only;
- architecture: success of connect is never reported for a network that was not up, and the call
  ends; after deinit nothing of the driver runs; contexts are made and torn down by
  their owner only;
- SPI, DMA and MAC: the two channels are the driver's from bring-up to deinit and none is lost;
  a transfer that returns is complete; chip, driver and netif have one address.

## Modules

| module | what it is |
|---|---|
| `WizChip` | external: reset line, socket 0 with its receive buffer, the RECV interrupt bit, INTN |
| `AsyncContext` | external: the recursive lock, the poll worker, the sleep timer |
| `W5x00Driver` | the driver core: `w5x00_driver.c`, `w5x00_lwip.c` and init, deinit, enable, disable of `w5x00_arch*.c` |
| `FrameDelivery` | abstract specification of the receive path: a lossy FIFO |
| `NetInterface` | abstract specification of what callers may see of the driver without its lock: `itf_state`, link state, netif flags |
| `W5x00DriverProps` | types, properties, fairness, and the refinement mappings to `FrameDelivery` and `NetInterface` |
| `W5x00DriverInv` | the inductive invariants |
| `W5x00DriverProofs` | one lemma per part of the inductive invariants |
| `W5x00DriverTheorems` | the theorems |
| `W5x00InterfaceProofs` | that the driver implements `NetInterface` |
| `W5x00LockProofs` | that whoever holds the lock runs down to giving it back |
| `W5x00DeliveryProofs` | what the lossy FIFO means to lwIP: each frame once at most, in order |
| `MCW5x00Driver` | the model values for TLC |
| `W5x00Connect` | the connect loop, with the driver abstracted to the fields the loop reads |
| `W5x00ConnectProofs` | its proofs |
| `DmaSpi` | external: the pool of DMA channels, the outbound and the inbound transfer, the SPI port's two FIFOs |
| `W5x00Spi` | `w5x00_spi.c`: claims, release, burst and byte transfers |
| `W5x00Lifecycle` | what the driver holds from `w5x00_arch_init` to `_deinit`: context, DMA channels, MAC address |
| `W5x00LifecycleProofs` | its theorems |

`W5x00Driver` EXTENDS `WizChip` and `AsyncContext`: their operators (`TakeFrame`, `Acquire`, ...)
are the calls the driver makes, their variables the state behind them. `W5x00Lifecycle` EXTENDS
`W5x00Spi`, which EXTENDS `DmaSpi`, in the same way.

The two state spaces are separate on purpose. `W5x00Driver` has every interleaving of calls,
interrupt and poll, with the channels as one flag and the context as a constant; `W5x00Lifecycle` has
calls that follow each other, as they do under the driver's lock, with channels, contexts and
transfers in full. What the first assumes of the second - channels that stay claimed from bring-up
to deinit, transfers that return - are `ChannelsHeld` and `TransferEnds`.

### How the driver model corresponds to the code

*Actors.* The network (`Network`), the interrupt (`GpioIrq`), the context's background processing
(`BgStep` and `SleepTimeoutReached`; in the poll variant this is the main loop inside
`w5x00_arch_poll`, a subset of the same interleavings) and the `Threads`. `Main` is the thread that
calls `w5x00_arch_init` and `_deinit`. `StackThreads` are lwIP's own activity: `tcpip_thread`
with FreeRTOS, or lwIP's timers with `NO_SYS=1`. They transmit whenever the netif is listed, also
during init and deinit, which `lwip_*_deinit` ends only after the driver is gone.

*Calls.* `pc[t]` says where a thread is and `op[t]` in which call. A step of a thread ends where
another actor can see the difference: at the lock, at a reset, at an exchange with the chip, and
between any two effects made without the lock. Under the lock only the network, the interrupt, and
the unlocked calls can interleave, and steps end where these could see a difference: a bring-up adds
the netif, raises it and sets `itf_state` in three (`SetUpNetif`, `SetUpUp`, `SetUpItf`), a join raises
the link and sets the link state in two (`JoinLink`, `JoinState`). One deinit step per assignment group follows `w5x00_driver_deinit` and `w5x00_irq_deinit` line by line, because it
takes no lock. A change to the context's worker lists waits for the lock (`ListsFree`), as in the SDK.

*Nested locks.* `depth` counts: `w5x00_ethernet_set_up` and `w5x00_ethernet_on` nest, as do
`w5x00_arch_lwip_begin` (held by whoever calls into lwIP) and `w5x00_send_ethernet`, as do the poll
and `wiznet5k_recv_ethernet` (`RecvEnter`). Each `W5X00_THREAD_EXIT` of the code is an action of its
own, `Exit` from one label to the next: `SendFailed` (line 364), `SendReturn` (381), `OnFailed` (416),
`OnReturn` (421), `SetUpFailed` (431), `SetUpReturn` (440), `JoinFailed` (452, 458), `JoinReturn` (468),
`LwipEnd`, and in the receive loop one in each of `RecvEmpty` (391), `RecvError` (403) and `RecvFrame`
(407). So a failed `w5x00_ensure_up` in a bring-up is given back by `OnFailed` and then by
`SetUpFailed`, and leaving out or doubling any one of them is a change of the model: the mutants
`OnFailedHeld`, `RecvErrorHeld` and `OnReturnTwice` are three, and `LockGivenBack` refutes each.
`ThreadEnter` needs a context. Only lwIP's own threads can find none, after deinit; the code would
follow a NULL pointer there, and the model lets such a thread go no further.

*lwIP.* lwIP may transmit inside any call into it; that copies the packet to `eth_frame`
(`w5x00_netif_output`) and may take the link down (short `sendto`). It is modelled where it can be
seen: from the input callback (`ProcessFrame`), on a link that comes up (`JoinLink`), when the netif
is removed (`SetUpNetif`, `StopTransmit`/`StopSend`), and as calls of its own (`output`).

*Data.* A frame is its number or its sender; lengths, addresses, MAC, return codes other than
success or failure, and log output are left out. `delivered` is a history variable.

*Failures.* `w5x00_spi_init` may fail (no DMA channel), `socket()` may fail, `recvfrom` may fail
leaving the socket as it was or closed, a pbuf may be missing, lwIP's init may fail (which makes
`w5x00_arch_init` call `w5x00_arch_deinit`).

*Application discipline.* The headers require init before any call, and deinit from the thread
that called init. `MayCall` and `Quiet` say so: application calls are made on an initialised
driver, and main does not start init or deinit while one is in progress. `DisableLocked` says
whether applications bracket `w5x00_arch_disable_ethernet` with `w5x00_arch_lwip_begin/_end`. The
documentation does not ask for it, the code needs it: without it `lwip_exclusive` fails, and so would
`ListedMeansItf`, `TxFrameIntact` and `LossyFifo`.

### How the connect model is composed with the driver

`W5x00Connect` keeps the control of `w5x00_arch_ethernet_connect_until`. What the rest of the driver
does meanwhile to `initted`, `itf_state`, `ethernet_link_state` and `netif.flags` is not a guess of
its own but `NetInterface`, whose actions it instantiates as its environment: `Switch`, `NetifAdd`,
`Enable` (`Raise` or `Enable` there), `OtherCall` (`LinkUp`, `Join`, `LinkDown`, `Disable`),
`TcpipDeinit` (`Remove`). So a sample may fall between the steps of another thread's bring-up, join or
disable. The model adds the address, which the driver model does not have. The driver
implements `NetInterface`: `InterfaceKept`, checked by `driver_safety` and proved as
`InterfaceImplemented`. Its `Join` cannot fail with an I/O error because `itf_state` 1 implies a
running chip, which is `ItfMeansRunning`.

### How the lifecycle model corresponds to the code

*Contexts.* `live` are the `async_context`s that are initialised: the default one (`own`) and one of the
application's (`app`). `arch` is the static pointer of `w5x00_arch.c`, `drv` the driver's. The
application may set its context before init, take the default one itself, and destroy its context,
but not while `w5x00_arch` names it. If the default context cannot be created, `w5x00_arch_init`
returns having changed nothing: a stutter. If lwIP's init fails, `w5x00_arch_init` calls
`w5x00_arch_deinit` (phase `undo`). No transfer is under way at deinit: the thread that calls it
makes no other call, and lwIP's own threads are taken to be out of the driver by then, as in
`driver_safety`.

*Channels.* `user` says who claimed which channel; `ClaimUnused` returns any free one, or -1 if none
is. The application claims and releases between any two steps, also between the two claims of
`w5x00_spi_init`. `forgotten` is a history variable: the channels `dma_tx` and `dma_rx` stopped
naming without a release.

*Transfers.* A burst is two DMA transfers started at once, paced by the FIFOs. A byte is known by
where it comes from: the outbound one by its address, the chip's answer by its number. So `sent`
and `stored`, both history variables, tell which bytes went out in which order and which answer was
written where. The increments are those the burst functions set; the wait is for the inbound channel
only. An answer that finds the inbound FIFO full is lost (`lost`), as the DMA may be slower than the
port. The byte functions go through the SDK's blocking calls and complete in one step.

*MAC address.* It is a number with its first byte lowest, so the two bits that
`w5x00_hal_generate_laa_mac` clears and sets are the two lowest. `ResetShar` says what the chip's
register may hold after a reset: zero, or an address of its own.

Definitions that begin with the comment "Mutant:" are variants of the definition after them with a
plausible bug. No specification uses them; they document, property by property, a change of the
code that would break it.

## Runs

| run | shows | instance |
|---|---|---|
| `driver_safety` | `TypeOK`, `PollHasDriver`, `ItfMeansRunning`, `LwipExclusive`, `TxFrameIntact`, `LockHasContext`, `DeinitAlone`, `AppInductive`, `ListedMeansItf`, `DeliveredInOrder`, refinements `LossyFifo` and `InterfaceKept` | 2 application threads and lwIP's, which stays out of deinit, buffer of 2, 2 frames, sleep 1, disable bracketed, application's context |
| `driver_stack` | `MaskedIrqIsServiced`, `SleepChainUnbroken`, `LockGivenBack`, `LockRunsDown`, `IrqHasHandler`, `Inductive` | main and lwIP's thread, at any time, buffer of 1, 2 frames, sleep 2, disable not bracketed |
| `driver_live` | `InterruptAcknowledged`, `SleepWindsDown` | main alone, buffer of 1, 2 frames, sleep 2, application's context |
| `driver_calls` | `CallsReturn` | 2 application threads, no frames |
| `connect` | `TypeOK`, `OkWasUp`, `NoRoundAfterDeadline`, `TimedCallReturns`, `JoinedCallReturns` | unbounded but finite |
| `lifecycle` | `TypeOK`, `ChannelsHeld`, `ChannelsAccounted`, `TransferComplete`, `StaysInBounds`, `BurstCanMove`, `TransferEnds`, `DriverContextLive`, `OwnContextHeld`, `AppContextKept`, `MacAgrees` | 3 channels, FIFOs of 1, bursts of up to 2 bytes |

*Bounds.* `Threads`: two applications and lwIP compete for every lock and every unlocked section;
the code has no operation of more parties other than the poll, the interrupt and the network, which
are there in every run. `MaxFrames` 2 with `RxCap` 2 has one frame in process and one behind it, which is what
order and duplication need; `RxCap` 1 with two frames overflows. `SleepMax` (`W5X00_SLEEP_MAX`) 2
has a period that re-arms and a last one. In `lifecycle` three channels are one more than the driver
needs, so that the application can have one and still leave two, or take one of the two; a FIFO of
one entry overflows, and bursts of 0, 1 and 2 bytes are shorter than, as long as and longer than it;
the board id 511 has both of the address's low bits set, and the reset value is zero or not.
`MaxFrames` is the only bound the code does not have. The
proofs have no bounds.

*Symmetry* is not used: main differs from the others, and liveness forbids it.

*Fairness* (`FairSpec`). Weak for the interrupt: enabled and asserted, it is taken. Strong for the
background, the timer and each thread: each waits for the lock, which others take and release over
and over, and the SDK serves a waiter - the lock is a FreeRTOS mutex or a multicore lock whose
release re-raises a missed background request. A thread's calls are not fair, nor is the network:
nobody has to call, nothing has to arrive. Strong fairness for `BgStep` as a whole also means that
the receive loop ends, as `MaxFrames` ends the network's deliveries. In `W5x00Connect` the
thread and the clock are weakly fair: a wait ends with work, which lwIP's timers provide, or at the
deadline. In `W5x00Lifecycle` the two DMA channels, the port and the loop that waits are weakly fair:
hardware that can move a byte does, and the waiting thread runs on. Nothing makes anybody call.

*Deadlock* is checked except in `lifecycle`, where the system may really stop: after an overrun of the
inbound FIFO the waiting loop never ends (see below).

### Where code and documentation disagree

Each is a run that TLC refutes; the findings in `PROJECT.json` quote the line.

| run | what the counterexample does |
|---|---|
| `frames_serviced` | a frame arrives after the receive loop's last look and before the interrupt is cleared: it stays in the chip until another one arrives |
| `sleep_timeout_context` | a poll between the removal of the timer and of the worker re-arms the timer; it fires after deinit |
| `lwip_exclusive` | disable from one core while another actor is inside lwIP |
| `link_up_is_listed` | `socket()` failed, yet the netif comes up and is joined |
| `up_is_no_timeout` | the time is looked at after the sample and before its test: a deadline that has passed by then wins over a sample that is up (in the trace it passes before the join) |
| `failure_ends_call` | the join raises the link, a failed send (of the announcement that lwIP makes on a new link, or later) or receive takes it down and leaves the netif up and `itf_state` 1; the status is JOIN from then on, and a blocking connect loops for ever |

### What else the model shows

These have no run of their own. Each takes a constant or one step of the model to see.

- Under `Spec`, with `StackThreads = {tcpip}`, `LwipExclusive` fails at deinit too: `w5x00_driver_deinit` calls
  `w5x00_cb_tcpip_deinit` (142) and `w5x00_spi_deinit` (143) without the lock, before `lwip_*_deinit`
  stops lwIP, whose thread or timers may be transmitting. It also loses its DMA channels.
- There lwIP's thread may also hold a `w5x00_send_ethernet` that has been waiting for the lock, and
  bring the chip up again once `w5x00_poll` is NULL; or deinit clears `w5x00_async_context` before it
  has given the lock back. `PollHasDriver`, `ItfMeansRunning`, `LwipExclusive`, `TxFrameIntact` and
  `LockHasContext` are therefore claimed for `StackOutSpec`: lwIP's threads transmit when they like,
  but are not in the driver once deinit has removed the worker (`StackOut`). What survives such a
  transmission all the same: the types, the lock's discipline, the interrupt, the sleep chain, the
  netif list, the order of received frames, and what callers see of the interface. `driver_stack` checks
  the first four under `Spec`; the others `driver_safety` checks for `StackOutSpec`, and their theorems
  are about `Spec`.
- `w5x00_arch_disable_ethernet` leaves `ethernet_link_state` at `W5X00_LINK_JOIN`, as
  `w5x00_ethernet_leave` does nothing, where `w5x00_arch.h` 330-331 speaks of disconnecting.
- `w5x00_irq_deinit` removes the handler (70) before it masks the level interrupt (71). That is
  the only place where the interrupt is enabled without a handler to mask it (`IrqHasHandler`); what a
  frame that arrives there does is up to the SDK's dispatcher.
- A bring-up that gets one DMA channel and not the other fails and keeps the one; the retry sets both
  variables to -1 (`w5x00_spi.c` 110-111) and the channel is lost for good. `forgotten` holds it, and
  `ChannelsAccounted` shows that it is the only way to lose one.
- A burst has no time limit (`w5x00_spi.c` 58, 85): one answer lost in the port's FIFO, and it waits for
  ever, with the lock held. `TransferEnds` shows that there is no other way to hang.
- The check of `w5x00_poll == NULL` in `w5x00_poll_func` ("Poll scheduled during deinit") cannot
  fire: `w5x00_do_poll` tests the same pointer first, and the worker is gone before it is cleared.

## Proofs

| theorem | module | assumes |
|---|---|---|
| `InductiveInvariant`, `TypeCorrect`, `MaskedIrqServiced`, `SleepChain`, `LockReturned`, `IrqWindow` | `W5x00DriverTheorems` | nothing |
| `LockIsGivenBack` | `W5x00LockProofs` | nothing |
| `DeinitIsAlone`, `PollFindsDriver`, `ItfRunning`, `HolderHasContext` | `W5x00DriverTheorems` | `StackOut` |
| `ListedItf`, `ReceivesInOrder` | `W5x00DriverTheorems` | `DisableLocked` |
| `FramesInOrder` | `W5x00DeliveryProofs` | `DisableLocked` |
| `InterfaceImplemented` | `W5x00InterfaceProofs` | `DisableLocked` |
| `TxFrameKept`, `LwipIsExclusive` | `W5x00DriverTheorems` | both |
| `AppInvariant` | `W5x00InterfaceProofs` | both |
| `ConnectTypes`, `OkMeansUp`, `DeadlineEndsLoop` | `W5x00ConnectProofs` | nothing |
| `LifecycleTypes`, `ChannelsStayHeld`, `ChannelAccounts`, `ContextAlive`, `OwnContextBalance`, `AppContextSafe`, `MacFiltered`, `BurstsComplete`, `BurstsInBounds`, `BurstsMove` | `W5x00LifecycleProofs` | nothing |

`DisableLocked` is a constant: applications bracket `w5x00_arch_disable_ethernet`. `StackOut` is a
restriction of the behaviours, and the theorems that need it are stated of `StackOutSpec`, which
`driver_safety` checks: lwIP's threads may call the driver at any time, during init and the first
steps of deinit too, but none is inside it after the worker was removed. It holds by itself where
there are no such threads (`StackThreads = {}`). That nobody else is left by then is not assumed
but proved (`DeinitIsAlone`). Nothing else is
assumed besides the named assumptions on the constants: the actors are different from each other,
buffer, FIFO and sleep bound are positive, addresses are numbers and -1 is not a channel.

*The argument.* `Inductive` is a conjunction of named parts. `LockInv` ties `owner` and `depth` to
where the actors are: a thread holds the lock exactly at the labels between entry and exit, once or,
at the labels of a nested call, twice. The exits release one entry each, so that an exact depth is
needed to show that the last one frees the lock and no earlier one does: `LockReturned` follows from
it, and with an exit missing or doubled on any path it is not inductive (`AppInductive` is refuted by
the mutant `OnFailedHeld`). `CallInv` says which labels belong to which call and that init and deinit
are main's. `QuietInv` carries the application discipline through a call's steps. `WorkerInv` says
that once deinit has removed the worker - which waited for the lock - no poll runs. `IrqInv`
strengthens `MaskedIrqIsServiced`: a socket that can raise an interrupt exists only with `w5x00_poll`
set, so the poll that a masked interrupt waits for is not swallowed by `w5x00_do_poll`. `SleepInv`
strengthens `SleepChainUnbroken` with the time before the worker is registered. `TypeOK` is needed
throughout, and `depth` staying natural needs `LockInv`. `ItfPolled` says that `itf_state` 1 implies `w5x00_poll` set: no bring-up that lwIP's
threads may start behind deinit's back makes it false, since only an application sets the interface
up. `PollInv` ties chip, DMA, context and lock to `w5x00_poll` and needs `StackOut`; `NetifInv` ties
lwIP's list to `itf_state` and needs `DisableLocked`. Each part is preserved by each action
(one lemma per part, one step per action; the exits share a lemma, `ExitFrame`, for what none of them
changes, and one, `ExitPath`, for where each comes from and goes to). TLC checks `Inductive` and `AppInductive` as invariants
of `driver_stack` and `driver_safety`.

`LockIsGivenBack` is what can be proved of `CallsReturn`. `CallLeft` counts the steps of a call until
its last `W5X00_THREAD_EXIT`, label by label, `PollLeft` those of a poll, two more for each frame in the chip. A step
of the holder makes the count smaller, a step of anybody else leaves it, and only the network adds to
it (`CallStepsDown`, `HolderAlone`, `PollStepsDown`). So nobody
circles with the lock. What `CallsReturn` adds, that the holder takes its steps and a waiter gets its
turn, is fairness. That the last step, the exit, finds the context is `HolderHasContext`.

`ReceivesInOrder` maps `inFlight` to the frame in `eth_frame`, while it is processed, followed by
the chip's buffer: receiving a frame is a stutter, handing it to lwIP a delivery, every reset,
socket or error a loss; that a sender cannot change the frame in between follows from `LockInv` and
`WorkerInv` (`NoPoll`).

`FramesInOrder` is a consequence of `FrameDelivery` alone: what was delivered precedes what is in
flight, both rise, and a frame that arrives is later than both (`OrderInv`).

`IrqWindow` adds `HandlerInv`: the handler is installed from init until deinit removes it, which is
after the worker is gone, so that no post-poll hook unmasks the interrupt behind it.

`InterfaceImplemented` maps each step of the driver to one action of `NetInterface` or a stutter. It
rests on `ItfInv` - a call that has tested `itf_state` still finds it so when it acts -, on
`RaisedInv` - a netif just raised is up, without a link, until `itf_state` says so - and on `DeinitInv`: the driver is initialised until deinit itself says otherwise. None needs `StackOut`,
so the interface that the connect loop relies on is kept whatever lwIP's threads do.

`OkMeansUp`: a sample "up" reads the flags first and the address later. If the address was there
when the flags were read the network was up then; if not, it came in between, and DHCP gets an
address only over a link that is up. `DeadlineEndsLoop`: every label has its number of steps left
(`StepsLeft`) for a call without time, and each step, retries of the join included, lowers it.

`ChannelsStayHeld` and `ChannelAccounts` follow from `PoolInv`: the channels the driver has claimed are
those that `dma_tx` and `dma_rx` name and those forgotten, the two are distinct, and the inbound one is
not named before it is claimed. A claim adds one free channel, or nothing.

`BurstsComplete` and `BurstsInBounds` follow from `BurstInv`. While a burst runs, no byte appears or
vanishes (`Conserved`: loaded = sent + waiting, sent = stored + waiting + lost) and each is where it
belongs (`Placed`: byte k of either queue and of either history comes from, or went to, the address
that the increments give it). When the inbound channel has stored all of `len` answers, the sums leave
nothing for `lost`, for either FIFO or for the outbound channel. Between bursts both channels are
idle and both FIFOs empty, which is what the next one, or a byte transfer, starts from. `BurstsMove`
uses the same sums: with nothing lost and nothing in either FIFO the bytes sent are the answers
stored, so that the outbound channel has one to send if the inbound one waits. With `BurstRunsDown`,
by which each step of the hardware lowers the number of stages left, that is `TransferEnds` but for
the fairness of the hardware.

`ContextAlive`, `OwnContextBalance`: besides the two, the context that `w5x00_arch` names is alive.
`MacFiltered`: from `w5x00_ensure_up` on the chip's register holds what a reset may leave, then what
`w5x00_state.mac` holds, until the next reset, which takes the netif from the list first.

*Only model-checked:* liveness - `InterruptAcknowledged`, `SleepWindsDown`, `CallsReturn`,
`TimedCallReturns`, `JoinedCallReturns`, `TransferEnds` - as fairness and ENABLED are beyond the prover.
The safety part is proved of most: `MaskedIrqServiced` and `SleepChain` (there is always a poll to
come), `LockIsGivenBack` with `HolderHasContext` (polls and calls run down), `DeadlineEndsLoop`, and
`BurstsMove` with `BurstRunsDown`. The counterexamples are TLC's.

## Not modelled, and why

- ioLibrary, lwIP, the SDK: outside the repository; modelled as far as the code uses them.
- The contents of the bytes that SPI transfers carry: they are ioLibrary's. Their addresses, order and
  number are modelled. Chip select, clock rate and pin functions have no state the driver reads.
- Host name, static IP configuration, DNS: data the properties do not tell apart.
- Asserts on the core number: the SDK runs the context's work on one core by construction.
- `w5x00_ethernet_set_up(self, false)`, `w5x00_ethernet_leave`, the getters: they change nothing.
- Debug strings, macros, CMake files.

## Plan

The modules that were planned are there. What is left:

1. What `W5x00Driver` takes from `W5x00Lifecycle` - one flag for two channels, a context that is
   there or not - as an abstract specification of its own that both implement, by proof; and the
   same for the environment of `W5x00Connect`.
2. Liveness by proof, once the prover supports fairness.
