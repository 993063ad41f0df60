--------------------------- MODULE W5x00DriverInv ---------------------------
(***************************************************************************)
(* The inductive invariants behind the safety properties of the driver     *)
(* core.  Inductive holds for every configuration; AppInductive holds when *)
(* lwIP's threads stay out of the driver while main deinitialises it.      *)
(***************************************************************************)
EXTENDS W5x00DriverProps

\* Where thread t holds the context's lock.
Holding(t) ==
  \/ pc[t] \in LockedLabels
  \/ /\ DisableLocked /\ op[t] = "disable"
     /\ pc[t] \in StopLabels \cup DisableLabels

\* Bring-up runs from the reset of the chip to the first poll.
BringUpLabels == {"reset", "config", "kick", "failed"}
NestedLabels == {"ensure", "ensured"} \cup BringUpLabels

\* Where a call is inside a second, nested W5X00_THREAD_ENTER: that of
\* w5x00_ethernet_on or of w5x00_send_ethernet.
Nested(t) ==
  op[t] \in {"set_up", "output"} /\ pc[t] \in NestedLabels \cup {"sent"}

\* The lock: its owner is where it must be, and exactly as deep as its calls.
LockInv ==
  /\ owner = NoOwner <=> depth = 0
  /\ bg # "idle" <=> owner = Bg
  /\ owner = Bg => depth = IF bg = "take" THEN 2 ELSE 1
  /\ \A t \in Threads : Holding(t) <=> owner = t
  /\ \A t \in Threads : owner = t => depth = IF Nested(t) THEN 2 ELSE 1

\* What w5x00_ethernet_set_up does once w5x00_ethernet_on has returned.
SetUpLabels == {"on", "added", "raised"}

\* Which calls the steps of a thread belong to.
CallInv ==
  /\ \A t \in Threads :
       /\ op[t] \in {"init", "deinit"} => t = Main
       /\ op[t] \in {"set_up", "join", "disable"} => t \in AppThreads
       /\ pc[t] = "lock" /\ op[t] = "disable" => DisableLocked
       /\ pc[t] \in NestedLabels => op[t] \in {"set_up", "join", "output"}
       /\ pc[t] \in SetUpLabels \cup {"on_failed", "set_up_end"}
            => op[t] = "set_up"
       /\ pc[t] \in {"denied", "linked", "joined"} => op[t] = "join"
       /\ pc[t] = "sent" => op[t] = "output"
       /\ pc[t] \in StopLabels => op[t] \in {"disable", "deinit"}
       /\ pc[t] \in DisableLabels => op[t] = "disable"
       /\ pc[t] = "idle" <=> op[t] = "none"
  /\ pc[Main] = "init_worker" <=> op[Main] = "init"
  /\ op[Main] = "deinit" <=>
       \/ pc[Main] \in DeinitLabels
       \/ pc[Main] \in StopLabels /\ op[Main] # "disable"

\* Application calls are under way only on an initialised driver, and none
\* while main initialises or deinitialises.
QuietInv ==
  /\ op[Main] \in {"init", "deinit"} =>
       \A t \in AppThreads \ {Main} : pc[t] = "idle"
  /\ \A t \in AppThreads :
       op[t] \in {"set_up", "join", "output", "disable"} => initted

\* The poll worker is registered from init to deinit and runs only then.
WorkerInv ==
  /\ ~initted \/ pc[Main] = "init_worker" \/ Unhooked
       => ~registered /\ bg = "idle"
  /\ pc[Main] = "init_worker" => initted /\ irqEnabled /\ ~sockOpen
  /\ op[Main] = "deinit" /\ pc[Main] \notin {"dei_timer", "dei_worker",
                                              "dei_handler"}
       => ~handler
  /\ pc[Main] = "dei_arch" => ~initted
  /\ bg # "idle" => poll

\* The interrupt: a socket that can raise it exists only with w5x00_poll set.
IrqInv ==
  /\ recvIr => sockOpen
  /\ handler /\ sockOpen => poll
  /\ \A t \in Threads :
       op[t] = "set_up" /\ pc[t] \in SetUpLabels \cup {"ensured"} => poll
  /\ MaskedIrqIsServiced

\* itf_state is 1 only while w5x00_poll is set, also when lwIP's threads bring
\* the chip up behind deinit's back: set-up is the application's.
ItfPolled == itf = 1 => poll

\* The handler is installed from init until deinit removes it.
HandlerInv ==
  /\ IrqHasHandler
  /\ initted /\ (op[Main] = "deinit" =>
                   pc[Main] \in {"dei_timer", "dei_worker", "dei_handler"})
       => handler

\* The periodic poll, from before the worker is registered.
SleepInv ==
  /\ SleepChainUnbroken
  /\ poll /\ ~registered /\ (op[Main] # "deinit" \/ pc[Main] = "dei_arch")
       => pending

Inductive ==
  /\ TypeOK /\ LockInv /\ CallInv /\ QuietInv /\ WorkerInv /\ IrqInv
  /\ SleepInv /\ ItfPolled

\* The driver's state follows w5x00_poll.
PollInv ==
  /\ poll => initted /\ ~held /\ unmasked
  /\ initted <=> context
  /\ LockHasContext
  /\ poll /\ pc[Main] # "dei_state" => dma
  /\ \A t \in Threads :
       /\ pc[t] \in BringUpLabels => ~poll
       /\ pc[t] \in {"config", "kick"} => dma /\ ~held
       /\ pc[t] = "kick" => unmasked
       /\ pc[t] = "ensured" => poll
  /\ initted => pc[Main] # "dei_arch"

\* lwIP's list of netifs follows itf_state.
NetifInv ==
  /\ ListedMeansItf
  /\ pc[Main] \in {"dei_spi", "dei_state", "dei_arch"} \/ ~initted => ~listed
  /\ \A t \in Threads : pc[t] = "dis_itf" => ~listed

\* What a call found in itf_state still holds when it acts on it,
ItfInv ==
  \A t \in Threads :
    /\ op[t] = "set_up" /\ pc[t] \in NestedLabels \cup SetUpLabels => itf = 0
    /\ op[t] = "join" /\ pc[t] \in NestedLabels \cup {"linked"} => itf = 1

\* and what set-up did to the flags when it says so in itf_state.
RaisedInv == \A t \in Threads : pc[t] = "raised" => flags = {"UP"}

\* Deinit finds an initialised driver until it says otherwise itself.
DeinitInv == op[Main] = "deinit" /\ pc[Main] # "dei_arch" => initted

AppInductive ==
  /\ Inductive /\ PollInv /\ NetifInv /\ ItfInv /\ RaisedInv /\ DeinitInv
  /\ TxFrameIntact
=============================================================================
