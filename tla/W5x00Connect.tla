---------------------------- MODULE W5x00Connect ----------------------------
(***************************************************************************)
(* w5x00_arch_ethernet_connect_blocking and _timeout_ms: one thread joins  *)
(* and then samples w5x00_tcpip_link_status, without a lock, while the     *)
(* rest of the driver, other threads and DHCP change what it reads.  Those *)
(* do what NetInterface allows, which W5x00Driver is proved to implement.  *)
(***************************************************************************)
EXTENDS Naturals

CONSTANT Dhcp     \* LWIP_DHCP: the address is leased, not static

ASSUME DhcpAssumption == Dhcp \in BOOLEAN

VARIABLES
  on,        \* w5x00_state.initted
  itf,       \* w5x00_state.itf_state
  link,      \* w5x00_state.ethernet_link_state
  flags,     \* the UP and LINK_UP bits of netif.flags
  addr,      \* netif.ip_addr is not zero
  pc,        \* where the connecting thread is
  status,    \* its local variable; "new" before the first sample
  deadline,  \* its argument until: never, ahead, or passed
  result,    \* what the last call returned
  upSeen     \* history: the network was up at some moment of the call

netVars == <<on, itf, link, flags, addr>>
callVars == <<pc, status, deadline, result>>
vars == <<netVars, callVars, upSeen>>

Net == INSTANCE NetInterface

LinkFlags == {"UP", "LINK_UP"}
Statuses == {"new", "DOWN", "JOIN", "NOIP", "UP", "FAIL", "NONET", "BADAUTH"}
Failures == {"FAIL", "NONET", "BADAUTH"}     \* the negative W5X00_LINK_ codes
Results == {"none", "OK", "EPERM", "TIMEOUT", "BADAUTH", "CONNECT_FAILED"}
Labels == {"idle", "join", "rejoin", "flags", "addr", "link", "time", "wait",
           "return"}

\* The network is joined: up, linked and with an address.
Up == flags = LinkFlags /\ addr

\* A history of the call, not part of the code.
Observe == upSeen' = (upSeen \/ Up')

Init ==
  /\ Net!Init /\ addr = FALSE
  /\ pc = "idle" /\ status = "new" /\ deadline = "never" /\ result = "none"
  /\ upSeen = FALSE

----------------------------------------------------------------------------
(* The connecting thread.                                                  *)

\* connect_blocking waits until the end of time, connect_timeout_ms does not.
Call ==
  /\ on /\ pc = "idle"
  /\ pc' = "join" /\ status' = "new" /\ result' = "none"
  /\ deadline' \in {"never", "ahead"}
  /\ upSeen' = Up
  /\ UNCHANGED netVars

\* Mutant: the join itself is taken for a connection.
JoinAsUp ==
  /\ pc = "join" /\ itf = 1
  /\ pc' = "flags" /\ flags' = flags \cup {"LINK_UP"} /\ link' = "UP"
  /\ UNCHANGED <<on, itf, addr, status, deadline, result>>

\* w5x00_ethernet_join, in one step: nobody but this thread looks meanwhile.
\* Ensuring the chip is up cannot fail: itf_state 1 means that it is
\* (ItfMeansRunning in W5x00DriverProps).
Join ==
  /\ pc \in {"join", "rejoin"}
  /\ IF itf = 0
       THEN /\ pc' = "idle" /\ result' = "EPERM"
            /\ UNCHANGED <<link, flags>>
       ELSE /\ pc' = IF pc = "join" THEN "flags" ELSE "time"
            /\ flags' \in Net!Linked(flags) /\ link' = "JOIN"
            /\ UNCHANGED result
  /\ UNCHANGED <<on, itf, addr, status, deadline>>

\* w5x00_tcpip_link_status reads the flags first ...
ReadFlags ==
  /\ pc = "flags"
  /\ pc' = IF flags = LinkFlags THEN "addr" ELSE "link"
  /\ UNCHANGED <<netVars, status, deadline, result>>

\* The sampled status; without a network the join is tried again.
Sampled(new) ==
  /\ status' = IF new = "NONET" THEN "JOIN" ELSE new
  /\ pc' = IF new = "NONET" THEN "rejoin" ELSE "time"
  /\ UNCHANGED <<netVars, deadline, result>>

\* Mutant: the address is not looked at.
ReadAddressBlind == pc = "addr" /\ Sampled("UP")

\* ... then either the address or the driver's own link state.
ReadAddress == pc = "addr" /\ Sampled(IF addr THEN "UP" ELSE "NOIP")
ReadLink == pc = "link" /\ Sampled(link)

\* Mutant: the time is looked at only while an address is awaited.
CheckTimeIfIdle ==
  /\ pc = "time"
  /\ IF deadline = "passed" /\ status = "NOIP"
       THEN pc' = "idle" /\ result' = "TIMEOUT"
       ELSE pc' = "wait" /\ UNCHANGED result
  /\ UNCHANGED <<netVars, status, deadline>>

\* time_reached(until), whatever the status just sampled.
CheckTime ==
  /\ pc = "time"
  /\ IF deadline = "passed"
       THEN pc' = "idle" /\ result' = "TIMEOUT"
       ELSE pc' = "wait" /\ UNCHANGED result
  /\ UNCHANGED <<netVars, status, deadline>>

\* Mutant: only a failure ends the loop.
WaitForWorkOn ==
  /\ pc = "wait"
  /\ pc' = IF status \in Failures THEN "return" ELSE "flags"
  /\ UNCHANGED <<netVars, status, deadline, result>>

\* w5x00_arch_poll and w5x00_arch_wait_for_work_until, then the loop test.
WaitForWork ==
  /\ pc = "wait"
  /\ pc' = IF status \in Failures \cup {"UP"} THEN "return" ELSE "flags"
  /\ UNCHANGED <<netVars, status, deadline, result>>

Return ==
  /\ pc = "return"
  /\ pc' = "idle"
  /\ result' = IF status = "UP" THEN "OK"
               ELSE IF status = "BADAUTH" THEN "BADAUTH" ELSE "CONNECT_FAILED"
  /\ UNCHANGED <<netVars, status, deadline>>

CallStep ==
  /\ \/ Join \/ ReadFlags \/ ReadAddress \/ ReadLink \/ CheckTime
     \/ WaitForWork \/ Return
  /\ Observe

----------------------------------------------------------------------------
(* Everything else.                                                        *)

\* The clock reaches the call's deadline.
TimeReached ==
  /\ deadline = "ahead" /\ deadline' = "passed"
  /\ UNCHANGED <<netVars, pc, status, result>>
  /\ Observe

\* w5x00_arch_init and w5x00_arch_deinit: no call is in progress.
Switch ==
  /\ pc = "idle"
  /\ Net!SwitchOn \/ Net!SwitchOff
  /\ UNCHANGED addr

\* w5x00_arch_enable_ethernet by another thread: netif_add clears the flags
\* and sets a static address, netif_set_up and itf_state follow.
NetifAdd == Net!Remove /\ addr' = ~Dhcp
Enable ==
  /\ \/ Net!Raise /\ (Dhcp \/ addr)
     \/ Net!Enable
  /\ UNCHANGED addr

\* w5x00_ethernet_join by another thread, w5x00_cb_tcpip_set_link_down after a
\* failed send or receive, and the end of w5x00_arch_disable_ethernet.
OtherCall ==
  /\ Net!LinkUp \/ Net!Join \/ Net!LinkDown \/ Net!Disable
  /\ UNCHANGED addr

\* w5x00_cb_tcpip_deinit zeroes the address with the flags.
TcpipDeinit == Net!Remove /\ addr' = FALSE

\* lwIP's DHCP client gets a lease over a working link ...
LeaseGained ==
  /\ Dhcp /\ flags = LinkFlags
  /\ addr' = TRUE
  /\ UNCHANGED <<on, itf, link, flags>>

\* ... or loses it.
LeaseLost ==
  /\ Dhcp
  /\ addr' = FALSE
  /\ UNCHANGED <<on, itf, link, flags>>

NetStep ==
  /\ \/ Switch \/ NetifAdd \/ Enable \/ OtherCall \/ TcpipDeinit
     \/ LeaseGained \/ LeaseLost
  /\ UNCHANGED callVars
  /\ Observe

Next == Call \/ CallStep \/ TimeReached \/ NetStep

Spec == Init /\ [][Next]_vars

\* The thread runs on: its waits end when there is work (lwIP's timers see to
\* it) or at the deadline, which comes.
FairSpec == Spec /\ WF_vars(CallStep) /\ WF_vars(TimeReached)

----------------------------------------------------------------------------
\* Every variable has its type; ethernet_link_state never becomes one of the
\* failures or of the states that w5x00_tcpip_link_status adds to it.
TypeOK ==
  /\ on \in BOOLEAN /\ itf \in {0, 1} /\ link \in {"DOWN", "JOIN"}
  /\ flags \in SUBSET LinkFlags /\ addr \in BOOLEAN
  /\ pc \in Labels /\ status \in Statuses /\ result \in Results
  /\ deadline \in {"never", "ahead", "passed"}
  /\ upSeen \in BOOLEAN

\* "return with success when an IP address has been assigned": the flags and
\* the address are read one after the other and without a lock, yet success is
\* reported only if the network was up at one moment of the call.
OkWasUp == result = "OK" => upSeen

\* How many steps a call still makes that has no time left.
StepsLeft ==
  CASE pc \in {"join", "wait"} -> 6
    [] pc = "flags" -> 5
    [] pc \in {"addr", "link"} -> 4
    [] pc = "rejoin" -> 3
    [] pc = "time" -> 2
    [] pc = "return" -> 1
    [] pc = "idle" -> 0

\* Once the deadline has passed a call makes no second round of the loop: it
\* does not go on because the network is not there, another join is due, or
\* the others change what it reads.
NoRoundAfterDeadline ==
  [][pc # "idle" /\ deadline = "passed" =>
       UNCHANGED pc \/ StepsLeft' < StepsLeft]_vars

\* "blocking until ... a timeout occurs": a call with a deadline returns.
TimedCallReturns == pc # "idle" /\ deadline # "never" ~> pc = "idle"

\* "blocking until the network is joined": a network that stays up ends the
\* call, one without a deadline too.
JoinedCallReturns == []<>(pc = "idle" \/ ~Up)

----------------------------------------------------------------------------
(* What comments and documents say and the code does not do.               *)

\* "return with success when an IP address has been assigned": a call that
\* has just found the network up does not report a timeout.
UpIsNoTimeout ==
  [][result' = "TIMEOUT" /\ result = "none" => status # "UP"]_vars

\* "blocking until the network is joined or a failure is detected": a call
\* during which the driver takes the link of a netif down that is up - all it
\* does on a failed send or receive - returns, or the netif changes again.
FailureEndsCall ==
  pc \in {"flags", "link", "wait"} /\ itf = 1 /\ flags = {"UP"}
    ~> (pc = "idle" \/ flags # {"UP"} \/ itf = 0)
=============================================================================
