---------------------------- MODULE NetInterface ----------------------------
(***************************************************************************)
(* What the driver promises to those who only look at its interface: how   *)
(* itf_state, ethernet_link_state and the netif's flags may change, seen   *)
(* without the lock, the calls' intermediate steps and the reasons.  The   *)
(* driver (W5x00Driver) implements it, the connect loop (W5x00Connect)     *)
(* relies on it.                                                           *)
(***************************************************************************)

VARIABLES
  on,      \* the driver is initialised
  itf,     \* w5x00_state.itf_state
  link,    \* w5x00_state.ethernet_link_state
  flags    \* the UP and LINK_UP bits of netif.flags

netIfVars == <<on, itf, link, flags>>

Init == on = FALSE /\ itf = 0 /\ link = "DOWN" /\ flags = {}

\* Initialising leaves the netif as the last deinit left it.
SwitchOn ==
  /\ ~on /\ on' = TRUE
  /\ itf' = 0 /\ link' = "DOWN"
  /\ UNCHANGED flags

SwitchOff ==
  /\ on /\ on' = FALSE
  /\ itf' = 0 /\ link' = "DOWN"
  /\ UNCHANGED flags

\* The interface is enabled once, and comes up without a link: the netif first,
Raise ==
  /\ on /\ itf = 0
  /\ flags' = {"UP"}
  /\ UNCHANGED <<on, itf, link>>

\* itf_state after it.
Enable ==
  /\ on /\ itf = 0 /\ flags = {"UP"}
  /\ itf' = 1
  /\ UNCHANGED <<on, link, flags>>

\* Flags after the link was raised: its announcement may fail at once.
Linked(f) == {f \cup {"LINK_UP"}, f \ {"LINK_UP"}}

\* Only an enabled interface joins: its link first,
LinkUp ==
  /\ on /\ itf = 1
  /\ flags' \in Linked(flags)
  /\ UNCHANGED <<on, itf, link>>

\* the link state after it.
Join ==
  /\ on /\ itf = 1
  /\ link' = "JOIN"
  /\ UNCHANGED <<on, itf, flags>>

LinkDown ==
  /\ flags' = flags \ {"LINK_UP"}
  /\ UNCHANGED <<on, itf, link>>

\* The netif is removed from lwIP, or added anew, before itf_state says so.
Remove ==
  /\ flags' = {}
  /\ UNCHANGED <<on, itf, link>>

\* The link state outlives the interface.
Disable ==
  /\ itf' = 0
  /\ UNCHANGED <<on, link, flags>>

Next ==
  \/ SwitchOn \/ SwitchOff \/ Raise \/ Enable \/ LinkUp \/ Join
  \/ LinkDown \/ Remove \/ Disable

Spec == Init /\ [][Next]_netIfVars
=============================================================================
