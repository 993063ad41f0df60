------------------------ MODULE W5x00ConnectProofs ------------------------
(***************************************************************************)
(* A connect call that reports success has seen the network up, although   *)
(* it reads netif.flags and netif.ip_addr at different times, unlocked.    *)
(***************************************************************************)
EXTENDS W5x00Connect, TLAPS

\* A sample "UP" needs an address now and the flags a step earlier.  Between
\* the two reads an address can only appear while the network is up; a static
\* one was there when the flags were read.
SampleInv ==
  /\ ~Dhcp /\ "UP" \in flags => addr
  /\ pc # "idle" /\ Up => upSeen
  /\ pc = "addr" /\ addr => upSeen
  /\ pc = "addr" /\ ~Dhcp => upSeen
  /\ pc \in {"rejoin", "time", "wait", "return"} /\ status = "UP" => upSeen
  /\ pc # "idle" => result = "none"
  /\ OkWasUp

ConnectInv == TypeOK /\ SampleInv

USE DhcpAssumption
USE DEF vars, netVars, callVars, LinkFlags, Net!netIfVars
USE DEF Net!Init, Net!SwitchOn, Net!SwitchOff, Net!Raise, Net!Enable,
        Net!Linked, Net!LinkUp, Net!Join, Net!LinkDown, Net!Remove, Net!Disable

\* Every step of w5x00_arch_ethernet_connect_until and of whoever changes what
\* it reads preserves the types.
LEMMA TypeStep == TypeOK /\ [Next]_vars => TypeOK'
<1> SUFFICES ASSUME TypeOK, [Next]_vars PROVE TypeOK'
  OBVIOUS
<1> USE DEF TypeOK, Observe, Up, Labels, Statuses, Results
<1>1. CASE Call
  BY <1>1 DEF Call
<1>2. CASE CallStep
  <2>1. upSeen' \in BOOLEAN
    BY <1>2 DEF CallStep
  <2>2. CASE Join
    <3>1. flags' \in SUBSET LinkFlags
      BY <2>2 DEF Join
    <3>2. link' \in {"DOWN", "JOIN"} /\ pc' \in Labels /\ result' \in Results
      BY <2>2 DEF Join
    <3> QED
      BY <2>1, <2>2, <3>1, <3>2 DEF Join
  <2>3. CASE ReadFlags
    BY <2>1, <2>3 DEF ReadFlags
  <2>4. CASE ReadAddress \/ ReadLink
    BY <2>1, <2>4 DEF ReadAddress, ReadLink, Sampled
  <2>5. CASE CheckTime
    BY <2>1, <2>5 DEF CheckTime
  <2>6. CASE WaitForWork
    BY <2>1, <2>6 DEF WaitForWork
  <2>7. CASE Return
    BY <2>1, <2>7 DEF Return
  <2> QED
    BY <1>2, <2>2, <2>3, <2>4, <2>5, <2>6, <2>7 DEF CallStep
<1>3. CASE TimeReached
  BY <1>3 DEF TimeReached
<1>4. CASE NetStep
  <2>1. upSeen' \in BOOLEAN
    BY <1>4 DEF NetStep
  <2>2. on' \in BOOLEAN /\ itf' \in {0, 1} /\ link' \in {"DOWN", "JOIN"}
    BY <1>4 DEF NetStep, Switch, NetifAdd, Enable, OtherCall, TcpipDeinit,
       LeaseGained, LeaseLost
  <2>3. flags' \in SUBSET LinkFlags /\ addr' \in BOOLEAN
    BY <1>4 DEF NetStep, Switch, NetifAdd, Enable, OtherCall, TcpipDeinit,
       LeaseGained, LeaseLost
  <2> QED
    BY <1>4, <2>1, <2>2, <2>3 DEF NetStep
<1>5. CASE UNCHANGED vars
  BY <1>5
<1> QED
  BY <1>1, <1>2, <1>3, <1>4, <1>5 DEF Next

\* Every such step preserves what the samples rest on.
LEMMA SampleStep == TypeOK /\ SampleInv /\ [Next]_vars => SampleInv'
<1> SUFFICES ASSUME TypeOK, SampleInv, [Next]_vars PROVE SampleInv'
  OBVIOUS
<1> USE DEF TypeOK, SampleInv, OkWasUp, Observe, Up
<1>1. CASE Call
  BY <1>1 DEF Call
<1>2. CASE CallStep
  <2>1. CASE Join
    BY <1>2, <2>1 DEF CallStep, Join
  <2>2. CASE ReadFlags
    BY <1>2, <2>2 DEF CallStep, ReadFlags
  <2>3. CASE ReadAddress
    BY <1>2, <2>3 DEF CallStep, ReadAddress, Sampled
  <2>4. CASE ReadLink
    BY <1>2, <2>4 DEF CallStep, ReadLink, Sampled
  <2>5. CASE CheckTime
    BY <1>2, <2>5 DEF CallStep, CheckTime
  <2>6. CASE WaitForWork
    BY <1>2, <2>6 DEF CallStep, WaitForWork
  <2>7. CASE Return
    BY <1>2, <2>7 DEF CallStep, Return
  <2> QED
    BY <1>2, <2>1, <2>2, <2>3, <2>4, <2>5, <2>6, <2>7 DEF CallStep
<1>3. CASE TimeReached
  BY <1>3 DEF TimeReached
<1>4. CASE NetStep
  <2>1. CASE Switch
    BY <1>4, <2>1 DEF NetStep, Switch
  <2>2. CASE NetifAdd \/ Enable
    BY <1>4, <2>2 DEF NetStep, NetifAdd, Enable
  <2>3. CASE OtherCall
    BY <1>4, <2>3 DEF NetStep, OtherCall
  <2>4. CASE TcpipDeinit
    BY <1>4, <2>4 DEF NetStep, TcpipDeinit
  <2>5. CASE LeaseGained
    BY <1>4, <2>5 DEF NetStep, LeaseGained
  <2>6. CASE LeaseLost
    BY <1>4, <2>6 DEF NetStep, LeaseLost
  <2> QED
    BY <1>4, <2>1, <2>2, <2>3, <2>4, <2>5, <2>6 DEF NetStep
<1>5. CASE UNCHANGED vars
  BY <1>5
<1> QED
  BY <1>1, <1>2, <1>3, <1>4, <1>5 DEF Next

\* What the samples rest on holds throughout.
LEMMA ConnectInvariant == Spec => []ConnectInv
<1>1. Init => ConnectInv
  <2>1. Init => TypeOK
    BY DEF Init, TypeOK, Labels, Statuses, Results
  <2>2. Init => SampleInv
    BY DEF Init, SampleInv, OkWasUp
  <2> QED
    BY <2>1, <2>2 DEF ConnectInv
<1>2. ConnectInv /\ [Next]_vars => ConnectInv'
  BY TypeStep, SampleStep DEF ConnectInv
<1> QED
  BY <1>1, <1>2, PTL DEF Spec

\* ethernet_link_state never becomes a failure and the loop's locals keep their
\* types, whatever happens to the interface during a call.
THEOREM ConnectTypes == Spec => []TypeOK
<1>1. ConnectInv => TypeOK
  BY DEF ConnectInv
<1> QED
  BY <1>1, ConnectInvariant, PTL

\* w5x00_arch_ethernet_connect_blocking and _timeout_ms return PICO_OK only if
\* the netif was up, linked and had an address at one moment of the call.
THEOREM OkMeansUp == Spec => []OkWasUp
<1>1. ConnectInv => OkWasUp
  BY DEF ConnectInv, SampleInv
<1> QED
  BY <1>1, ConnectInvariant, PTL

\* A call of w5x00_arch_ethernet_connect_until whose time is up returns within
\* one round of its loop, whatever status it samples and whoever else acts.
THEOREM DeadlineEndsLoop == Spec => NoRoundAfterDeadline
<1> DEFINE Ends == pc # "idle" /\ deadline = "passed" =>
                     UNCHANGED pc \/ StepsLeft' < StepsLeft
<1>1. TypeOK /\ [Next]_vars => [Ends]_vars
  <2> SUFFICES ASSUME TypeOK, Next, pc # "idle", deadline = "passed"
               PROVE  UNCHANGED pc \/ StepsLeft' < StepsLeft
    OBVIOUS
  <2>1. CASE Call \/ TimeReached \/ NetStep
    BY <2>1 DEF Call, TimeReached, NetStep
  <2>2. CASE CallStep
    <3> USE DEF StepsLeft
    <3>1. CASE Join
      BY <3>1 DEF Join
    <3>2. CASE ReadFlags
      BY <3>2 DEF ReadFlags
    <3>3. CASE ReadAddress \/ ReadLink
      BY <3>3 DEF ReadAddress, ReadLink, Sampled
    <3>4. CASE CheckTime
      BY <3>4 DEF CheckTime
    <3>5. CASE WaitForWork \/ Return
      BY <3>5 DEF WaitForWork, Return
    <3> QED
      BY <2>2, <3>1, <3>2, <3>3, <3>4, <3>5 DEF CallStep
  <2> QED
    BY <2>1, <2>2 DEF Next
<1> QED
  BY <1>1, ConnectTypes, PTL DEF Spec, NoRoundAfterDeadline
=============================================================================
