---------------------------- MODULE AsyncContext ----------------------------
(***************************************************************************)
(* The Pico SDK async_context the driver is attached to, as the driver     *)
(* uses it: one recursive lock, the driver's when-pending worker (the poll *)
(* worker) and its at-time worker (the sleep timer).  The SDK is not part  *)
(* of the repository.                                                      *)
(***************************************************************************)
EXTENDS Naturals

CONSTANTS
  Threads,   \* threads, tasks or cores that call the driver
  Bg,        \* the context's own background processing
  NoOwner    \* the lock is free

ASSUME ContextAssumption ==
  Bg \notin Threads /\ NoOwner \notin Threads /\ Bg # NoOwner

VARIABLES
  owner,       \* who holds the recursive lock
  depth,       \* how many times its owner entered it
  registered,  \* the poll worker is in the when-pending list
  pending,     \* the poll worker's work_pending flag
  armed        \* the sleep worker is in the at-time list

lockVars == <<owner, depth>>
workVars == <<registered, pending, armed>>

ContextInit ==
  /\ owner = NoOwner /\ depth = 0
  /\ registered = FALSE /\ pending = FALSE /\ armed = FALSE

\* async_context_acquire_lock_blocking
Acquire(a) ==
  /\ owner \in {NoOwner, a}
  /\ owner' = a
  /\ depth' = depth + 1

\* async_context_release_lock
Release(a) ==
  /\ owner = a
  /\ depth' = depth - 1
  /\ owner' = IF depth = 1 THEN NoOwner ELSE a

\* The SDK takes the lock around every change to the worker lists, so such a
\* call waits while another actor holds it.
ListsFree == owner = NoOwner

ContextTypeOK ==
  /\ owner \in Threads \cup {Bg, NoOwner}
  /\ depth \in Nat
  /\ registered \in BOOLEAN /\ pending \in BOOLEAN /\ armed \in BOOLEAN
=============================================================================
